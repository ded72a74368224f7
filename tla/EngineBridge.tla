----------------------------- MODULE EngineBridge -----------------------------
(* The bridge between the page and the face engine (MainActivity, SafrEngine,  *)
(* engine.ts): the page numbers its requests, one thread serves them behind    *)
(* the engine's start, and an answer resolves a request by its number alone,   *)
(* in whatever page is loaded by then. The pages carry a count here that the   *)
(* code does not keep.                                                         *)
EXTENDS Naturals, Sequences, FiniteSets

VARIABLES
  page,       \* the page: its count, its last request's number, its pending requests
  engineExec, \* requests the engine's thread has to serve
  answers,    \* answers on their way to the page
  engine,     \* the face engine: its start, whether its store holds a person
  resolved    \* the request resolved last, and the answer that did it

bridgeVars == <<page, engineExec, answers, engine, resolved>>

Methods == {"status", "probe", "register", "match", "camera"}

\* What an answer may say; what a request must be told to count as a success.
Facts == {"ready", "found", "ok", "sure"}
Needs(method) ==
  CASE method = "status" -> {"ready"}
    [] method = "probe" -> {"found"}
    [] method = "register" -> {"ok"}
    [] method = "match" -> {"ok", "sure"}
    [] OTHER -> {}

Requests == [from : Nat, id : Nat, method : Methods]
LoadedPage(n) == [n |-> n, seq |-> 0, pending |-> {}]
Nothing == [page |-> 0, asked |-> "camera", from |-> 0, by |-> "camera", id |-> 0, good |-> FALSE]

BridgeInit ==
  /\ page = LoadedPage(1)
  /\ engineExec = << >> /\ answers = << >>
  /\ engine = [up |-> "starting", registered |-> FALSE]
  /\ resolved = Nothing

\* call: the camera's requests are answered at once, the others wait for the
\* engine's thread.
Call(method) ==
  LET r == [from |-> page.n, id |-> page.seq + 1, method |-> method] IN
  /\ page' = [page EXCEPT !.seq = @ + 1, !.pending = @ \cup {r}]
  /\ IF method = "camera"
       THEN answers' = Append(answers, [request |-> r, says |-> {}]) /\ UNCHANGED engineExec
       ELSE engineExec' = Append(engineExec, r) /\ UNCHANGED answers
  /\ UNCHANGED <<engine, resolved>>

\* init, the first task of the engine's thread.
StartEngine ==
  /\ engine.up = "starting"
  /\ \E up \in {"up", "failed"} : engine' = [engine EXCEPT !.up = up]
  /\ UNCHANGED <<page, engineExec, answers, resolved>>

\* What handle can answer, and the store it leaves. Without a frame or without
\* an engine nothing is found; register empties the store before it learns.
Served(method) ==
  LET kept == engine.registered
      usable == engine.up = "up"
  IN { [says |-> {}, store |-> kept] }
     \cup CASE method = "status" ->
                 { [says |-> IF usable THEN {"ready"} ELSE {}, store |-> kept] }
            [] usable /\ method = "probe" -> { [says |-> {"found"}, store |-> kept] }
            [] usable /\ method = "register" -> { [says |-> {"ok"}, store |-> TRUE],
                                                  [says |-> {}, store |-> FALSE] }
            [] usable /\ method = "match" /\ kept -> { [says |-> s, store |-> kept] :
                                                         s \in {{"ok"}, {"ok", "sure"}} }
            [] OTHER -> {}

AnswerWith(served, answered) ==
  /\ engine.up # "starting" /\ engineExec # << >>
  /\ engine' = [engine EXCEPT !.registered = served.store]
  /\ engineExec' = Tail(engineExec)
  /\ answers' = IF answered THEN Append(answers, [request |-> Head(engineExec),
                                                  says |-> served.says])
                ELSE answers
  /\ UNCHANGED <<page, resolved>>

\* Mutant: a call that found nothing is not answered.
ServeFound(served) == AnswerWith(served, served.says # {})

\* Every task ends in resolve, also when it threw.
Serve(served) == AnswerWith(served, TRUE)

\* Mutant: any recognized face counts, whatever its confidence.
SucceedsUnsure(method, says) == Needs(method) \ {"sure"} \subseteq says

\* What register and recognize make of an answer.
Succeeds(method, says) == Needs(method) \subseteq says

\* __safrResolve, in the page that is there: the number alone decides.
Resolve ==
  /\ answers # << >>
  /\ LET a == Head(answers)
         known == {r \in page.pending : r.id = a.request.id}
     IN /\ page' = [page EXCEPT !.pending = @ \ known]
        /\ IF known = {} THEN UNCHANGED resolved
           ELSE \E r \in known :
                  resolved' = [page |-> page.n, asked |-> r.method, from |-> a.request.from,
                               by |-> a.request.method, id |-> r.id,
                               good |-> Succeeds(r.method, a.says)]
  /\ answers' = Tail(answers)
  /\ UNCHANGED <<engineExec, engine>>

\* Another page is loaded; what the old one asked is still served.
LoadPage ==
  /\ page' = LoadedPage(page.n + 1)
  /\ UNCHANGED <<engineExec, answers, engine, resolved>>

BridgeStep ==
  \/ StartEngine \/ Resolve
  \/ /\ engineExec # << >>
     /\ \E served \in Served(Head(engineExec).method) : Serve(served)

-----------------------------------------------------------------------------
\* The requests that are still to be served or answered.
InFlight ==
  {engineExec[i] : i \in DOMAIN engineExec} \cup {answers[i].request : i \in DOMAIN answers}

BridgeTypeOK ==
  /\ page.n \in Nat /\ page.seq \in Nat /\ page.pending \subseteq Requests
  /\ engineExec \in Seq(Requests)
  /\ answers \in Seq([request : Requests, says : SUBSET Facts])
  /\ engine \in [up : {"starting", "up", "failed"}, registered : BOOLEAN]
  /\ resolved \in [page : Nat, asked : Methods, from : Nat, by : Methods, id : Nat,
                   good : BOOLEAN]
=============================================================================
