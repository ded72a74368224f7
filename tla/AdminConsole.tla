---------------------------- MODULE AdminConsole ----------------------------
(* The admin GUI with the daemon it starts, commands and mirrors. The GUI     *)
(* spawns a daemon when none listens, keeps one connection to whatever        *)
(* listens, queues the operator's clicks and shows what it was told last. Of  *)
(* the daemon this module has what facepay tells its clients: the mode, the   *)
(* card and the client list, and the threads that broadcast them. An action   *)
(* is one region under a lock, one message, or one step of a process.         *)
EXTENDS Integers, Sequences, FiniteSets

CONSTANTS
  Guis,       \* admin GUIs on the host
  Terminals,  \* other clients of the daemon
  External,   \* owner of a daemon that no GUI started
  Idis,       \* cards
  Amounts,    \* amounts asked for
  None,       \* null
  MaxLinks,   \* bound: connections of a client
  Budgets     \* bounds: how often each kind of Kinds may happen in a behaviour

\* Clicks, cards moved, CLI commands, connections of terminals, links broken,
\* daemons started by hand, processes that end, GUIs that start.
Kinds == {"clicks", "cards", "commands", "terminals", "breaks", "starts", "ends", "guis"}

ASSUME ConsoleAssumption ==
  /\ External \notin Guis /\ None \notin Guis \cup {External} \cup Idis \cup Amounts
  /\ Guis \cap Terminals = {}
  /\ MaxLinks \in Nat
  /\ Budgets \subseteq [Kinds -> Nat]

Owners == Guis \cup {External}
Clients == Guis \cup Terminals
Conns == Clients \X (1..MaxLinks)
CardLoop == <<"card_loop", 0>>
CliLoop == <<"cli_loop", 0>>
Threads == {CardLoop, CliLoop} \cup Conns
Modes == Amounts \cup {None}

VARIABLES
  daemons,  \* owner -> its facepay process
  shared,   \* Shared of the daemon that listens: mode and card
  clients,  \* its client list
  work,     \* its threads: what each has still to build or to send
  link,     \* client -> its connection now, or 0
  dialled,  \* client -> connections it has made
  wire,     \* connection -> commands on their way to the daemon
  gui,      \* GUI -> its threads and its Shared
  stale,    \* history: GUI -> what it was sent last was out of date
  log,      \* history: GUI -> its commands that were carried out, by number
  raced,    \* history: two daemons were being started at the same time
  beside,   \* history: one was started by hand beside another
  left      \* what is left of each bound

server == <<shared, clients, work>>
wires == <<link, dialled, wire>>
history == <<stale, log, raced, beside>>
vars == <<daemons, server, wires, gui, history, left>>

NewGui ==
  [pc |-> "off", connected |-> FALSE, drawn |-> FALSE, mode |-> None, idi |-> None,
   clients |-> 0, balanceOf |-> None, queue |-> << >>, clicks |-> 0]

Fresh == [mode |-> None, idi |-> None]
Listening == {o \in Owners : daemons[o] = "listening"}
Starting == {g \in Guis : gui[g].pc = "spawn"} \cup {o \in Owners : daemons[o] = "starting"}

Init ==
  /\ daemons = [o \in Owners |-> "absent"]
  /\ shared = Fresh /\ clients = {} /\ work = [t \in Threads |-> << >>]
  /\ link = [c \in Clients |-> 0] /\ dialled = [c \in Clients |-> 0]
  /\ wire = [k \in Conns |-> << >>]
  /\ gui = [g \in Guis |-> NewGui]
  /\ stale = [g \in Guis |-> FALSE] /\ log = [g \in Guis |-> << >>]
  /\ raced = FALSE /\ beside = FALSE
  /\ left \in Budgets

Use(kind) == left[kind] > 0 /\ left' = [left EXCEPT ![kind] = @ - 1]

-----------------------------------------------------------------------------
(* The daemon's threads. A task is a message to broadcast, or "status": the   *)
(* text of a status is built under the lock, and sent after it.               *)

StatusMsg(s, cs) ==
  [type |-> "status", mode |-> s.mode, idi |-> s.idi, clients |-> Cardinality(cs)]
ModeMsg(mode) == [type |-> "mode", mode |-> mode]
CardMsg(idi) == [type |-> "card", idi |-> idi]
Say(m) == [do |-> "send", msg |-> m]
BroadcastStatus == [do |-> "status"]

\* What the daemon would say now.
UpToDate(m) ==
  CASE m.type = "mode" -> m.mode = shared.mode
    [] m.type = "card" -> m.idi = shared.idi
    [] m.type = "status" -> m = StatusMsg(shared, clients)

Connected(g) == link[g] # 0 /\ <<g, link[g]>> \in clients

\* handle_message, in the GUI.
Told(u, m) ==
  CASE m.type = "mode" -> [u EXCEPT !.mode = m.mode]
    [] m.type = "card" -> [u EXCEPT !.idi = m.idi, !.balanceOf = m.idi]
    [] m.type = "status" -> [u EXCEPT !.mode = m.mode, !.idi = m.idi, !.clients = m.clients]

\* send_terminal: every registered client gets the message. A GUI's events
\* arrive in order, and nothing it does depends on when it handles them: here,
\* as they are sent.
SendAll(t) ==
  /\ work[t] # << >> /\ Head(work[t]).do = "send"
  /\ LET m == Head(work[t]).msg IN
     /\ gui' = [g \in Guis |-> IF Connected(g) THEN Told(gui[g], m) ELSE gui[g]]
     /\ stale' = [g \in Guis |->
          IF ~Connected(g) THEN stale[g]
          ELSE ~UpToDate(m) \/ (stale[g] /\ m.type # "status")]
  /\ work' = [work EXCEPT ![t] = Tail(@)]
  /\ UNCHANGED <<daemons, shared, clients, wires, log, raced, beside, left>>

BuildStatus(t) ==
  /\ work[t] # << >> /\ Head(work[t]).do = "status"
  /\ work' = [work EXCEPT ![t] = << Say(StatusMsg(shared, clients)) >> \o Tail(@)]
  /\ UNCHANGED <<daemons, shared, clients, wires, gui, history, left>>

SetMode(t, mode, told) ==
  /\ work[t] = << >>
  /\ shared' = [shared EXCEPT !.mode = mode]
  /\ work' = [work EXCEPT ![t] = told]

\* set_pay_mode, run by the CLI; a daemon that a GUI started has no stdin.
Command(mode) ==
  /\ daemons[External] = "listening" /\ Use("commands")
  /\ SetMode(CliLoop, mode, << Say(ModeMsg(mode)), BroadcastStatus >>)
  /\ UNCHANGED <<daemons, clients, wires, gui, history>>

Op(k, told) ==
  /\ k \in clients /\ wire[k] # << >>
  /\ SetMode(k, Head(wire[k]).mode, told)
  /\ wire' = [wire EXCEPT ![k] = Tail(@)]
  /\ log' = [log EXCEPT ![k[1]] = Append(@, [number |-> Head(wire[k]).number, conn |-> k[2]])]
  /\ UNCHANGED <<daemons, clients, link, dialled, gui, stale, raced, beside, left>>

\* Mutant: an operator's mode goes to nobody.
HandleOpUntold(k) == Op(k, << >>)

\* The same, run by a connection's thread for a GUI's command.
HandleOp(k) == Op(k, << Say(ModeMsg(Head(wire[k]).mode)), BroadcastStatus >>)

\* card_loop publishes a card or forgets it; c = None is a removal.
MoveCard(c) ==
  /\ Listening # {} /\ work[CardLoop] = << >> /\ c # shared.idi /\ Use("cards")
  /\ shared' = [shared EXCEPT !.idi = c]
  /\ work' = [work EXCEPT ![CardLoop] = << Say(CardMsg(c)) >>]
  /\ UNCHANGED <<daemons, clients, wires, gui, history>>

\* The thread of a connection that is gone takes it off the list.
ConnectionEnds(k) ==
  /\ k \in clients /\ link[k[1]] # k[2] /\ work[k] = << >>
  /\ clients' = clients \ {k}
  /\ work' = [work EXCEPT ![k] = << BroadcastStatus >>]
  /\ wire' = [wire EXCEPT ![k] = << >>]
  /\ UNCHANGED <<daemons, shared, link, dialled, gui, history, left>>

-----------------------------------------------------------------------------
(* Connections.                                                               *)

\* What ws_handle sends a client that it registers: the mode, a status, and the
\* card if there is one.
Snapshot(u, cs) ==
  LET told == Told(Told(u, ModeMsg(shared.mode)), StatusMsg(shared, cs))
  IN IF shared.idi = None THEN told ELSE Told(told, CardMsg(shared.idi))

\* It then tells everybody that there is one client more.
Register(c) ==
  LET n == dialled[c] + 1 IN
  /\ Listening # {} /\ link[c] = 0 /\ n <= MaxLinks
  /\ link' = [link EXCEPT ![c] = n]
  /\ dialled' = [dialled EXCEPT ![c] = n]
  /\ clients' = clients \cup {<<c, n>>}
  /\ work' = [work EXCEPT ![<<c, n>>] = << BroadcastStatus >>]
  /\ stale' = [g \in Guis |-> stale[g] /\ g # c]
  /\ UNCHANGED <<daemons, shared, wire, log, raced, beside>>

TerminalConnects(c) ==
  c \in Terminals /\ Use("terminals") /\ Register(c) /\ UNCHANGED gui

\* The link breaks. Commands on the wire are read yet, or lost.
Unlink(c) ==
  /\ \/ UNCHANGED wire
     \/ wire' = [k \in Conns |-> IF k = <<c, link[c]>> THEN << >> ELSE wire[k]]
  /\ link' = [link EXCEPT ![c] = 0]
  /\ UNCHANGED dialled

Break(c) ==
  /\ link[c] # 0 /\ Use("breaks")
  /\ Unlink(c)
  /\ UNCHANGED <<daemons, server, gui, history>>

-----------------------------------------------------------------------------
(* ws_thread of a GUI.                                                        *)

Gui(g, new) == gui' = [gui EXCEPT ![g] = new]

Connect(g) ==
  /\ gui[g].pc = "connect"
  /\ Register(g)
  /\ Gui(g, [Snapshot(gui[g], clients') EXCEPT !.pc = "up", !.connected = TRUE])
  /\ UNCHANGED left

\* Nobody listens: the queue is emptied before the next attempt.
ConnectFails(g) ==
  /\ gui[g].pc = "connect" /\ Listening = {} /\ gui[g].queue # << >>
  /\ Gui(g, [gui[g] EXCEPT !.queue = << >>])
  /\ UNCHANGED <<daemons, server, wires, history, left>>

Transmit(g, rest) ==
  /\ gui[g].pc = "up" /\ gui[g].queue # << >>
  /\ wire' = IF link[g] = 0 THEN wire
             ELSE [wire EXCEPT ![<<g, link[g]>>] = Append(@, Head(gui[g].queue))]
  /\ Gui(g, [gui[g] EXCEPT !.queue = rest])
  /\ UNCHANGED <<daemons, server, link, dialled, history, left>>

\* Mutant: only the oldest queued command is sent.
FlushDrops(g) == Transmit(g, << >>)

\* A send into a broken link may still look like a success: it is lost.
Flush(g) == Transmit(g, Tail(gui[g].queue))

\* Mutant: a thread that lost its link stops.
NoticeStops(g) ==
  /\ gui[g].pc = "up" /\ link[g] = 0
  /\ Gui(g, [gui[g] EXCEPT !.pc = "stopped", !.connected = FALSE])
  /\ UNCHANGED <<daemons, server, wires, history, left>>

\* A read or a send fails, or a Close arrives.
Notice(g) ==
  /\ gui[g].pc = "up" /\ link[g] = 0
  /\ Gui(g, [gui[g] EXCEPT !.pc = "down", !.connected = FALSE])
  /\ UNCHANGED <<daemons, server, wires, history, left>>

Discard(g) ==
  /\ gui[g].pc = "down"
  /\ Gui(g, [gui[g] EXCEPT !.pc = "connect", !.queue = << >>])
  /\ UNCHANGED <<daemons, server, wires, history, left>>

-----------------------------------------------------------------------------
(* App: a frame is drawn from a copy of Shared, and clicks are on that frame. *)

Draw(g) ==
  /\ gui[g].drawn # gui[g].connected
  /\ Gui(g, [gui[g] EXCEPT !.drawn = gui[g].connected])
  /\ UNCHANGED <<daemons, server, wires, history, left>>

Click(g, mode) ==
  /\ gui[g].drawn /\ Use("clicks")
  /\ LET n == gui[g].clicks + 1 IN
     Gui(g, [gui[g] EXCEPT !.clicks = n,
                           !.queue = Append(@, [mode |-> mode, number |-> n])])
  /\ UNCHANGED <<daemons, server, wires, history>>

-----------------------------------------------------------------------------
(* Processes.                                                                 *)

Begin(g, spawns) ==
  /\ gui[g].pc = "off" /\ Use("guis")
  /\ \E found \in BOOLEAN :
       Gui(g, [gui[g] EXCEPT !.pc = IF spawns /\ found THEN "spawn" ELSE "connect"])
  /\ raced' = (raced \/ (spawns /\ Starting # {}))
  /\ UNCHANGED <<daemons, server, wires, stale, log, beside>>

\* Mutant: whether one listens already is not looked at.
StartGuiBlind(g) == Begin(g, TRUE)

\* main: a GUI that finds nobody listening will spawn facepay, if it finds it.
StartGui(g) == Begin(g, Listening = {})

Spawn(g) ==
  /\ gui[g].pc = "spawn"
  /\ daemons' = [daemons EXCEPT ![g] = "starting"]
  /\ Gui(g, [gui[g] EXCEPT !.pc = "connect"])
  /\ UNCHANGED <<server, wires, history, left>>

Running(O) == {o \in O : daemons[o] # "absent"}

\* Somebody starts facepay by hand: its main looks for no other.
StartExternal ==
  /\ daemons[External] = "absent" /\ Use("starts")
  /\ daemons' = [daemons EXCEPT ![External] = "starting"]
  /\ raced' = (raced \/ Starting # {})
  /\ beside' = (beside \/ Running(Owners) # {})
  /\ UNCHANGED <<server, wires, gui, stale, log>>

BindAs(o, then) ==
  /\ daemons[o] = "starting"
  /\ daemons' = [daemons EXCEPT ![o] = then]
  /\ UNCHANGED <<server, wires, gui, history, left>>

\* Mutant: the port is shared.
BindShared(o) == BindAs(o, "listening")

\* ws_server: when the port is taken the daemon goes on without clients.
Bind(o) == BindAs(o, IF Listening = {} THEN "listening" ELSE "deaf")

\* A daemon ends. If it listened, all of its state goes and every link breaks;
\* if not, the links do what the caller says.
Die(o, otherwise) ==
  /\ daemons' = [daemons EXCEPT ![o] = "absent"]
  /\ IF o \in Listening
       THEN /\ shared' = Fresh /\ clients' = {} /\ work' = [t \in Threads |-> << >>]
            /\ link' = [c \in Clients |-> 0]
            /\ wire' = [k \in Conns |-> << >>]
            /\ UNCHANGED dialled
       ELSE otherwise /\ UNCHANGED server

ExternalEnds ==
  /\ daemons[External] # "absent" /\ Use("ends")
  /\ Die(External, UNCHANGED wires)
  /\ UNCHANGED <<gui, history>>

\* The window is closed, or the GUI crashes: DaemonGuard or the parent-death
\* signal takes its own daemon along, and no other; its own link breaks.
GuiEnds(g) ==
  /\ gui[g].pc \notin {"off", "closed"} /\ gui[g].pc # "spawn" /\ Use("ends")
  /\ Die(g, Unlink(g))
  /\ Gui(g, [NewGui EXCEPT !.pc = "closed", !.clicks = gui[g].clicks])
  /\ UNCHANGED history

-----------------------------------------------------------------------------
Serve ==
  \/ \E t \in Threads : SendAll(t) \/ BuildStatus(t)
  \/ \E k \in Conns : HandleOp(k) \/ ConnectionEnds(k)

Outside ==
  \/ \E mode \in Modes : Command(mode)
  \/ \E c \in Idis \cup {None} : MoveCard(c)
  \/ \E c \in Clients : TerminalConnects(c) \/ Break(c)

WsThread(g) ==
  Connect(g) \/ ConnectFails(g) \/ Flush(g) \/ Notice(g) \/ Discard(g)

Window(g) == Draw(g) \/ \E mode \in Modes : Click(g, mode)

Processes ==
  \/ \E g \in Guis : StartGui(g) \/ Spawn(g) \/ GuiEnds(g)
  \/ \E o \in Owners : Bind(o)
  \/ StartExternal \/ ExternalEnds

Next == Serve \/ Outside \/ Processes \/ \E g \in Guis : WsThread(g) \/ Window(g)

\* Threads run, started daemons get to their bind.
Fairness ==
  /\ WF_vars(Serve)
  /\ \A g \in Guis : WF_vars(WsThread(g)) /\ WF_vars(Spawn(g))
  /\ \A o \in Owners : WF_vars(Bind(o))

Spec == Init /\ [][Next]_vars /\ Fairness

-----------------------------------------------------------------------------
(* Properties.                                                                *)

Msgs == [type : {"mode"}, mode : Modes] \cup [type : {"card"}, idi : Idis \cup {None}]
          \cup [type : {"status"}, mode : Modes, idi : Idis \cup {None}, clients : Nat]
Tasks == [do : {"send"}, msg : Msgs] \cup [do : {"status"}]
GuiCommands == [mode : Modes, number : Nat]

\* The shape of the state.
TypeOK ==
  /\ daemons \in [Owners -> {"absent", "starting", "listening", "deaf"}]
  /\ Cardinality(Listening) <= 1
  /\ shared \in [mode : Modes, idi : Idis \cup {None}]
  /\ clients \subseteq Conns /\ work \in [Threads -> Seq(Tasks)]
  /\ link \in [Clients -> 0..MaxLinks] /\ dialled \in [Clients -> 0..MaxLinks]
  /\ wire \in [Conns -> Seq(GuiCommands)]
  /\ gui \in [Guis -> [pc : {"off", "spawn", "connect", "up", "down", "closed"},
                       connected : BOOLEAN, drawn : BOOLEAN, mode : Modes,
                       idi : Idis \cup {None}, clients : Nat, balanceOf : Idis \cup {None},
                       queue : Seq(GuiCommands), clicks : Nat]]

\* Once all is told, a GUI shows the daemon's mode, card and number of clients,
\* and a balance only next to the card it is of, unless the last status it was
\* sent was built before a change and sent after the news of it
\* (facepay.rs:193): every change is told after it was made.
Quiet(g) ==
  Connected(g) /\ gui[g].pc = "up" /\ \A t \in Threads : work[t] = << >>

MirrorIsCurrent ==
  \A g \in Guis : Quiet(g) /\ ~stale[g] =>
    /\ gui[g].mode = shared.mode /\ gui[g].idi = shared.idi
    /\ gui[g].clients = Cardinality(clients)
    /\ gui[g].idi # None => gui[g].balanceOf = gui[g].idi

\* A click is carried out at most once, across broken links and daemons that
\* are replaced, and before a later one unless that came on a later connection,
\* whose thread may be the faster; while its first link holds, every click is
\* carried out or still under way, in order.
UnderWay(g) ==
  (IF link[g] = 0 THEN << >> ELSE wire[<<g, link[g]>>]) \o gui[g].queue

CommandsAccounted ==
  \A g \in Guis :
    /\ \A i, j \in DOMAIN log[g] : i < j =>
         \/ log[g][i].number < log[g][j].number
         \/ log[g][i].number > log[g][j].number /\ log[g][i].conn > log[g][j].conn
    /\ (dialled[g] = 1 /\ Connected(g)) =>
         [i \in DOMAIN log[g] |-> log[g][i].number]
             \o [i \in DOMAIN UnderWay(g) |-> UnderWay(g)[i].number]
           = [i \in 1..gui[g].clicks |-> i]

\* No GUI adds a daemon to another GUI's, and a daemon that a GUI started gets
\* the port, unless two were being started at the same time: the GUI looks for
\* one before it spawns one, and takes its own along when it ends (main.rs:551,
\* 272-276). There are two on the reader without such a race only once one was
\* started by hand beside another, which no code hinders (facepay.rs:119-152).
OneDaemonUnlessRaced ==
  \/ raced
  \/ /\ Cardinality(Running(Guis)) <= 1 /\ \A g \in Guis : daemons[g] # "deaf"
     /\ Cardinality(Running(Owners)) <= 1 \/ beside

\* While a daemon listens for good, a GUI that stays open gets back to it after
\* links and daemons were lost, and its queue empties.
Open(g) == gui[g].pc \notin {"off", "closed"}

GuiComesBack ==
  \A g \in Guis :
    <>[](Open(g) /\ Listening # {} /\ (link[g] # 0 \/ dialled[g] < MaxLinks))
      => <>[](gui[g].connected /\ gui[g].queue = << >>)
=============================================================================
