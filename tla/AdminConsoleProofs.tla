------------------------- MODULE AdminConsoleProofs -------------------------
(* AdminConsole for any number of GUIs, clients, connections and budgets: the *)
(* shape of the state, one daemon on the host unless two were being started   *)
(* at once, what becomes of the operator's clicks, and what a GUI shows.      *)
EXTENDS AdminConsole, FiniteSetTheorems, SequenceTheorems, TLAPS

GuiRecords ==
  [pc : {"off", "spawn", "connect", "up", "down", "closed"}, connected : BOOLEAN,
   drawn : BOOLEAN, mode : Modes, idi : Idis \cup {None}, clients : Nat,
   balanceOf : Idis \cup {None}, queue : Seq(GuiCommands), clicks : Nat]
LogEntries == [number : Nat, conn : 1..MaxLinks]

\* The parts of TypeOK, by who keeps them; the client list is finite, so that it
\* can be counted, and one process listens at most.
DaemonsType ==
  /\ daemons \in [Owners -> {"absent", "starting", "listening", "deaf"}]
  /\ \A o, p \in Listening : o = p
SharedType == shared \in [mode : Modes, idi : Idis \cup {None}]
ClientsType == clients \subseteq Conns /\ IsFiniteSet(clients)
WorkType == work \in [Threads -> Seq(Tasks)]
LinkType ==
  link \in [Clients -> 0..MaxLinks] /\ dialled \in [Clients -> 0..MaxLinks]
WireType == wire \in [Conns -> Seq(GuiCommands)]
GuiType == gui \in [Guis -> GuiRecords]
LogType == log \in [Guis -> Seq(LogEntries)]

ServerType == SharedType /\ ClientsType /\ WorkType
TypeInv == DaemonsType /\ ServerType /\ LinkType /\ WireType /\ GuiType /\ LogType

LEMMA TypeParts == TypeInv => TypeOK
<1> SUFFICES ASSUME TypeInv PROVE TypeOK
  OBVIOUS
<1>1. Cardinality(Listening) <= 1
  <2>1. CASE Listening = {}
    BY <2>1, FS_EmptySet
  <2>2. CASE Listening # {}
    <3>1. PICK o : Listening = {o}
      BY <2>2 DEF TypeInv, DaemonsType
    <3>2. QED BY <3>1, FS_Singleton
  <2>3. QED BY <2>1, <2>2
<1>2. QED BY <1>1 DEF TypeInv, DaemonsType, ServerType, SharedType, ClientsType, WorkType,
              LinkType, WireType, GuiType, GuiRecords, TypeOK

LEMMA NewGuiType == NewGui \in GuiRecords
BY DEF NewGui, GuiRecords, Modes

LEMMA TypeInit == Init => TypeInv
<1> SUFFICES ASSUME Init PROVE TypeInv
  OBVIOUS
<1>1. clients = {} /\ IsFiniteSet(clients)
  BY FS_EmptySet DEF Init
<1>2. MaxLinks \in Nat
  BY ConsoleAssumption
<1>3. DaemonsType /\ SharedType /\ LinkType
  BY <1>2 DEF Init, DaemonsType, Listening, SharedType, Fresh, Modes, LinkType
<1>4. ClientsType /\ WorkType /\ WireType /\ LogType
  BY <1>1 DEF Init, ClientsType, WorkType, WireType, LogType
<1>5. GuiType
  BY NewGuiType DEF Init, GuiType
<1>6. QED BY <1>3, <1>4, <1>5 DEF TypeInv, ServerType

-----------------------------------------------------------------------------
(* Messages, tasks and sequences.                                             *)

LEMMA MessagesType ==
  /\ \A mode \in Modes : ModeMsg(mode) \in Msgs
  /\ \A idi \in Idis \cup {None} : CardMsg(idi) \in Msgs
  /\ BroadcastStatus \in Tasks
  /\ \A m \in Msgs : Say(m) \in Tasks
BY DEF Msgs, Tasks, ModeMsg, CardMsg, BroadcastStatus, Say

LEMMA StatusType ==
  ASSUME SharedType, NEW cs, IsFiniteSet(cs)
  PROVE  StatusMsg(shared, cs) \in Msgs
<1>1. Cardinality(cs) \in Nat
  BY FS_CardinalityType
<1>2. QED BY <1>1 DEF SharedType, StatusMsg, Msgs

LEMMA ToldType ==
  ASSUME NEW u \in GuiRecords, NEW m \in Msgs
  PROVE  /\ Told(u, m) \in GuiRecords
         /\ Told(u, m).pc = u.pc /\ Told(u, m).connected = u.connected
         /\ Told(u, m).drawn = u.drawn /\ Told(u, m).queue = u.queue
         /\ Told(u, m).clicks = u.clicks
<1>1. CASE m.type = "mode"
  <2>1. Told(u, m) = [u EXCEPT !.mode = m.mode] /\ m.mode \in Modes
    BY <1>1 DEF Told, Msgs
  <2>2. QED BY <2>1 DEF GuiRecords
<1>2. CASE m.type = "card"
  <2>1. Told(u, m) = [u EXCEPT !.idi = m.idi, !.balanceOf = m.idi] /\ m.idi \in Idis \cup {None}
    BY <1>2 DEF Told, Msgs
  <2>2. QED BY <2>1 DEF GuiRecords
<1>3. CASE m.type = "status"
  <2>1. /\ Told(u, m) = [u EXCEPT !.mode = m.mode, !.idi = m.idi, !.clients = m.clients]
        /\ m.mode \in Modes /\ m.idi \in Idis \cup {None} /\ m.clients \in Nat
    BY <1>3 DEF Told, Msgs
  <2>2. QED BY <2>1 DEF GuiRecords
<1>4. QED BY <1>1, <1>2, <1>3 DEF Msgs

LEMMA SnapshotType ==
  ASSUME SharedType, NEW u \in GuiRecords, NEW cs, IsFiniteSet(cs)
  PROVE  /\ Snapshot(u, cs) \in GuiRecords
         /\ Snapshot(u, cs).queue = u.queue /\ Snapshot(u, cs).clicks = u.clicks
         /\ Snapshot(u, cs).drawn = u.drawn
<1> DEFINE first == Told(u, ModeMsg(shared.mode))
           second == Told(first, StatusMsg(shared, cs))
<1>1. /\ ModeMsg(shared.mode) \in Msgs /\ StatusMsg(shared, cs) \in Msgs
      /\ CardMsg(shared.idi) \in Msgs
  BY MessagesType, StatusType DEF SharedType
<1>2. /\ first \in GuiRecords
      /\ first.queue = u.queue /\ first.clicks = u.clicks /\ first.drawn = u.drawn
  BY <1>1, ToldType
<1>3. /\ second \in GuiRecords
      /\ second.queue = u.queue /\ second.clicks = u.clicks /\ second.drawn = u.drawn
  <2> HIDE DEF first
  <2>1. QED BY <1>1, <1>2, ToldType
<1>4. Snapshot(u, cs) = IF shared.idi = None THEN second ELSE Told(second, CardMsg(shared.idi))
  BY DEF Snapshot
<1> HIDE DEF second
<1>5. CASE shared.idi = None
  BY <1>3, <1>4, <1>5
<1>6. CASE shared.idi # None
  <2>1. Snapshot(u, cs) = Told(second, CardMsg(shared.idi))
    BY <1>4, <1>6
  <2>2. /\ Told(second, CardMsg(shared.idi)) \in GuiRecords
        /\ Told(second, CardMsg(shared.idi)).queue = second.queue
        /\ Told(second, CardMsg(shared.idi)).clicks = second.clicks
        /\ Told(second, CardMsg(shared.idi)).drawn = second.drawn
    BY <1>1, <1>3, ToldType
  <2>3. QED BY <1>3, <2>1, <2>2
<1>7. QED BY <1>5, <1>6

LEMMA HeadTail ==
  ASSUME NEW S, NEW s \in Seq(S), s # << >>
  PROVE  Head(s) \in S /\ Tail(s) \in Seq(S)
OBVIOUS

LEMMA WorkChange ==
  ASSUME WorkType, NEW t, NEW told \in Seq(Tasks), work' = [work EXCEPT ![t] = told]
  PROVE  WorkType'
BY DEF WorkType

LEMMA WireChange ==
  ASSUME WireType, NEW k, NEW cmds \in Seq(GuiCommands), wire' = [wire EXCEPT ![k] = cmds]
  PROVE  WireType'
BY DEF WireType

LEMMA GuiChange ==
  ASSUME GuiType, NEW g \in Guis, NEW u \in GuiRecords, Gui(g, u)
  PROVE  GuiType' /\ gui'[g] = u /\ \A h \in Guis : h # g => gui'[h] = gui[h]
BY DEF GuiType, Gui

\* A thread tells everybody the mode it set.
LEMMA TellMode ==
  ASSUME NEW mode \in Modes
  PROVE  << Say(ModeMsg(mode)), BroadcastStatus >> \in Seq(Tasks)
BY MessagesType

-----------------------------------------------------------------------------
(* Every step keeps the types.                                                *)

LEMMA ServeType ==
  ASSUME TypeInv, Serve
  PROVE  TypeInv'
<1> USE DEF TypeInv, ServerType
<1>1. ASSUME NEW t \in Threads, SendAll(t) PROVE TypeInv'
  <2>1. Head(work[t]) \in Tasks /\ Tail(work[t]) \in Seq(Tasks)
    BY <1>1, HeadTail DEF WorkType, SendAll
  <2> DEFINE m == Head(work[t]).msg
  <2>2. m \in Msgs
    BY <1>1, <2>1 DEF SendAll, Tasks
  <2> HIDE DEF m
  <2>3. \A g \in Guis : Told(gui[g], m) \in GuiRecords
    BY <2>2, ToldType DEF GuiType
  <2>4. GuiType'
    BY <1>1, <2>3 DEF SendAll, GuiType, m
  <2>5. WorkType'
    BY <1>1, <2>1, WorkChange DEF SendAll
  <2>6. QED BY <1>1, <2>4, <2>5 DEF SendAll, wires, DaemonsType, Listening, SharedType,
                ClientsType, LinkType, WireType, LogType
<1>2. ASSUME NEW t \in Threads, BuildStatus(t) PROVE TypeInv'
  <2>1. Tail(work[t]) \in Seq(Tasks)
    BY <1>2, HeadTail DEF WorkType, BuildStatus
  <2>2. Say(StatusMsg(shared, clients)) \in Tasks
    BY MessagesType, StatusType DEF ClientsType
  <2>3. << Say(StatusMsg(shared, clients)) >> \o Tail(work[t]) \in Seq(Tasks)
    BY <2>1, <2>2
  <2>4. WorkType'
    BY <1>2, <2>3, WorkChange DEF BuildStatus
  <2>5. QED BY <1>2, <2>4 DEF BuildStatus, wires, history, DaemonsType, Listening, SharedType,
                ClientsType, LinkType, WireType, GuiType, LogType
<1>3. ASSUME NEW k \in Conns, HandleOp(k) PROVE TypeInv'
  <2> DEFINE c == Head(wire[k])
  <2>1. c \in GuiCommands /\ Tail(wire[k]) \in Seq(GuiCommands)
    BY <1>3, HeadTail DEF WireType, HandleOp, Op
  <2>2. c.mode \in Modes /\ c.number \in Nat
    BY <2>1 DEF GuiCommands
  <2>3. k[2] \in 1..MaxLinks
    BY DEF Conns
  <2>4. SharedType' /\ WorkType'
    BY <1>3, <2>2, TellMode, WorkChange DEF HandleOp, Op, SetMode, SharedType
  <2>5. WireType'
    BY <1>3, <2>1, WireChange DEF HandleOp, Op
  <2>6. LogType'
    <3> DEFINE e == [number |-> c.number, conn |-> k[2]]
    <3>1. log' = [log EXCEPT ![k[1]] = Append(@, e)] /\ e \in LogEntries
      BY <1>3, <2>2, <2>3 DEF HandleOp, Op, LogEntries
    <3> HIDE DEF e
    <3>2. \A g \in Guis : log'[g] = log[g] \/ log'[g] = Append(log[g], e)
      BY <3>1 DEF LogType
    <3>3. \A g \in Guis : log[g] \in Seq(LogEntries)
      BY DEF LogType
    <3>4. \A g \in Guis : log'[g] \in Seq(LogEntries)
      BY <3>1, <3>2, <3>3
    <3>5. log' = [g \in Guis |-> log'[g]]
      BY <3>1 DEF LogType
    <3>6. QED BY <3>4, <3>5 DEF LogType
  <2>7. QED BY <1>3, <2>4, <2>5, <2>6 DEF HandleOp, Op, DaemonsType, Listening, ClientsType,
                LinkType, GuiType
<1>4. ASSUME NEW k \in Conns, ConnectionEnds(k) PROVE TypeInv'
  <2>1. WorkType' /\ WireType'
    <3>1. << BroadcastStatus >> \in Seq(Tasks) /\ << >> \in Seq(GuiCommands)
      BY MessagesType
    <3>2. QED BY <1>4, <3>1, WorkChange, WireChange DEF ConnectionEnds
  <2>2. ClientsType'
    BY <1>4, FS_RemoveElement DEF ConnectionEnds, ClientsType
  <2>3. QED BY <1>4, <2>1, <2>2 DEF ConnectionEnds, history, DaemonsType, Listening, SharedType,
                LinkType, GuiType, LogType
<1>5. QED BY <1>1, <1>2, <1>3, <1>4 DEF Serve

LEMMA RegisterType ==
  ASSUME TypeInv, NEW c \in Clients, Register(c)
  PROVE  /\ DaemonsType' /\ SharedType' /\ ClientsType' /\ WorkType'
         /\ LinkType' /\ WireType' /\ LogType'
<1> USE DEF TypeInv, ServerType
<1> DEFINE n == dialled[c] + 1
<1>1. n \in 1..MaxLinks /\ <<c, n>> \in Conns
  BY ConsoleAssumption DEF Register, LinkType, Conns
<1>2. LinkType'
  BY <1>1 DEF Register, LinkType
<1>3. ClientsType'
  <2>1. clients' = clients \cup {<<c, n>>}
    BY DEF Register
  <2> HIDE DEF n
  <2>2. QED BY <1>1, <2>1, FS_AddElement DEF ClientsType
<1>4. WorkType'
  <2>1. << BroadcastStatus >> \in Seq(Tasks)
    BY MessagesType
  <2>2. QED BY <2>1, WorkChange DEF Register
<1>5. QED BY <1>2, <1>3, <1>4 DEF Register, DaemonsType, Listening, SharedType, WireType, LogType

\* A link breaks: its commands are read yet, or lost.
LEMMA UnlinkType ==
  ASSUME LinkType, WireType, NEW c, Unlink(c)
  PROVE  LinkType' /\ WireType'
<1>1. LinkType'
  <2>1. 0 \in 0..MaxLinks
    BY ConsoleAssumption
  <2>2. QED BY <2>1 DEF Unlink, LinkType
<1>2. << >> \in Seq(GuiCommands)
  OBVIOUS
<1>3. WireType'
  BY <1>2 DEF Unlink, WireType
<1>4. QED BY <1>1, <1>3

LEMMA OutsideType ==
  ASSUME TypeInv, Outside
  PROVE  TypeInv'
<1> USE DEF TypeInv, ServerType
<1>1. ASSUME NEW mode \in Modes, Command(mode) PROVE TypeInv'
  <2>1. SharedType' /\ WorkType'
    BY <1>1, TellMode, WorkChange DEF Command, SetMode, SharedType
  <2>2. QED BY <1>1, <2>1 DEF Command, wires, history, DaemonsType, Listening, ClientsType,
                LinkType, WireType, GuiType, LogType
<1>2. ASSUME NEW c \in Idis \cup {None}, MoveCard(c) PROVE TypeInv'
  <2>1. << Say(CardMsg(c)) >> \in Seq(Tasks)
    BY MessagesType
  <2>2. SharedType' /\ WorkType'
    BY <1>2, <2>1, WorkChange DEF MoveCard, SharedType
  <2>3. QED BY <1>2, <2>2 DEF MoveCard, wires, history, DaemonsType, Listening, ClientsType,
                LinkType, WireType, GuiType, LogType
<1>3. ASSUME NEW c \in Clients, TerminalConnects(c) PROVE TypeInv'
  <2>1. GuiType'
    BY <1>3 DEF TerminalConnects, GuiType
  <2>2. QED BY <1>3, <2>1, RegisterType DEF TerminalConnects
<1>4. ASSUME NEW c \in Clients, Break(c) PROVE TypeInv'
  <2>1. LinkType' /\ WireType'
    BY <1>4, UnlinkType DEF Break
  <2>2. QED BY <1>4, <2>1 DEF Break, server, history, DaemonsType, Listening, SharedType,
                ClientsType, WorkType, GuiType, LogType
<1>5. QED BY <1>1, <1>2, <1>3, <1>4 DEF Outside

\* A step of a GUI that touches no more than the GUI and its wire.
LEMMA GuiOnly ==
  ASSUME TypeInv, UNCHANGED <<daemons, server, link, dialled, log>>, WireType', GuiType'
  PROVE  TypeInv'
BY DEF TypeInv, ServerType, server, DaemonsType, Listening, SharedType, ClientsType, WorkType,
   LinkType, LogType

LEMMA WsThreadType ==
  ASSUME TypeInv, NEW g \in Guis, WsThread(g)
  PROVE  TypeInv'
<1> USE DEF TypeInv, ServerType
<1>0. gui[g] \in GuiRecords /\ g \in Clients
  BY DEF GuiType, Clients
<1>1. CASE Connect(g)
  <2>1. /\ SharedType /\ IsFiniteSet(clients')
        /\ DaemonsType' /\ SharedType' /\ ClientsType' /\ WorkType'
        /\ LinkType' /\ WireType' /\ LogType'
    BY <1>0, <1>1, RegisterType DEF Connect, ClientsType
  <2> DEFINE u == [Snapshot(gui[g], clients') EXCEPT !.pc = "up", !.connected = TRUE]
  <2>2. u \in GuiRecords
    <3>1. Snapshot(gui[g], clients') \in GuiRecords
      BY <1>0, <2>1, SnapshotType
    <3>2. QED BY <3>1 DEF GuiRecords
  <2>3. Gui(g, u)
    BY <1>1 DEF Connect
  <2> HIDE DEF u
  <2>4. GuiType'
    BY <2>2, <2>3, GuiChange
  <2>5. QED BY <2>1, <2>4
<1>2. CASE Flush(g)
  <2>1. /\ Head(gui[g].queue) \in GuiCommands /\ Tail(gui[g].queue) \in Seq(GuiCommands)
    BY <1>0, <1>2, HeadTail DEF Flush, Transmit, GuiRecords
  <2>2. [gui[g] EXCEPT !.queue = Tail(gui[g].queue)] \in GuiRecords
    BY <1>0, <2>1 DEF GuiRecords
  <2>3. GuiType'
    BY <1>2, <2>2, GuiChange DEF Flush, Transmit
  <2>4. WireType'
    <3>1. \A k \in Conns : wire[k] \in Seq(GuiCommands)
      BY DEF WireType
    <3>2. \A k \in Conns : Append(wire[k], Head(gui[g].queue)) \in Seq(GuiCommands)
      BY <2>1, <3>1
    <3>3. \/ wire' = wire
          \/ wire' = [wire EXCEPT ![<<g, link[g]>>] = Append(@, Head(gui[g].queue))]
      BY <1>2 DEF Flush, Transmit
    <3>4. QED BY <3>2, <3>3 DEF WireType
  <2>5. QED BY <1>2, <2>3, <2>4, GuiOnly DEF Flush, Transmit, history
<1>3. CASE ConnectFails(g) \/ Notice(g) \/ Discard(g)
  <2>1. /\ [gui[g] EXCEPT !.queue = << >>] \in GuiRecords
        /\ [gui[g] EXCEPT !.pc = "down", !.connected = FALSE] \in GuiRecords
        /\ [gui[g] EXCEPT !.pc = "connect", !.queue = << >>] \in GuiRecords
    <3>1. << >> \in Seq(GuiCommands)
      OBVIOUS
    <3>2. QED BY <1>0, <3>1 DEF GuiRecords
  <2>2. GuiType'
    BY <1>3, <2>1, GuiChange DEF ConnectFails, Notice, Discard
  <2>3. UNCHANGED <<daemons, server, link, dialled, log, wire>>
    BY <1>3 DEF ConnectFails, Notice, Discard, wires, history
  <2>4. QED BY <2>2, <2>3, GuiOnly DEF WireType
<1>4. QED BY <1>1, <1>2, <1>3 DEF WsThread

LEMMA WindowType ==
  ASSUME TypeInv, NEW g \in Guis, Window(g)
  PROVE  TypeInv'
<1> USE DEF TypeInv, ServerType
<1>0. gui[g] \in GuiRecords
  BY DEF GuiType
<1>1. UNCHANGED <<daemons, server, link, dialled, log, wire>>
  BY DEF Window, Draw, Click, wires, history
<1>2. GuiType'
  <2>1. CASE Draw(g)
    <3>1. [gui[g] EXCEPT !.drawn = gui[g].connected] \in GuiRecords
      BY <1>0 DEF GuiRecords
    <3>2. QED BY <2>1, <3>1, GuiChange DEF Draw
  <2>2. ASSUME NEW mode \in Modes, Click(g, mode) PROVE GuiType'
    <3> DEFINE n == gui[g].clicks + 1
               c == [mode |-> mode, number |-> n]
    <3>1. n \in Nat /\ c \in GuiCommands /\ gui[g].queue \in Seq(GuiCommands)
      BY <1>0 DEF GuiRecords, GuiCommands
    <3>2. Gui(g, [gui[g] EXCEPT !.clicks = n, !.queue = Append(gui[g].queue, c)])
      BY <2>2 DEF Click
    <3> HIDE DEF n, c
    <3>3. Append(gui[g].queue, c) \in Seq(GuiCommands)
      BY <3>1
    <3>4. [gui[g] EXCEPT !.clicks = n, !.queue = Append(gui[g].queue, c)] \in GuiRecords
      BY <1>0, <3>1, <3>3 DEF GuiRecords
    <3>5. QED BY <3>2, <3>4, GuiChange
  <2>3. QED BY <2>1, <2>2 DEF Window
<1>3. QED BY <1>1, <1>2, GuiOnly DEF WireType

\* What the end of a daemon leaves.
LEMMA DieType ==
  ASSUME TypeInv, NEW o \in Owners, NEW c, Die(o, UNCHANGED wires) \/ Die(o, Unlink(c))
  PROVE  DaemonsType' /\ ServerType' /\ LinkType' /\ WireType'
<1> USE DEF TypeInv, ServerType
<1>1. DaemonsType'
  BY DEF Die, DaemonsType, Listening
<1>2. CASE o \in Listening
  <2>1. clients' = {} /\ IsFiniteSet(clients')
    BY <1>2, FS_EmptySet DEF Die
  <2>2. SharedType' /\ ClientsType'
    BY <1>2, <2>1 DEF Die, SharedType, Fresh, Modes, ClientsType
  <2>3. WorkType' /\ LinkType' /\ WireType'
    <3>1. << >> \in Seq(Tasks) /\ << >> \in Seq(GuiCommands) /\ 0 \in 0..MaxLinks
      BY ConsoleAssumption
    <3>2. /\ work' = [t \in Threads |-> << >>] /\ wire' = [k \in Conns |-> << >>]
          /\ link' = [x \in Clients |-> 0] /\ dialled' = dialled
      BY <1>2 DEF Die
    <3>3. QED BY <3>1, <3>2 DEF WorkType, LinkType, WireType
  <2>4. QED BY <1>1, <2>2, <2>3
<1>3. CASE o \notin Listening
  <2>1. UNCHANGED server /\ (UNCHANGED wires \/ Unlink(c))
    BY <1>3 DEF Die
  <2>2. LinkType' /\ WireType'
    BY <2>1, UnlinkType DEF wires, LinkType, WireType
  <2>3. QED BY <1>1, <2>1, <2>2 DEF server, SharedType, WorkType, ClientsType
<1>4. QED BY <1>2, <1>3

LEMMA ProcessesType ==
  ASSUME TypeInv, Processes
  PROVE  TypeInv'
<1> USE DEF TypeInv, ServerType
<1>1. ASSUME NEW g \in Guis, StartGui(g) PROVE TypeInv'
  <2>1. PICK pc \in {"spawn", "connect"} : Gui(g, [gui[g] EXCEPT !.pc = pc])
    BY <1>1 DEF StartGui, Begin
  <2>2. [gui[g] EXCEPT !.pc = pc] \in GuiRecords
    BY DEF GuiType, GuiRecords
  <2>3. GuiType'
    BY <2>1, <2>2, GuiChange
  <2>4. QED BY <1>1, <2>3, GuiOnly DEF StartGui, Begin, wires, WireType
<1>2. ASSUME NEW g \in Guis, Spawn(g) PROVE TypeInv'
  <2>1. [gui[g] EXCEPT !.pc = "connect"] \in GuiRecords
    BY DEF GuiType, GuiRecords
  <2>2. GuiType'
    BY <1>2, <2>1, GuiChange DEF Spawn
  <2>3. DaemonsType'
    BY <1>2 DEF Spawn, DaemonsType, Listening
  <2>4. QED BY <1>2, <2>2, <2>3 DEF Spawn, server, wires, history, SharedType, ClientsType,
                WorkType, LinkType, WireType, LogType
<1>3. ASSUME NEW g \in Guis, GuiEnds(g) PROVE TypeInv'
  <2>1. gui[g].clicks \in Nat
    BY DEF GuiType, GuiRecords
  <2>2. [NewGui EXCEPT !.pc = "closed", !.clicks = gui[g].clicks] \in GuiRecords
    BY <2>1, NewGuiType DEF GuiRecords
  <2>3. GuiType'
    BY <1>3, <2>2, GuiChange DEF GuiEnds
  <2>4. g \in Owners
    BY DEF Owners
  <2>5. QED BY <1>3, <2>3, <2>4, DieType DEF GuiEnds, history, LogType
<1>4. ASSUME NEW o \in Owners, Bind(o) PROVE TypeInv'
  <2>1. DaemonsType'
    BY <1>4 DEF Bind, BindAs, DaemonsType, Listening
  <2>2. QED BY <1>4, <2>1 DEF Bind, BindAs, server, wires, history, SharedType, ClientsType,
                WorkType, LinkType, WireType, GuiType, LogType
<1>5. CASE StartExternal
  <2>1. DaemonsType'
    BY <1>5 DEF StartExternal, DaemonsType, Listening
  <2>2. QED BY <1>5, <2>1 DEF StartExternal, server, wires, SharedType, ClientsType,
                WorkType, LinkType, WireType, GuiType, LogType
<1>6. CASE ExternalEnds
  <2>1. External \in Owners
    BY DEF Owners
  <2>2. QED BY <1>6, <2>1, DieType DEF ExternalEnds, history, GuiType, LogType
<1>7. QED BY <1>1, <1>2, <1>3, <1>4, <1>5, <1>6 DEF Processes

LEMMA TypeStep == TypeInv /\ [Next]_vars => TypeInv'
<1> SUFFICES ASSUME TypeInv, [Next]_vars PROVE TypeInv'
  OBVIOUS
<1>1. CASE UNCHANGED vars
  BY <1>1 DEF vars, server, wires, history, TypeInv, ServerType, DaemonsType, Listening,
     SharedType, ClientsType, WorkType, LinkType, WireType, GuiType, LogType
<1>2. QED BY <1>1, ServeType, OutsideType, WsThreadType, WindowType, ProcessesType DEF Next

LEMMA TypeInvariant == Spec => []TypeInv
BY TypeInit, TypeStep, PTL DEF Spec

\* The daemons, the connections and the GUIs keep their shape, and one daemon
\* listens at most.
THEOREM TypeCorrect == Spec => []TypeOK
BY TypeParts, TypeInvariant, PTL

-----------------------------------------------------------------------------
(* One daemon.                                                                *)

\* Whose daemon runs, or is about to.
Active == {o \in Owners : daemons[o] # "absent" \/ (o \in Guis /\ gui[o].pc = "spawn")}

ActiveGuis == {g \in Guis : daemons[g] # "absent" \/ gui[g].pc = "spawn"}

\* Of the GUIs' daemons there is one, and while it is being started nothing
\* listens and nothing else is being started.
GuisInv ==
  /\ \A g, h \in ActiveGuis : g = h
  /\ \A g \in Guis : daemons[g] # "deaf"
  /\ \A o, p \in Starting : o = p
  /\ \A g \in Guis \cap Starting : daemons[External] # "listening"

AllInv == (\A o, p \in Active : o = p) /\ \A o \in Owners : daemons[o] # "deaf"

OneInv == raced \/ (GuisInv /\ (beside \/ AllInv))

LEMMA OneInit == Init => OneInv
<1> SUFFICES ASSUME Init PROVE OneInv
  OBVIOUS
<1>1. /\ \A o \in Owners : daemons[o] = "absent"
      /\ \A g \in Guis : gui[g].pc = "off"
      /\ Guis \subseteq Owners
  BY DEF Init, NewGui, Owners
<1>2. Active = {} /\ ActiveGuis = {} /\ Starting = {}
  BY <1>1 DEF Active, ActiveGuis, Starting
<1>3. GuisInv /\ AllInv
  BY <1>1, <1>2 DEF GuisInv, AllInv
<1>4. QED BY <1>3 DEF OneInv

\* A step that starts no daemon and lets no GUI start one.
LEMMA OneFrame ==
  ASSUME TypeInv, OneInv, raced => raced', beside' = beside,
         \A o \in Owners : daemons'[o] \in {daemons[o], "absent"},
         \A g \in Guis : gui'[g].pc = "spawn" => gui[g].pc = "spawn"
  PROVE  OneInv'
<1> SUFFICES ASSUME ~raced, ~raced' PROVE (GuisInv /\ (beside \/ AllInv))'
  BY DEF OneInv
<1>1. GuisInv /\ (beside \/ AllInv)
  BY DEF OneInv
<1>2. /\ Guis \subseteq Owners /\ External \in Owners
      /\ Active' \subseteq Active /\ ActiveGuis' \subseteq ActiveGuis
      /\ Starting' \subseteq Starting
  BY DEF Owners, Active, ActiveGuis, Starting
<1>3. GuisInv'
  BY <1>1, <1>2 DEF GuisInv
<1>4. AllInv => AllInv'
  BY <1>2 DEF AllInv
<1>5. QED BY <1>1, <1>3, <1>4

\* With nobody listening and nobody starting one, no GUI has one, and if none
\* was started beside another there is none at all.
LEMMA NoneActive ==
  ASSUME TypeInv, OneInv, ~raced, Listening = {}, Starting = {}
  PROVE  ActiveGuis = {} /\ (AllInv => Active = {})
<1>1. \A o \in Owners : daemons[o] \in {"absent", "deaf"}
  BY DEF TypeInv, DaemonsType, Listening, Starting
<1>2. \A g \in Guis : gui[g].pc # "spawn" /\ g \in Owners
  BY DEF Starting, Owners
<1>3. ActiveGuis = {}
  BY <1>1, <1>2 DEF OneInv, GuisInv, ActiveGuis
<1>4. AllInv => Active = {}
  BY <1>1, <1>2 DEF AllInv, Active
<1>5. QED BY <1>3, <1>4

LEMMA OneStep == TypeInv /\ OneInv /\ [Next]_vars => OneInv'
<1> SUFFICES ASSUME TypeInv, OneInv, [Next]_vars PROVE OneInv'
  OBVIOUS
<1>0. /\ GuiType /\ daemons \in [Owners -> {"absent", "starting", "listening", "deaf"}]
      /\ Guis \subseteq Owners /\ External \in Owners /\ External \notin Guis
      /\ \A o \in Owners : o \in Guis \/ o = External
  BY ConsoleAssumption DEF TypeInv, DaemonsType, Owners
<1>1. ASSUME NEW g \in Guis, StartGui(g) PROVE OneInv'
  <2>1. PICK pc \in {"spawn", "connect"} :
          /\ Gui(g, [gui[g] EXCEPT !.pc = pc])
          /\ pc = "spawn" => Listening = {}
    BY <1>1 DEF StartGui, Begin
  <2>2. /\ gui'[g].pc = pc /\ \A h \in Guis : h # g => gui'[h] = gui[h]
        /\ raced' = (raced \/ (Listening = {} /\ Starting # {}))
        /\ UNCHANGED <<daemons, beside>>
    BY <1>0, <1>1, <2>1 DEF StartGui, Begin, Gui, GuiType, GuiRecords
  <2>3. CASE raced'
    BY <2>3 DEF OneInv
  <2>4. CASE pc = "connect" /\ ~raced'
    <3>1. (raced => raced') /\ \A h \in Guis : gui'[h].pc = "spawn" => gui[h].pc = "spawn"
      BY <2>2, <2>4
    <3>2. QED BY <2>2, <3>1, OneFrame
  <2>5. CASE pc = "spawn" /\ ~raced'
    <3>1. Listening = {} /\ Starting = {} /\ ~raced
      BY <2>1, <2>2, <2>5
    <3>2. ActiveGuis = {} /\ (AllInv => Active = {})
      BY <3>1, NoneActive
    <3>3. ActiveGuis' \subseteq {g} /\ Starting' \subseteq {g}
      BY <2>2, <3>1, <3>2 DEF ActiveGuis, Starting
    <3>4. daemons'[External] # "listening"
      BY <1>0, <2>2, <3>1 DEF Listening
    <3>5. GuisInv'
      BY <2>2, <3>1, <3>3, <3>4 DEF OneInv, GuisInv
    <3>6. AllInv => AllInv'
      <4>1. ASSUME AllInv PROVE Active' \subseteq {g}
        BY <2>2, <3>2, <4>1 DEF Active
      <4>2. QED BY <2>2, <4>1 DEF AllInv
    <3>7. QED BY <2>2, <3>1, <3>5, <3>6 DEF OneInv
  <2>6. QED BY <2>3, <2>4, <2>5
<1>2. ASSUME NEW g \in Guis, Spawn(g) PROVE OneInv'
  <2>1. /\ daemons' = [daemons EXCEPT ![g] = "starting"] /\ UNCHANGED <<raced, beside>>
        /\ gui[g].pc = "spawn" /\ \A h \in Guis : h # g => gui'[h] = gui[h]
    BY <1>0, <1>2 DEF Spawn, history, Gui, GuiType
  <2>2. /\ Active' \subseteq Active /\ ActiveGuis' \subseteq ActiveGuis
        /\ Starting' \subseteq Starting /\ daemons'[External] = daemons[External]
    BY <1>0, <2>1 DEF Active, ActiveGuis, Starting
  <2>3. GuisInv => GuisInv'
    BY <1>0, <2>1, <2>2 DEF GuisInv
  <2>4. AllInv => AllInv'
    BY <1>0, <2>1, <2>2 DEF AllInv
  <2>5. QED BY <2>1, <2>3, <2>4 DEF OneInv
<1>3. ASSUME NEW g \in Guis, GuiEnds(g) PROVE OneInv'
  <2>1. [NewGui EXCEPT !.pc = "closed", !.clicks = gui[g].clicks].pc = "closed"
    BY DEF NewGui
  <2>2. \A h \in Guis : gui'[h].pc = "spawn" => gui[h].pc = "spawn"
    BY <1>0, <1>3, <2>1 DEF GuiEnds, Gui, GuiType
  <2>3. /\ UNCHANGED <<raced, beside>>
        /\ \A o \in Owners : daemons'[o] \in {daemons[o], "absent"}
    BY <1>0, <1>3 DEF GuiEnds, Die, history
  <2>4. QED BY <2>2, <2>3, OneFrame
<1>4. ASSUME NEW o \in Owners, Bind(o) PROVE OneInv'
  <2>1. /\ daemons[o] = "starting" /\ UNCHANGED <<gui, raced, beside>>
        /\ daemons' = [daemons EXCEPT ![o] = IF Listening = {} THEN "listening" ELSE "deaf"]
    BY <1>4 DEF Bind, BindAs, history
  <2>2. CASE raced
    BY <2>1, <2>2 DEF OneInv
  <2>3. CASE ~raced
    <3>1. GuisInv /\ (beside \/ AllInv)
      BY <2>3 DEF OneInv
    <3>2. /\ Active' \subseteq Active /\ ActiveGuis' \subseteq ActiveGuis
          /\ Starting' \subseteq Starting /\ o \in Starting /\ o \notin Starting' \ Guis
      BY <1>0, <2>1 DEF Active, ActiveGuis, Starting
    <3>3. Starting = {o}
      BY <3>1, <3>2 DEF GuisInv
    <3>4. ASSUME o \in Guis PROVE Listening = {}
      <4>1. daemons[External] # "listening"
        BY <3>1, <3>2, <3>4 DEF GuisInv
      <4>2. \A h \in Guis : daemons[h] # "listening"
        <5>1. o \in ActiveGuis
          BY <2>1, <3>4 DEF ActiveGuis
        <5>2. \A h \in Guis : daemons[h] = "listening" => h \in ActiveGuis
          BY DEF ActiveGuis
        <5>3. QED BY <2>1, <3>1, <5>1, <5>2 DEF GuisInv
      <4>3. QED BY <1>0, <4>1, <4>2 DEF Listening
    <3>5. GuisInv'
      <4>1. \A g \in Guis : daemons'[g] # "deaf"
        BY <1>0, <2>1, <3>1, <3>4 DEF GuisInv
      <4>2. \A g \in Guis \cap Starting' : daemons'[External] # "listening"
        BY <1>0, <2>1, <3>1, <3>2, <3>3 DEF GuisInv
      <4>3. QED BY <3>1, <3>2, <4>1, <4>2 DEF GuisInv
    <3>6. ASSUME AllInv PROVE AllInv'
      <4>1. Listening = {}
        BY <1>0, <2>1, <3>6 DEF AllInv, Active, Listening
      <4>2. \A p \in Owners : daemons'[p] # "deaf"
        BY <1>0, <2>1, <3>6, <4>1 DEF AllInv
      <4>3. QED BY <3>2, <3>6, <4>2 DEF AllInv
    <3>7. QED BY <2>1, <2>3, <3>1, <3>5, <3>6 DEF OneInv
  <2>4. QED BY <2>2, <2>3
<1>5. CASE StartExternal
  <2>1. /\ daemons[External] = "absent" /\ daemons' = [daemons EXCEPT ![External] = "starting"]
        /\ gui' = gui /\ raced' = (raced \/ Starting # {})
        /\ beside' = (beside \/ Running(Owners) # {})
    BY <1>5 DEF StartExternal
  <2>2. CASE raced'
    BY <2>2 DEF OneInv
  <2>3. CASE ~raced'
    <3>1. ~raced /\ Starting = {} /\ GuisInv
      BY <2>1, <2>3 DEF OneInv
    <3>2. /\ \A g \in Guis : daemons'[g] = daemons[g]
          /\ ActiveGuis' = ActiveGuis /\ Starting' \subseteq {External}
      BY <1>0, <2>1, <3>1 DEF ActiveGuis, Starting
    <3>3. GuisInv'
      BY <1>0, <3>1, <3>2 DEF GuisInv
    <3>4. ASSUME ~beside' PROVE AllInv'
      <4>1. \A o \in Owners : daemons[o] = "absent"
        BY <2>1, <3>4 DEF Running
      <4>2. \A g \in Guis : gui[g].pc # "spawn"
        BY <3>1 DEF Starting
      <4>3. Active' \subseteq {External}
        BY <1>0, <2>1, <4>1, <4>2 DEF Active
      <4>4. \A o \in Owners : daemons'[o] # "deaf"
        BY <1>0, <2>1, <4>1
      <4>5. QED BY <4>3, <4>4 DEF AllInv
    <3>5. QED BY <3>3, <3>4 DEF OneInv
  <2>4. QED BY <2>2, <2>3
<1>6. CASE ExternalEnds
  <2>1. /\ UNCHANGED <<raced, beside, gui>>
        /\ \A o \in Owners : daemons'[o] \in {daemons[o], "absent"}
    BY <1>0, <1>6 DEF ExternalEnds, Die, history
  <2>2. QED BY <2>1, OneFrame
<1>7. ASSUME NEW g \in Guis, WsThread(g) PROVE OneInv'
  <2>1. UNCHANGED <<raced, beside, daemons>>
    BY <1>7 DEF WsThread, Connect, Register, ConnectFails, Flush, Transmit, Notice, Discard,
       history
  <2>2. \A h \in Guis : h # g => gui'[h] = gui[h]
    BY <1>0, <1>7 DEF WsThread, Connect, ConnectFails, Flush, Transmit, Notice, Discard, Gui,
       GuiType
  <2>3. gui'[g].pc # "spawn"
    <3>1. CASE Connect(g)
      <4>1. IsFiniteSet(clients') /\ SharedType
        BY <3>1, RegisterType DEF Connect, ClientsType, Clients, TypeInv, ServerType
      <4>2. Snapshot(gui[g], clients') \in GuiRecords
        BY <1>0, <4>1, SnapshotType DEF GuiType
      <4>3. [Snapshot(gui[g], clients') EXCEPT !.pc = "up", !.connected = TRUE].pc = "up"
        BY <4>2 DEF GuiRecords
      <4>4. QED BY <1>0, <3>1, <4>3 DEF Connect, Gui, GuiType
    <3>2. CASE ConnectFails(g) \/ Flush(g) \/ Notice(g) \/ Discard(g)
      <4>1. gui[g] \in GuiRecords
        BY <1>0 DEF GuiType
      <4>2. /\ gui[g].pc \in {"connect", "up", "down"}
            /\ \/ \E q : gui'[g] = [gui[g] EXCEPT !.queue = q]
               \/ gui'[g] = [gui[g] EXCEPT !.pc = "down", !.connected = FALSE]
               \/ gui'[g] = [gui[g] EXCEPT !.pc = "connect", !.queue = << >>]
        <5>1. CASE ConnectFails(g)
          BY <1>0, <5>1 DEF ConnectFails, Gui, GuiType
        <5>2. CASE Flush(g)
          BY <1>0, <5>2 DEF Flush, Transmit, Gui, GuiType
        <5>3. CASE Notice(g) \/ Discard(g)
          BY <1>0, <5>3 DEF Notice, Discard, Gui, GuiType
        <5>4. QED BY <3>2, <5>1, <5>2, <5>3
      <4>3. QED BY <4>1, <4>2 DEF GuiRecords
    <3>3. QED BY <1>7, <3>1, <3>2 DEF WsThread
  <2>4. QED BY <2>1, <2>2, <2>3, OneFrame
<1>8. ASSUME NEW g \in Guis, Window(g) PROVE OneInv'
  <2>1. UNCHANGED <<raced, beside, daemons>>
    BY <1>8 DEF Window, Draw, Click, history
  <2>2. \A h \in Guis : gui'[h].pc = gui[h].pc
    <3>1. gui[g] \in GuiRecords
      BY <1>0 DEF GuiType
    <3>2. PICK u : Gui(g, u) /\ u.pc = gui[g].pc
      <4>1. CASE Draw(g)
        BY <3>1, <4>1 DEF Draw, GuiRecords
      <4>2. ASSUME NEW mode \in Modes, Click(g, mode) PROVE \E u : Gui(g, u) /\ u.pc = gui[g].pc
        <5> DEFINE n == gui[g].clicks + 1
                   u == [gui[g] EXCEPT !.clicks = n,
                                       !.queue = Append(@, [mode |-> mode, number |-> n])]
        <5>1. Gui(g, u)
          BY <4>2 DEF Click
        <5>2. u.pc = gui[g].pc
          BY <3>1 DEF GuiRecords
        <5>3. QED BY <5>1, <5>2
      <4>3. QED BY <1>8, <4>1, <4>2 DEF Window
    <3>3. QED BY <1>0, <3>2 DEF Gui, GuiType
  <2>3. QED BY <2>1, <2>2, OneFrame
<1>9. CASE Serve
  <2>1. UNCHANGED <<raced, beside, daemons>>
    BY <1>9 DEF Serve, SendAll, BuildStatus, HandleOp, Op, ConnectionEnds, history
  <2>2. \A h \in Guis : gui'[h].pc = gui[h].pc
    <3>1. ASSUME NEW t \in Threads, SendAll(t) PROVE \A h \in Guis : gui'[h].pc = gui[h].pc
      <4>1. Head(work[t]) \in Tasks /\ Head(work[t]).do = "send"
        BY <3>1, HeadTail DEF TypeInv, ServerType, WorkType, SendAll
      <4>2. Head(work[t]).msg \in Msgs
        BY <4>1 DEF Tasks
      <4>3. \A h \in Guis : Told(gui[h], Head(work[t]).msg).pc = gui[h].pc
        BY <1>0, <4>2, ToldType DEF GuiType
      <4>4. QED BY <3>1, <4>3 DEF SendAll
    <3>2. QED BY <1>9, <3>1 DEF Serve, BuildStatus, HandleOp, Op, ConnectionEnds
  <2>3. QED BY <2>1, <2>2, OneFrame
<1>10. CASE Outside \/ UNCHANGED vars
  <2>1. UNCHANGED <<raced, beside, daemons, gui>>
    BY <1>10 DEF Outside, Command, MoveCard, TerminalConnects, Register, Break, history, vars
  <2>2. QED BY <2>1, OneFrame
<1>11. QED
  BY <1>1, <1>2, <1>3, <1>4, <1>5, <1>6, <1>7, <1>8, <1>9, <1>10 DEF Next, Processes

LEMMA AtMostOne ==
  ASSUME NEW S, \A a, b \in S : a = b
  PROVE  Cardinality(S) <= 1
<1>1. CASE S = {}
  BY <1>1, FS_EmptySet
<1>2. CASE S # {}
  <2>1. PICK a : S = {a}
    BY <1>2
  <2>2. QED BY <2>1, FS_Singleton
<1>3. QED BY <1>1, <1>2

\* Of the GUIs' daemons one runs at most, and it has the port, unless two were
\* being started at the same time; and there is one facepay process on the host
\* at most, unless there was such a race or one was started by hand beside
\* another: for any number of GUIs, and whatever ends in between.
THEOREM OneDaemonUnlessRacedCorrect == Spec => []OneDaemonUnlessRaced
<1>1. OneInv => OneDaemonUnlessRaced
  <2> SUFFICES ASSUME GuisInv, beside \/ AllInv
               PROVE  /\ Cardinality(Running(Guis)) <= 1 /\ \A g \in Guis : daemons[g] # "deaf"
                      /\ Cardinality(Running(Owners)) <= 1 \/ beside
    BY DEF OneInv, OneDaemonUnlessRaced
  <2>1. \A g, h \in Running(Guis) : g = h
    BY DEF Running, GuisInv, ActiveGuis
  <2>2. AllInv => \A o, p \in Running(Owners) : o = p
    BY DEF Running, AllInv, Active
  <2>3. QED BY <2>1, <2>2, AtMostOne DEF GuisInv
<1>2. QED BY <1>1, OneInit, OneStep, TypeInvariant, PTL DEF Spec

-----------------------------------------------------------------------------
(* What becomes of clicks. A GUI's commands are told apart by their numbers:  *)
(* those carried out over each connection, those on each wire, those queued.  *)

Numbers(q) == {q[i].number : i \in DOMAIN q}
Increasing(q) == \A i, j \in DOMAIN q : i < j => q[i].number < q[j].number
Before(S, T) == \A a \in S, b \in T : a < b

Over(done, n) == {done[i].number : i \in {k \in DOMAIN done : done[k].conn = n}}

Carried(g) == [n \in 1..MaxLinks |-> Over(log[g], n)]
OnWire(g) == [n \in 1..MaxLinks |-> Numbers(wire[<<g, n>>])]
Queued(g) == Numbers(gui[g].queue)

\* Commands in the order of their clicks: by connection, and over a connection
\* those carried out before those on its wire; what is queued comes last.
Ordered(C, W, Q, clicks, conns) ==
  /\ \A n \in 1..MaxLinks :
       /\ C[n] \cup W[n] \subseteq Nat
       /\ Before(C[n], W[n])
       /\ Before(C[n] \cup W[n], Q)
       /\ \A a \in C[n] \cup W[n] : a <= clicks
       /\ n > conns => C[n] \cup W[n] = {}
  /\ \A n, m \in 1..MaxLinks : n < m => Before(C[n] \cup W[n], C[m] \cup W[m])
  /\ Q \subseteq Nat /\ \A a \in Q : a <= clicks

\* On its first connection nothing of what was clicked is missing.
Whole(done, sent, queued, clicks) ==
  /\ Len(done) + Len(sent) + Len(queued) = clicks
  /\ \A i \in DOMAIN done : done[i].number = i
  /\ \A i \in DOMAIN sent : sent[i].number = Len(done) + i
  /\ \A i \in DOMAIN queued : queued[i].number = Len(done) + Len(sent) + i

OrderInv(g) ==
  /\ Ordered(Carried(g), OnWire(g), Queued(g), gui[g].clicks, dialled[g])
  /\ Increasing(gui[g].queue)
  /\ \A n \in 1..MaxLinks : Increasing(wire[<<g, n>>])
  /\ \A i, j \in DOMAIN log[g] : i < j /\ log[g][i].conn = log[g][j].conn =>
       log[g][i].number < log[g][j].number

FirstInv(g) ==
  /\ link[g] \in {0, dialled[g]}
  /\ link[g] # 0 => gui[g].pc = "up"
  /\ dialled[g] = 0 =>
       /\ gui[g].clicks = 0 /\ gui[g].queue = << >> /\ log[g] = << >>
       /\ ~gui[g].drawn /\ ~gui[g].connected
  /\ (dialled[g] = 1 /\ link[g] = 1 /\ <<g, 1>> \in clients) =>
       Whole(log[g], wire[<<g, 1>>], gui[g].queue, gui[g].clicks)

CommandInv(g) == OrderInv(g) /\ FirstInv(g)

\* Sequences of commands, as what they hold.
LEMMA NumbersAppend ==
  ASSUME NEW S, NEW q \in Seq(S), NEW c \in S
  PROVE  /\ Numbers(Append(q, c)) = Numbers(q) \cup {c.number}
         /\ Increasing(q) /\ (\A a \in Numbers(q) : a < c.number) => Increasing(Append(q, c))
<1> DEFINE p == Append(q, c)
<1>1. /\ DOMAIN q = 1..Len(q) /\ DOMAIN p = 1..Len(q) + 1 /\ Len(q) \in Nat
      /\ p[Len(q) + 1] = c /\ \A k \in DOMAIN q : p[k] = q[k]
  OBVIOUS
<1> HIDE DEF p
<1>2. Numbers(p) = Numbers(q) \cup {c.number}
  BY <1>1 DEF Numbers
<1>3. Increasing(q) /\ (\A a \in Numbers(q) : a < c.number) => Increasing(p)
  BY <1>1 DEF Increasing, Numbers
<1>4. QED BY <1>2, <1>3 DEF p

LEMMA NumbersTail ==
  ASSUME NEW S, NEW q \in Seq(S), q # << >>
  PROVE  /\ Numbers(q) = {Head(q).number} \cup Numbers(Tail(q))
         /\ Increasing(q) => /\ Increasing(Tail(q))
                             /\ \A a \in Numbers(Tail(q)) : Head(q).number < a
<1> DEFINE p == Tail(q)
<1>1. /\ DOMAIN q = 1..Len(q) /\ DOMAIN p = 1..Len(q) - 1
      /\ Len(q) \in Nat \ {0} /\ Head(q) = q[1]
      /\ \A k \in DOMAIN p : k + 1 \in DOMAIN q /\ p[k] = q[k + 1]
      /\ \A k \in DOMAIN q : k # 1 => k - 1 \in DOMAIN p /\ p[k - 1] = q[k]
  OBVIOUS
<1> HIDE DEF p
<1>2. Numbers(q) = {q[1].number} \cup Numbers(p)
  <2>1. ASSUME NEW a \in Numbers(q) PROVE a \in {q[1].number} \cup Numbers(p)
    <3>1. PICK k \in DOMAIN q : a = q[k].number
      BY <2>1 DEF Numbers
    <3>2. CASE k = 1
      BY <3>1, <3>2
    <3>3. CASE k # 1
      BY <1>1, <3>1, <3>3 DEF Numbers
    <3>4. QED BY <3>2, <3>3
  <2>2. ASSUME NEW a \in {q[1].number} \cup Numbers(p) PROVE a \in Numbers(q)
    BY <1>1, <2>2 DEF Numbers
  <2>3. QED BY <2>1, <2>2
<1>3. Increasing(q) => Increasing(p) /\ \A a \in Numbers(p) : q[1].number < a
  <2>1. SUFFICES ASSUME Increasing(q)
                 PROVE  Increasing(p) /\ \A k \in DOMAIN p : q[1].number < p[k].number
    BY DEF Numbers
  <2>2. ASSUME NEW i \in DOMAIN p, NEW j \in DOMAIN p, i < j PROVE p[i].number < p[j].number
    <3>1. i + 1 \in DOMAIN q /\ j + 1 \in DOMAIN q /\ i + 1 < j + 1
      BY <1>1, <2>2
    <3>2. q[i + 1].number < q[j + 1].number
      BY <2>1, <3>1 DEF Increasing
    <3>3. QED BY <1>1, <2>2, <3>2
  <2>3. ASSUME NEW k \in DOMAIN p PROVE q[1].number < p[k].number
    <3>1. 1 \in DOMAIN q /\ k + 1 \in DOMAIN q /\ 1 < k + 1
      BY <1>1, <2>3
    <3>2. q[1].number < q[k + 1].number
      BY <2>1, <3>1 DEF Increasing
    <3>3. QED BY <1>1, <2>3, <3>2
  <2>4. QED BY <2>2, <2>3 DEF Increasing
<1>4. QED BY <1>1, <1>2, <1>3 DEF p

LEMMA NumbersEmpty ==
  /\ Numbers(<< >>) = {} /\ Increasing(<< >>)
  /\ \A S : \A q \in Seq(S) : Numbers(q) = {} => q = << >>
<1>1. Numbers(<< >>) = {} /\ Increasing(<< >>)
  BY DEF Numbers, Increasing
<1>2. ASSUME NEW S, NEW q \in Seq(S), Numbers(q) = {} PROVE q = << >>
  <2>1. DOMAIN q = {}
    BY <1>2 DEF Numbers
  <2>2. QED BY <2>1
<1>3. QED BY <1>1, <1>2

LEMMA OverAppend ==
  ASSUME NEW done \in Seq(LogEntries), NEW e \in LogEntries
  PROVE  \A n : Over(Append(done, e), n)
                  = Over(done, n) \cup (IF e.conn = n THEN {e.number} ELSE {})
<1> DEFINE p == Append(done, e)
<1>1. /\ DOMAIN done = 1..Len(done) /\ DOMAIN p = 1..Len(done) + 1 /\ Len(done) \in Nat
      /\ p[Len(done) + 1] = e /\ \A k \in DOMAIN done : p[k] = done[k]
  OBVIOUS
<1> HIDE DEF p
<1>2. \A n : Over(p, n) = Over(done, n) \cup (IF e.conn = n THEN {e.number} ELSE {})
  BY <1>1 DEF Over
<1>3. QED BY <1>2 DEF p

\* Nothing is missing as a command goes from the queue to the wire to the daemon.
LEMMA WholeHandle ==
  ASSUME NEW done \in Seq(LogEntries), NEW sent \in Seq(GuiCommands),
         NEW queued \in Seq(GuiCommands), NEW clicks, Whole(done, sent, queued, clicks),
         sent # << >>, NEW e \in LogEntries, e.number = Head(sent).number
  PROVE  Whole(Append(done, e), Tail(sent), queued, clicks)
<1> DEFINE d == Append(done, e)
           t == Tail(sent)
<1>1. /\ DOMAIN done = 1..Len(done) /\ DOMAIN d = 1..Len(done) + 1 /\ Len(done) \in Nat
      /\ Len(d) = Len(done) + 1
      /\ d[Len(done) + 1] = e /\ \A k \in DOMAIN done : d[k] = done[k]
  OBVIOUS
<1>2. /\ DOMAIN sent = 1..Len(sent) /\ DOMAIN t = 1..Len(sent) - 1 /\ Len(t) = Len(sent) - 1
      /\ Len(sent) \in Nat \ {0} /\ Head(sent) = sent[1]
      /\ \A k \in DOMAIN t : k + 1 \in DOMAIN sent /\ t[k] = sent[k + 1]
  OBVIOUS
<1>3. Len(queued) \in Nat /\ DOMAIN queued = 1..Len(queued)
  OBVIOUS
<1> HIDE DEF d, t
<1>4. e.number = Len(done) + 1
  <2>1. 1 \in DOMAIN sent /\ Head(sent) = sent[1]
    BY <1>2
  <2>2. sent[1].number = Len(done) + 1
    BY <2>1 DEF Whole
  <2>3. QED BY <2>1, <2>2
<1>5. \A i \in DOMAIN d : d[i].number = i
  BY <1>1, <1>4 DEF Whole
<1>6. \A i \in DOMAIN t : t[i].number = Len(d) + i
  <2>1. ASSUME NEW i \in DOMAIN t PROVE t[i].number = Len(d) + i
    <3>1. sent[i + 1].number = Len(done) + (i + 1)
      BY <1>2, <2>1 DEF Whole
    <3>2. QED BY <1>1, <1>2, <2>1, <3>1
  <2>2. QED BY <2>1
<1>7. Len(d) + Len(t) = Len(done) + Len(sent)
  BY <1>1, <1>2
<1>8. QED BY <1>5, <1>6, <1>7 DEF Whole, d, t

LEMMA WholeFlush ==
  ASSUME NEW done \in Seq(LogEntries), NEW sent \in Seq(GuiCommands),
         NEW queued \in Seq(GuiCommands), NEW clicks, Whole(done, sent, queued, clicks),
         queued # << >>
  PROVE  Whole(done, Append(sent, Head(queued)), Tail(queued), clicks)
<1> DEFINE c == Head(queued)
           t == Tail(queued)
           s == Append(sent, c)
<1>1. Len(done) \in Nat /\ c \in GuiCommands
  BY HeadTail
<1>2. /\ DOMAIN queued = 1..Len(queued) /\ DOMAIN t = 1..Len(queued) - 1
      /\ Len(t) = Len(queued) - 1 /\ Len(queued) \in Nat \ {0} /\ c = queued[1]
      /\ \A k \in DOMAIN t : k + 1 \in DOMAIN queued /\ t[k] = queued[k + 1]
  OBVIOUS
<1> HIDE DEF c
<1>3. /\ DOMAIN sent = 1..Len(sent) /\ DOMAIN s = 1..Len(sent) + 1 /\ Len(sent) \in Nat
      /\ Len(s) = Len(sent) + 1
      /\ s[Len(sent) + 1] = c /\ \A k \in DOMAIN sent : s[k] = sent[k]
  BY <1>1
<1> HIDE DEF s, t
<1>4. c.number = Len(done) + (Len(sent) + 1)
  BY <1>1, <1>2, <1>3 DEF Whole
<1>5. \A i \in DOMAIN s : s[i].number = Len(done) + i
  <2>1. ASSUME NEW i \in DOMAIN s PROVE s[i].number = Len(done) + i
    <3>1. CASE i = Len(sent) + 1
      BY <1>3, <1>4, <3>1
    <3>2. CASE i \in DOMAIN sent
      BY <1>3, <3>2 DEF Whole
    <3>3. QED BY <1>3, <2>1, <3>1, <3>2
  <2>2. QED BY <2>1
<1>6. \A i \in DOMAIN t : t[i].number = Len(done) + Len(s) + i
  <2>1. ASSUME NEW i \in DOMAIN t PROVE t[i].number = Len(done) + Len(s) + i
    <3>1. queued[i + 1].number = Len(done) + Len(sent) + (i + 1)
      BY <1>2, <2>1 DEF Whole
    <3>2. QED BY <1>1, <1>2, <1>3, <2>1, <3>1
  <2>2. QED BY <2>1
<1>7. Len(done) + Len(s) + Len(t) = Len(done) + Len(sent) + Len(queued)
  BY <1>1, <1>2, <1>3
<1>8. QED BY <1>5, <1>6, <1>7 DEF Whole, s, t, c

LEMMA WholeClick ==
  ASSUME NEW done \in Seq(LogEntries), NEW sent \in Seq(GuiCommands),
         NEW queued \in Seq(GuiCommands), NEW clicks \in Nat, Whole(done, sent, queued, clicks),
         NEW c \in GuiCommands, c.number = clicks + 1
  PROVE  Whole(done, sent, Append(queued, c), clicks + 1)
<1> DEFINE p == Append(queued, c)
<1>1. Len(done) \in Nat /\ Len(sent) \in Nat /\ Len(queued) \in Nat
  OBVIOUS
<1>2. /\ DOMAIN queued = 1..Len(queued) /\ DOMAIN p = 1..Len(queued) + 1
      /\ Len(queued) \in Nat /\ Len(p) = Len(queued) + 1
      /\ p[Len(queued) + 1] = c /\ \A k \in DOMAIN queued : p[k] = queued[k]
  OBVIOUS
<1> HIDE DEF p
<1>3. c.number = Len(done) + Len(sent) + (Len(queued) + 1)
  <2>1. Len(done) + Len(sent) + Len(queued) = clicks
    BY DEF Whole
  <2>2. clicks + 1 = Len(done) + Len(sent) + (Len(queued) + 1)
    BY <1>1, <2>1
  <2>3. QED BY <2>2
<1>4. \A i \in DOMAIN p : p[i].number = Len(done) + Len(sent) + i
  <2>1. ASSUME NEW i \in DOMAIN p PROVE p[i].number = Len(done) + Len(sent) + i
    <3>1. CASE i = Len(queued) + 1
      BY <1>2, <1>3, <3>1
    <3>2. CASE i \in DOMAIN queued
      BY <1>2, <3>2 DEF Whole
    <3>3. QED BY <1>2, <2>1, <3>1, <3>2
  <2>2. QED BY <2>1
<1>5. Len(done) + Len(sent) + Len(p) = clicks + 1
  <2>1. Len(done) + Len(sent) + Len(queued) = clicks
    BY DEF Whole
  <2>2. Len(p) = Len(queued) + 1
    BY <1>2
  <2>3. QED BY <1>1, <2>1, <2>2
<1>6. /\ \A i \in DOMAIN done : done[i].number = i
      /\ \A i \in DOMAIN sent : sent[i].number = Len(done) + i
  BY DEF Whole
<1>7. QED BY <1>4, <1>5, <1>6 DEF Whole, p

-----------------------------------------------------------------------------
(* The order, whatever holds the numbers.                                     *)

\* What is lost, and what is done, does not disturb the order.
LEMMA OrderedLess ==
  ASSUME NEW C, NEW W, NEW Q, NEW clicks \in Nat, NEW conns \in Nat,
         Ordered(C, W, Q, clicks, conns),
         NEW W1, NEW Q1, NEW conns1 \in Nat, conns <= conns1,
         \A n \in 1..MaxLinks : W1[n] \subseteq W[n], Q1 \subseteq Q
  PROVE  Ordered(C, W1, Q1, clicks, conns1)
BY ConsoleAssumption DEF Ordered, Before

\* A command is carried out: the first on its wire.
Handled(C, W, n, a, C1, W1) ==
  /\ W[n] = {a} \cup W1[n] /\ \A b \in W1[n] : a < b
  /\ C1[n] = C[n] \cup {a}
  /\ \A m \in 1..MaxLinks : m # n => C1[m] = C[m] /\ W1[m] = W[m]

LEMMA OrderedHandle ==
  ASSUME NEW C, NEW W, NEW Q, NEW clicks \in Nat, NEW conns \in Nat,
         Ordered(C, W, Q, clicks, conns),
         NEW n \in 1..MaxLinks, NEW a, NEW C1, NEW W1, Handled(C, W, n, a, C1, W1)
  PROVE  Ordered(C1, W1, Q, clicks, conns)
<1> MaxLinks \in Nat
  BY ConsoleAssumption
<1>1. \A m \in 1..MaxLinks : C1[m] \cup W1[m] = C[m] \cup W[m]
  BY DEF Handled
<1>2. \A m \in 1..MaxLinks : Before(C1[m], W1[m])
  BY DEF Ordered, Before, Handled
<1>3. QED BY <1>1, <1>2 DEF Ordered

\* A command is sent: the first of the queue, on the newest connection.
Flushed(W, Q, n, a, W1, Q1) ==
  /\ Q = {a} \cup Q1 /\ \A b \in Q1 : a < b
  /\ W1[n] = W[n] \cup {a}
  /\ \A m \in 1..MaxLinks : m # n => W1[m] = W[m]

LEMMA OrderedFlush ==
  ASSUME NEW C, NEW W, NEW Q, NEW clicks \in Nat, NEW conns \in Nat,
         Ordered(C, W, Q, clicks, conns), conns \in 1..MaxLinks,
         NEW a, NEW Q1, NEW W1, Flushed(W, Q, conns, a, W1, Q1)
  PROVE  Ordered(C, W1, Q1, clicks, conns)
<1> USE DEF Flushed
<1> MaxLinks \in Nat
  BY ConsoleAssumption
<1>1. a \in Nat /\ a <= clicks
  BY DEF Ordered
<1>2. ASSUME NEW n \in 1..MaxLinks
      PROVE  /\ C[n] \cup W1[n] \subseteq Nat
             /\ Before(C[n], W1[n])
             /\ Before(C[n] \cup W1[n], Q1)
             /\ \A b \in C[n] \cup W1[n] : b <= clicks
             /\ n > conns => C[n] \cup W1[n] = {}
  <2>1. CASE n = conns
    BY <1>1, <2>1 DEF Ordered, Before
  <2>2. CASE n # conns
    BY <2>2 DEF Ordered, Before
  <2>3. QED BY <2>1, <2>2
<1>3. ASSUME NEW n \in 1..MaxLinks, NEW m \in 1..MaxLinks, n < m
      PROVE  Before(C[n] \cup W1[n], C[m] \cup W1[m])
  <2>1. CASE n = conns
    <3>1. m # conns /\ m > conns
      BY <1>3, <2>1
    <3>2. C[m] \cup W[m] = {}
      BY <3>1 DEF Ordered
    <3>3. C[m] \cup W1[m] = {}
      BY <3>1, <3>2
    <3>4. QED BY <3>3 DEF Before
  <2>2. CASE m = conns
    BY <1>3, <2>2 DEF Ordered, Before
  <2>3. CASE n # conns /\ m # conns
    BY <1>3, <2>3 DEF Ordered
  <2>4. QED BY <2>1, <2>2, <2>3
<1>4. QED BY <1>2, <1>3 DEF Ordered

\* A click comes after all of them.
LEMMA OrderedClick ==
  ASSUME NEW C, NEW W, NEW Q, NEW clicks \in Nat, NEW conns \in Nat,
         Ordered(C, W, Q, clicks, conns)
  PROVE  Ordered(C, W, Q \cup {clicks + 1}, clicks + 1, conns)
<1> MaxLinks \in Nat
  BY ConsoleAssumption
<1>1. ASSUME NEW n \in 1..MaxLinks
      PROVE  /\ Before(C[n] \cup W[n], Q \cup {clicks + 1})
             /\ \A a \in C[n] \cup W[n] : a <= clicks + 1
  <2>1. C[n] \cup W[n] \subseteq Nat /\ \A a \in C[n] \cup W[n] : a <= clicks
    BY DEF Ordered
  <2>2. QED BY <2>1 DEF Ordered, Before
<1>2. Q \cup {clicks + 1} \subseteq Nat /\ \A a \in Q \cup {clicks + 1} : a <= clicks + 1
  BY DEF Ordered
<1>3. QED BY <1>1, <1>2 DEF Ordered

-----------------------------------------------------------------------------
(* The steps that move a command, and those that lose some or touch none.     *)

LEMMA CommandTypes ==
  ASSUME TypeInv, NEW g \in Guis
  PROVE  /\ gui[g] \in GuiRecords
         /\ gui[g].queue \in Seq(GuiCommands) /\ gui[g].clicks \in Nat
         /\ dialled[g] \in Nat /\ dialled[g] <= MaxLinks /\ link[g] \in Nat
         /\ \A n \in 1..MaxLinks :
              <<g, n>> \in Conns /\ wire[<<g, n>>] \in Seq(GuiCommands)
         /\ log[g] \in Seq(LogEntries)
<1>1. g \in Clients /\ MaxLinks \in Nat
  BY ConsoleAssumption DEF Clients
<1>2. gui[g] \in GuiRecords
  BY DEF TypeInv, GuiType
<1>3. gui[g].queue \in Seq(GuiCommands) /\ gui[g].clicks \in Nat
  BY <1>2 DEF GuiRecords
<1>4. QED BY <1>1, <1>2, <1>3 DEF TypeInv, LinkType, WireType, LogType, Conns

LEMMA CommandInit == Init => \A g \in Guis : CommandInv(g)
<1> SUFFICES ASSUME Init, NEW g \in Guis PROVE CommandInv(g)
  OBVIOUS
<1>1. /\ gui[g].clicks = 0 /\ gui[g].queue = << >> /\ log[g] = << >>
      /\ ~gui[g].drawn /\ ~gui[g].connected
      /\ link[g] = 0 /\ dialled[g] = 0
      /\ \A n \in 1..MaxLinks : wire[<<g, n>>] = << >>
  BY DEF Init, NewGui, Clients, Conns
<1>2. /\ \A n \in 1..MaxLinks : Carried(g)[n] = {} /\ OnWire(g)[n] = {}
      /\ Queued(g) = {}
  BY <1>1, NumbersEmpty DEF Carried, Over, OnWire, Queued
<1>3. OrderInv(g)
  BY <1>1, <1>2, NumbersEmpty DEF OrderInv, Ordered, Before
<1>4. QED BY <1>1, <1>3 DEF CommandInv, FirstInv

\* A step that carries out, sends and adds no command of g: it may lose some,
\* with the link they would have gone over.
LEMMA CommandKept ==
  ASSUME TypeInv, NEW g \in Guis, CommandInv(g),
         gui'[g].clicks = gui[g].clicks, log'[g] = log[g], dialled'[g] = dialled[g],
         link'[g] \in {0, link[g]},
         \A n \in 1..MaxLinks :
           \/ wire'[<<g, n>>] = wire[<<g, n>>]
           \/ wire'[<<g, n>>] = << >> /\ (n # link[g] \/ link'[g] = 0),
         \/ gui'[g].queue = gui[g].queue
         \/ link'[g] = 0 /\ gui'[g].queue = << >>
         \/ link'[g] = 0 /\ gui[g].queue # << >> /\ gui'[g].queue = Tail(gui[g].queue),
         link'[g] # 0 => gui'[g].pc = "up",
         <<g, 1>> \in clients' => <<g, 1>> \in clients,
         gui'[g].drawn => gui[g].drawn \/ gui[g].connected,
         gui'[g].connected => gui[g].connected
  PROVE  CommandInv(g)'
<1>0. /\ gui[g].queue \in Seq(GuiCommands) /\ gui[g].clicks \in Nat /\ dialled[g] \in Nat
      /\ link[g] \in Nat /\ MaxLinks \in Nat
  BY CommandTypes, ConsoleAssumption
<1>1. /\ Carried(g)' = Carried(g)
      /\ \A n \in 1..MaxLinks : OnWire(g)'[n] \subseteq OnWire(g)[n]
  BY NumbersEmpty DEF Carried, OnWire
<1>2. Queued(g)' \subseteq Queued(g) /\ Increasing(gui'[g].queue)
  <2>1. Increasing(gui[g].queue)
    BY DEF CommandInv, OrderInv
  <2>2. QED BY <1>0, <2>1, NumbersEmpty, NumbersTail DEF Queued
<1>3. \A n \in 1..MaxLinks : Increasing(wire'[<<g, n>>])
  BY NumbersEmpty DEF CommandInv, OrderInv
<1>4. Ordered(Carried(g)', OnWire(g)', Queued(g)', gui'[g].clicks, dialled'[g])
  BY <1>0, <1>1, <1>2, OrderedLess DEF CommandInv, OrderInv
<1>5. OrderInv(g)'
  BY <1>2, <1>3, <1>4 DEF CommandInv, OrderInv
<1>6. FirstInv(g)'
  <2>1. dialled[g] = 0 => gui'[g].queue = << >>
    BY DEF CommandInv, FirstInv
  <2>2. link'[g] = 1 => gui'[g].queue = gui[g].queue /\ link[g] = 1
    OBVIOUS
  <2>3. dialled[g] = 1 /\ link'[g] = 1 => wire'[<<g, 1>>] = wire[<<g, 1>>]
    <3>1. dialled[g] = 1 => 1 \in 1..MaxLinks
      BY <1>0, CommandTypes
    <3>2. QED BY <2>2, <3>1
  <2>4. QED BY <2>1, <2>2, <2>3 DEF CommandInv, FirstInv
<1>7. QED BY <1>5, <1>6 DEF CommandInv

\* g connects anew: what it sends now comes after all it ever sent.
LEMMA CommandConnect ==
  ASSUME TypeInv, NEW g \in Guis, CommandInv(g), Connect(g)
  PROVE  CommandInv(g)'
<1> DEFINE n == dialled[g] + 1
<1>0. /\ gui[g] \in GuiRecords /\ gui[g].queue \in Seq(GuiCommands) /\ gui[g].clicks \in Nat
      /\ dialled[g] \in Nat /\ MaxLinks \in Nat /\ g \in Clients
  BY CommandTypes, ConsoleAssumption DEF Clients
<1>1. /\ dialled'[g] = n /\ link'[g] = n /\ n <= MaxLinks /\ UNCHANGED <<log, wire>>
  BY <1>0 DEF Connect, Register, TypeInv, LinkType
<1>2. /\ gui'[g].queue = gui[g].queue /\ gui'[g].clicks = gui[g].clicks
      /\ gui'[g].pc = "up"
  <2> DEFINE u == Snapshot(gui[g], clients')
  <2>1. IsFiniteSet(clients') /\ SharedType
    BY <1>0, RegisterType DEF Connect, ClientsType, TypeInv, ServerType
  <2>2. u \in GuiRecords /\ u.queue = gui[g].queue /\ u.clicks = gui[g].clicks
    BY <1>0, <2>1, SnapshotType
  <2>3. gui'[g] = [u EXCEPT !.pc = "up", !.connected = TRUE]
    BY DEF Connect, Gui, TypeInv, GuiType
  <2> HIDE DEF u
  <2>4. QED BY <2>2, <2>3 DEF GuiRecords
<1>3. OrderInv(g)'
  <2>1. /\ Carried(g)' = Carried(g) /\ Queued(g)' = Queued(g)
        /\ \A i \in 1..MaxLinks : OnWire(g)'[i] \subseteq OnWire(g)[i]
    BY <1>1, <1>2 DEF Carried, OnWire, Queued
  <2>2. Ordered(Carried(g)', OnWire(g)', Queued(g)', gui'[g].clicks, dialled'[g])
    BY <1>0, <1>1, <1>2, <2>1, OrderedLess DEF CommandInv, OrderInv
  <2>3. QED BY <1>1, <1>2, <2>2 DEF CommandInv, OrderInv
<1>4. dialled'[g] = 1 => Whole(log'[g], wire'[<<g, 1>>], gui'[g].queue, gui'[g].clicks)
  <2> SUFFICES ASSUME dialled[g] = 0
               PROVE  Whole(log'[g], wire'[<<g, 1>>], gui'[g].queue, gui'[g].clicks)
    BY <1>0, <1>1
  <2>1. log[g] = << >> /\ gui[g].queue = << >> /\ gui[g].clicks = 0
    BY DEF CommandInv, FirstInv
  <2>2. wire[<<g, 1>>] = << >>
    <3>1. 1 \in 1..MaxLinks /\ 1 > dialled[g]
      BY <1>0, <1>1
    <3>2. OnWire(g)[1] = {}
      BY <3>1 DEF CommandInv, OrderInv, Ordered
    <3>3. Numbers(wire[<<g, 1>>]) = {}
      BY <3>1, <3>2 DEF OnWire
    <3>4. QED BY <3>1, <3>3, CommandTypes, NumbersEmpty
  <2>3. QED BY <1>1, <1>2, <2>1, <2>2 DEF Whole
<1>5. QED BY <1>0, <1>1, <1>2, <1>3, <1>4 DEF CommandInv, FirstInv

\* The daemon carries out the first command on a wire of g.
LEMMA CommandHandled ==
  ASSUME TypeInv, NEW g \in Guis, CommandInv(g), NEW n \in 1..MaxLinks, HandleOp(<<g, n>>)
  PROVE  CommandInv(g)'
<1> DEFINE w == wire[<<g, n>>]
           a == Head(w).number
           e == [number |-> a, conn |-> n]
<1>0. /\ gui[g].clicks \in Nat /\ dialled[g] \in Nat /\ MaxLinks \in Nat
      /\ <<g, n>> \in Conns /\ w \in Seq(GuiCommands) /\ log[g] \in Seq(LogEntries)
      /\ gui[g].queue \in Seq(GuiCommands)
      /\ \A m \in 1..MaxLinks : <<g, m>> \in Conns
  BY CommandTypes, ConsoleAssumption
<1>1. /\ w # << >> /\ wire' = [wire EXCEPT ![<<g, n>>] = Tail(@)]
      /\ log' = [log EXCEPT ![g] = Append(@, e)]
      /\ UNCHANGED <<clients, link, dialled, gui>>
  BY DEF HandleOp, Op
<1>2. /\ wire'[<<g, n>>] = Tail(w) /\ log'[g] = Append(log[g], e)
      /\ \A m \in 1..MaxLinks : m # n => wire'[<<g, m>>] = wire[<<g, m>>]
  BY <1>0, <1>1 DEF TypeInv, WireType, LogType
<1> HIDE DEF w
<1>3. Head(w) \in GuiCommands
  BY <1>0, <1>1, HeadTail
<1>4. a \in Nat
  BY <1>3 DEF GuiCommands
<1> HIDE DEF a
<1>5. e \in LogEntries /\ e.number = a /\ e.conn = n
  BY <1>4 DEF LogEntries
<1> HIDE DEF e
<1>6. /\ Numbers(w) = {a} \cup Numbers(Tail(w)) /\ Increasing(Tail(w))
      /\ \A b \in Numbers(Tail(w)) : a < b
  <2>1. Increasing(w)
    BY DEF CommandInv, OrderInv, w
  <2>2. QED BY <1>0, <1>1, <2>1, NumbersTail DEF a
<1>7. Handled(Carried(g), OnWire(g), n, a, Carried(g)', OnWire(g)')
  <2>1. \A m : Over(log'[g], m) = Over(log[g], m) \cup (IF n = m THEN {a} ELSE {})
    BY <1>0, <1>2, <1>5, OverAppend
  <2>2. /\ Carried(g)'[n] = Carried(g)[n] \cup {a}
        /\ \A m \in 1..MaxLinks : m # n => Carried(g)'[m] = Carried(g)[m]
    BY <2>1 DEF Carried
  <2>3. /\ OnWire(g)[n] = {a} \cup OnWire(g)'[n]
        /\ \A b \in OnWire(g)'[n] : a < b
        /\ \A m \in 1..MaxLinks : m # n => OnWire(g)'[m] = OnWire(g)[m]
    BY <1>2, <1>6 DEF OnWire, w
  <2>4. QED BY <2>2, <2>3 DEF Handled
<1>8. Ordered(Carried(g), OnWire(g), Queued(g), gui[g].clicks, dialled[g])
  BY DEF CommandInv, OrderInv
<1>9. Ordered(Carried(g)', OnWire(g)', Queued(g)', gui'[g].clicks, dialled'[g])
  <2>1. Ordered(Carried(g)', OnWire(g)', Queued(g), gui[g].clicks, dialled[g])
    BY <1>0, <1>7, <1>8, OrderedHandle
  <2>2. QED BY <1>1, <2>1 DEF Queued
<1>10. \A i \in DOMAIN log[g] : log[g][i].conn = n => log[g][i].number < a
  <2>1. \A i \in DOMAIN log[g] : log[g][i].conn = n => log[g][i].number \in Carried(g)[n]
    BY DEF Carried, Over
  <2>2. a \in OnWire(g)[n] /\ Before(Carried(g)[n], OnWire(g)[n])
    BY <1>7, <1>8 DEF Handled, Ordered
  <2>3. QED BY <2>1, <2>2 DEF Before
<1>11. ASSUME NEW i \in DOMAIN log'[g], NEW j \in DOMAIN log'[g], i < j,
              log'[g][i].conn = log'[g][j].conn
       PROVE  log'[g][i].number < log'[g][j].number
  <2> DEFINE d == log[g]
  <2>1. /\ DOMAIN d = 1..Len(d) /\ Len(d) \in Nat
        /\ DOMAIN Append(d, e) = 1..Len(d) + 1
        /\ Append(d, e)[Len(d) + 1] = e
        /\ \A k \in DOMAIN d : Append(d, e)[k] = d[k]
    BY <1>0, <1>5
  <2>2. i \in DOMAIN d
    BY <1>2, <1>11, <2>1
  <2>3. CASE j = Len(d) + 1
    BY <1>2, <1>5, <1>10, <1>11, <2>1, <2>2, <2>3
  <2>4. CASE j # Len(d) + 1
    <3>1. j \in DOMAIN d
      BY <1>2, <1>11, <2>1, <2>4
    <3>2. log'[g][i] = d[i] /\ log'[g][j] = d[j]
      BY <1>2, <2>1, <2>2, <3>1
    <3>3. QED BY <1>11, <2>2, <3>1, <3>2 DEF CommandInv, OrderInv
  <2>5. QED BY <2>3, <2>4
<1>12. OrderInv(g)'
  <2>1. Increasing(gui'[g].queue)
    BY <1>1 DEF CommandInv, OrderInv
  <2>2. \A m \in 1..MaxLinks : Increasing(wire'[<<g, m>>])
    BY <1>2, <1>6 DEF CommandInv, OrderInv
  <2>3. QED BY <1>9, <1>11, <2>1, <2>2 DEF OrderInv
<1>13. FirstInv(g)'
  <2>1. n <= dialled[g]
    <3>1. OnWire(g)[n] # {}
      BY <1>7 DEF Handled
    <3>2. ~(n > dialled[g])
      BY <1>8, <3>1 DEF Ordered
    <3>3. QED BY <1>0, <3>2
  <2>2. ASSUME dialled[g] = 1, Whole(log[g], wire[<<g, 1>>], gui[g].queue, gui[g].clicks)
        PROVE  Whole(log'[g], wire'[<<g, 1>>], gui'[g].queue, gui'[g].clicks)
    <3>1. n = 1
      BY <2>1, <2>2
    <3>2. Whole(log[g], w, gui[g].queue, gui[g].clicks)
      BY <2>2, <3>1 DEF w
    <3>3. Whole(Append(log[g], e), Tail(w), gui[g].queue, gui[g].clicks)
      BY <1>0, <1>1, <1>5, <3>2, WholeHandle DEF a
    <3>4. QED BY <1>1, <1>2, <3>1, <3>3
  <2>3. dialled[g] # 0
    BY <2>1
  <2>4. QED BY <1>1, <2>2, <2>3 DEF CommandInv, FirstInv
<1>14. QED BY <1>12, <1>13 DEF CommandInv

\* g sends the first command of its queue over the link it has.
LEMMA CommandFlushed ==
  ASSUME TypeInv, NEW g \in Guis, CommandInv(g), Flush(g), link[g] # 0
  PROVE  CommandInv(g)'
<1> DEFINE n == dialled[g]
           w == wire[<<g, n>>]
           q == gui[g].queue
           c == Head(q)
<1>0. /\ gui[g] \in GuiRecords /\ q \in Seq(GuiCommands) /\ gui[g].clicks \in Nat
      /\ MaxLinks \in Nat /\ n = link[g] /\ n \in 1..MaxLinks
      /\ w \in Seq(GuiCommands) /\ log[g] \in Seq(LogEntries)
      /\ \A m \in 1..MaxLinks : <<g, m>> \in Conns
  BY CommandTypes, ConsoleAssumption DEF CommandInv, FirstInv
<1>1. /\ q # << >> /\ gui[g].pc = "up" /\ c \in GuiCommands /\ Tail(q) \in Seq(GuiCommands)
      /\ wire' = [wire EXCEPT ![<<g, n>>] = Append(@, c)]
      /\ Gui(g, [gui[g] EXCEPT !.queue = Tail(q)])
      /\ UNCHANGED <<clients, link, dialled, log>>
  BY <1>0, HeadTail DEF Flush, Transmit, server, history
<1>2. /\ wire'[<<g, n>>] = Append(w, c)
      /\ \A m \in 1..MaxLinks : m # n => wire'[<<g, m>>] = wire[<<g, m>>]
  BY <1>0, <1>1 DEF TypeInv, WireType
<1>3. /\ gui'[g].queue = Tail(q) /\ gui'[g].clicks = gui[g].clicks /\ gui'[g].pc = "up"
  BY <1>0, <1>1 DEF Gui, GuiRecords, TypeInv, GuiType
<1> DEFINE a == c.number
<1>4. /\ Numbers(q) = {a} \cup Numbers(Tail(q)) /\ Increasing(Tail(q))
      /\ \A b \in Numbers(Tail(q)) : a < b
  BY <1>0, <1>1, NumbersTail DEF CommandInv, OrderInv
<1>5. Ordered(Carried(g), OnWire(g), Queued(g), gui[g].clicks, dialled[g])
  BY DEF CommandInv, OrderInv
<1>6. Numbers(Append(w, c)) = Numbers(w) \cup {a} /\ Increasing(Append(w, c))
  <2>1. OnWire(g)[n] = Numbers(w) /\ a \in Queued(g)
    BY <1>0, <1>4 DEF OnWire, Queued
  <2>2. \A b \in Numbers(w) : b < a
    BY <1>0, <1>5, <2>1 DEF Ordered, Before
  <2>3. Increasing(w)
    BY <1>0 DEF CommandInv, OrderInv
  <2> HIDE DEF w, c
  <2>4. QED BY <1>0, <1>1, <2>2, <2>3, NumbersAppend
<1>7. Flushed(OnWire(g), Queued(g), n, a, OnWire(g)', Queued(g)')
  <2>1. /\ OnWire(g)'[n] = OnWire(g)[n] \cup {a}
        /\ \A m \in 1..MaxLinks : m # n => OnWire(g)'[m] = OnWire(g)[m]
    BY <1>0, <1>2, <1>6 DEF OnWire
  <2>2. Queued(g) = {a} \cup Queued(g)' /\ \A b \in Queued(g)' : a < b
    BY <1>3, <1>4 DEF Queued
  <2>3. QED BY <2>1, <2>2 DEF Flushed
<1>8. OrderInv(g)'
  <2>1. Ordered(Carried(g), OnWire(g)', Queued(g)', gui[g].clicks, dialled[g])
    <3> HIDE DEF a
    <3>1. dialled[g] \in Nat /\ dialled[g] \in 1..MaxLinks /\ gui[g].clicks \in Nat
      BY <1>0
    <3>2. QED BY <1>5, <1>7, <3>1, OrderedFlush
  <2>2. \A m \in 1..MaxLinks : Increasing(wire'[<<g, m>>])
    BY <1>2, <1>6 DEF CommandInv, OrderInv
  <2>3. Carried(g)' = Carried(g)
    BY <1>1 DEF Carried
  <2>4. QED BY <1>1, <1>3, <1>4, <2>1, <2>2, <2>3 DEF CommandInv, OrderInv
<1>9. FirstInv(g)'
  <2>1. ASSUME n = 1, Whole(log[g], wire[<<g, 1>>], q, gui[g].clicks)
        PROVE  Whole(log'[g], wire'[<<g, 1>>], gui'[g].queue, gui'[g].clicks)
    <3>1. Whole(log[g], w, q, gui[g].clicks)
      BY <2>1
    <3> HIDE DEF w
    <3>2. Whole(log[g], Append(w, c), Tail(q), gui[g].clicks)
      BY <1>0, <1>1, <3>1, WholeFlush
    <3>3. QED BY <1>1, <1>2, <1>3, <2>1, <3>2
  <2>2. QED BY <1>0, <1>1, <1>3, <2>1 DEF CommandInv, FirstInv
<1>10. QED BY <1>8, <1>9 DEF CommandInv

\* The operator clicks, on a frame drawn of a GUI that was connected.
LEMMA CommandClicked ==
  ASSUME TypeInv, NEW g \in Guis, CommandInv(g), NEW mode \in Modes, Click(g, mode)
  PROVE  CommandInv(g)'
<1> DEFINE n == gui[g].clicks + 1
           q == gui[g].queue
           c == [mode |-> mode, number |-> n]
<1>0. /\ gui[g] \in GuiRecords /\ q \in Seq(GuiCommands) /\ gui[g].clicks \in Nat
      /\ dialled[g] \in Nat /\ MaxLinks \in Nat /\ gui[g].drawn /\ log[g] \in Seq(LogEntries)
  BY CommandTypes, ConsoleAssumption DEF Click
<1>1. /\ Gui(g, [gui[g] EXCEPT !.clicks = n, !.queue = Append(q, c)])
      /\ UNCHANGED <<clients, link, dialled, log, wire>>
  BY DEF Click, server, wires, history
<1>2. c \in GuiCommands /\ c.number = n
  BY <1>0 DEF GuiCommands
<1> HIDE DEF c
<1>3. gui'[g] = [gui[g] EXCEPT !.clicks = n, !.queue = Append(q, c)]
  BY <1>1 DEF Gui, TypeInv, GuiType
<1>4. /\ gui'[g].queue = Append(q, c) /\ gui'[g].clicks = n /\ gui'[g].pc = gui[g].pc
  BY <1>0, <1>3 DEF GuiRecords
<1>5. /\ Numbers(Append(q, c)) = Numbers(q) \cup {n}
      /\ Increasing(Append(q, c))
  <2>1. \A a \in Numbers(q) : a < n
    BY <1>0 DEF CommandInv, OrderInv, Ordered, Queued
  <2>2. QED BY <1>0, <1>2, <2>1, NumbersAppend DEF CommandInv, OrderInv
<1>6. OrderInv(g)'
  <2>1. /\ Carried(g)' = Carried(g) /\ OnWire(g)' = OnWire(g)
        /\ Queued(g)' = Queued(g) \cup {n}
    BY <1>1, <1>4, <1>5 DEF Carried, OnWire, Queued
  <2>2. Ordered(Carried(g), OnWire(g), Queued(g) \cup {n}, n, dialled[g])
    BY <1>0, OrderedClick DEF CommandInv, OrderInv
  <2>3. QED BY <1>1, <1>4, <1>5, <2>1, <2>2 DEF CommandInv, OrderInv
<1>7. FirstInv(g)'
  <2>1. dialled[g] # 0
    BY <1>0 DEF CommandInv, FirstInv
  <2>2. ASSUME dialled[g] = 1, Whole(log[g], wire[<<g, 1>>], q, gui[g].clicks)
        PROVE  Whole(log[g], wire[<<g, 1>>], Append(q, c), n)
    <3>1. wire[<<g, 1>>] \in Seq(GuiCommands)
      <4>1. 1 \in 1..MaxLinks
        BY <2>2, CommandTypes
      <4>2. QED BY <4>1, CommandTypes
    <3>2. QED BY <1>0, <1>2, <2>2, <3>1, WholeClick
  <2>3. QED BY <1>1, <1>4, <2>1, <2>2 DEF CommandInv, FirstInv
<1>8. QED BY <1>6, <1>7 DEF CommandInv

\* What g has to do with the step is at most the end of an older connection.
Undisturbed(g) ==
  /\ gui'[g].clicks = gui[g].clicks /\ gui'[g].queue = gui[g].queue
  /\ gui'[g].pc = gui[g].pc /\ gui'[g].drawn = gui[g].drawn
  /\ gui'[g].connected = gui[g].connected
  /\ log'[g] = log[g] /\ dialled'[g] = dialled[g] /\ link'[g] = link[g]
  /\ \A n \in 1..MaxLinks :
       wire'[<<g, n>>] = wire[<<g, n>>] \/ (n # link[g] /\ wire'[<<g, n>>] = << >>)
  /\ <<g, 1>> \in clients' => <<g, 1>> \in clients

LEMMA CommandUndisturbed ==
  ASSUME TypeInv, NEW g \in Guis, CommandInv(g), Undisturbed(g)
  PROVE  CommandInv(g)'
<1>1. link[g] # 0 => gui[g].pc = "up"
  BY DEF CommandInv, FirstInv
<1>2. QED BY <1>1, CommandKept DEF Undisturbed

LEMMA CommandServe ==
  ASSUME TypeInv, NEW g \in Guis, CommandInv(g), Serve
  PROVE  CommandInv(g)'
<1>1. ASSUME NEW t \in Threads, SendAll(t) PROVE CommandInv(g)'
  <2>1. Head(work[t]) \in Tasks /\ Head(work[t]).do = "send"
    BY <1>1, HeadTail DEF TypeInv, ServerType, WorkType, SendAll
  <2>2. Head(work[t]).msg \in Msgs
    BY <2>1 DEF Tasks
  <2>3. gui'[g] \in {gui[g], Told(gui[g], Head(work[t]).msg)}
    BY <1>1 DEF SendAll
  <2>4. Undisturbed(g)
    BY <1>1, <2>2, <2>3, CommandTypes, ToldType DEF SendAll, wires, Undisturbed
  <2>5. QED BY <2>4, CommandUndisturbed
<1>2. ASSUME NEW t \in Threads, BuildStatus(t) PROVE CommandInv(g)'
  BY <1>2, CommandUndisturbed DEF BuildStatus, wires, history, Undisturbed
<1>3. ASSUME NEW k \in Conns, HandleOp(k) PROVE CommandInv(g)'
  <2>1. PICK c \in Clients, n \in 1..MaxLinks : k = <<c, n>>
    BY DEF Conns
  <2>2. CASE c = g
    BY <1>3, <2>1, <2>2, CommandHandled
  <2>3. CASE c # g
    <3>1. log'[g] = log[g]
      BY <1>3, <2>1, <2>3 DEF HandleOp, Op, TypeInv, LogType
    <3>2. \A m \in 1..MaxLinks : wire'[<<g, m>>] = wire[<<g, m>>]
      BY <1>3, <2>1, <2>3, CommandTypes DEF HandleOp, Op, TypeInv, WireType
    <3>3. QED BY <1>3, <3>1, <3>2, CommandUndisturbed DEF HandleOp, Op, Undisturbed
  <2>4. QED BY <2>2, <2>3
<1>4. ASSUME NEW k \in Conns, ConnectionEnds(k) PROVE CommandInv(g)'
  <2>1. \A n \in 1..MaxLinks :
          wire'[<<g, n>>] = wire[<<g, n>>] \/ (n # link[g] /\ wire'[<<g, n>>] = << >>)
    BY <1>4, CommandTypes DEF ConnectionEnds, TypeInv, WireType
  <2>2. QED BY <1>4, <2>1, CommandUndisturbed DEF ConnectionEnds, history, Undisturbed
<1>5. QED BY <1>1, <1>2, <1>3, <1>4 DEF Serve

LEMMA CommandUnlinked ==
  ASSUME TypeInv, NEW g \in Guis, CommandInv(g), NEW c, Unlink(c)
  PROVE  /\ dialled'[g] = dialled[g]
         /\ link'[g] = IF c = g THEN 0 ELSE link[g]
         /\ \A n \in 1..MaxLinks :
              \/ wire'[<<g, n>>] = wire[<<g, n>>]
              \/ c = g /\ wire'[<<g, n>>] = << >>
<1>1. dialled' = dialled /\ link'[g] = IF c = g THEN 0 ELSE link[g]
  BY DEF Unlink, TypeInv, LinkType, Clients
<1>2. QED BY <1>1, CommandTypes DEF Unlink

LEMMA CommandOutside ==
  ASSUME TypeInv, NEW g \in Guis, CommandInv(g), Outside
  PROVE  CommandInv(g)'
<1>1. ASSUME NEW mode \in Modes, Command(mode) PROVE CommandInv(g)'
  BY <1>1, CommandUndisturbed DEF Command, wires, history, Undisturbed
<1>2. ASSUME NEW c \in Idis \cup {None}, MoveCard(c) PROVE CommandInv(g)'
  BY <1>2, CommandUndisturbed DEF MoveCard, wires, history, Undisturbed
<1>3. ASSUME NEW c \in Clients, TerminalConnects(c) PROVE CommandInv(g)'
  <2>1. c # g
    BY <1>3, ConsoleAssumption DEF TerminalConnects
  <2>2. /\ link'[g] = link[g] /\ dialled'[g] = dialled[g]
        /\ <<g, 1>> \in clients' => <<g, 1>> \in clients
    BY <1>3, <2>1 DEF TerminalConnects, Register, TypeInv, LinkType
  <2>3. QED BY <1>3, <2>2, CommandUndisturbed DEF TerminalConnects, Register, Undisturbed
<1>4. ASSUME NEW c \in Clients, Break(c) PROVE CommandInv(g)'
  <2>1. UNCHANGED <<clients, gui, log>> /\ Unlink(c)
    BY <1>4 DEF Break, server, history
  <2>2. CASE c = g
    BY <2>1, <2>2, CommandUnlinked, CommandKept
  <2>3. CASE c # g
    BY <2>1, <2>3, CommandUnlinked, CommandUndisturbed DEF Undisturbed
  <2>4. QED BY <2>2, <2>3
<1>5. QED BY <1>1, <1>2, <1>3, <1>4 DEF Outside

LEMMA CommandProcesses ==
  ASSUME TypeInv, NEW g \in Guis, CommandInv(g), Processes
  PROVE  CommandInv(g)'
<1>0. /\ gui[g] \in GuiRecords
      /\ link[g] # 0 => gui[g].pc = "up"
  BY CommandTypes DEF CommandInv, FirstInv
<1>1. ASSUME NEW h \in Guis, StartGui(h) \/ Spawn(h) PROVE CommandInv(g)'
  <2>1. UNCHANGED <<clients, link, dialled, wire, log>>
    BY <1>1 DEF StartGui, Begin, Spawn, server, wires, history
  <2>2. CASE h # g
    <3>1. gui'[g] = gui[g]
      BY <1>1, <2>2 DEF StartGui, Begin, Spawn, Gui, TypeInv, GuiType
    <3>2. QED BY <2>1, <3>1, CommandUndisturbed DEF Undisturbed
  <2>3. CASE h = g
    <3>1. gui[g].pc \in {"off", "spawn"} /\ \E pc : gui'[g] = [gui[g] EXCEPT !.pc = pc]
      BY <1>1, <2>3 DEF StartGui, Begin, Spawn, Gui, TypeInv, GuiType
    <3>2. /\ gui'[g].clicks = gui[g].clicks /\ gui'[g].queue = gui[g].queue
          /\ gui'[g].drawn = gui[g].drawn /\ gui'[g].connected = gui[g].connected
      BY <1>0, <3>1 DEF GuiRecords
    <3>3. link[g] = 0
      BY <1>0, <3>1
    <3>4. QED BY <2>1, <3>2, <3>3, CommandKept
  <2>4. QED BY <2>2, <2>3
<1>2. ASSUME NEW h \in Guis, GuiEnds(h) PROVE CommandInv(g)'
  <2>1. log' = log /\ Gui(h, [NewGui EXCEPT !.pc = "closed", !.clicks = gui[h].clicks])
    BY <1>2 DEF GuiEnds, history
  <2>2. CASE h = g
    <3>1. /\ gui'[g].clicks = gui[g].clicks /\ gui'[g].queue = << >>
          /\ ~gui'[g].drawn /\ ~gui'[g].connected
      BY <2>1, <2>2 DEF Gui, NewGui, TypeInv, GuiType
    <3>2. /\ dialled'[g] = dialled[g] /\ link'[g] = 0
          /\ \A n \in 1..MaxLinks :
               wire'[<<g, n>>] = wire[<<g, n>>] \/ wire'[<<g, n>>] = << >>
          /\ clients' \subseteq clients
      <4>1. CASE h \in Listening
        BY <1>2, <4>1, CommandTypes DEF GuiEnds, Die, Clients
      <4>2. CASE h \notin Listening
        BY <1>2, <2>2, <4>2, CommandUnlinked DEF GuiEnds, Die, server
      <4>3. QED BY <4>1, <4>2
    <3>3. QED BY <2>1, <3>1, <3>2, CommandKept
  <2>3. CASE h # g
    <3>1. gui'[g] = gui[g]
      BY <2>1, <2>3 DEF Gui, TypeInv, GuiType
    <3>2. CASE h \in Listening
      <4>1. /\ dialled'[g] = dialled[g] /\ link'[g] = 0
            /\ \A n \in 1..MaxLinks : wire'[<<g, n>>] = << >>
            /\ clients' = {}
        BY <1>2, <3>2, CommandTypes DEF GuiEnds, Die, Clients
      <4>2. QED BY <2>1, <3>1, <4>1, CommandKept
    <3>3. CASE h \notin Listening
      <4>1. Unlink(h) /\ clients' = clients
        BY <1>2, <3>3 DEF GuiEnds, Die, server
      <4>2. QED BY <2>1, <2>3, <3>1, <4>1, CommandUnlinked, CommandUndisturbed DEF Undisturbed
    <3>4. QED BY <3>2, <3>3
  <2>4. QED BY <2>2, <2>3
<1>3. ASSUME NEW o \in Owners, Bind(o) PROVE CommandInv(g)'
  BY <1>3, CommandUndisturbed DEF Bind, BindAs, server, wires, history, Undisturbed
<1>4. CASE StartExternal
  BY <1>4, CommandUndisturbed DEF StartExternal, server, wires, Undisturbed
<1>5. CASE ExternalEnds
  <2>1. UNCHANGED <<gui, log>>
    BY <1>5 DEF ExternalEnds, history
  <2>2. CASE External \in Listening
    <3>1. /\ dialled'[g] = dialled[g] /\ link'[g] = 0
          /\ \A n \in 1..MaxLinks : wire'[<<g, n>>] = << >>
          /\ clients' = {}
      BY <1>5, <2>2, CommandTypes DEF ExternalEnds, Die, Clients
    <3>2. QED BY <2>1, <3>1, CommandKept
  <2>3. CASE External \notin Listening
    <3>1. UNCHANGED <<clients, wires>>
      BY <1>5, <2>3 DEF ExternalEnds, Die, server
    <3>2. QED BY <2>1, <3>1, CommandUndisturbed DEF wires, Undisturbed
  <2>4. QED BY <2>2, <2>3
<1>6. QED BY <1>1, <1>2, <1>3, <1>4, <1>5 DEF Processes

LEMMA CommandGui ==
  ASSUME TypeInv, NEW g \in Guis, CommandInv(g), NEW h \in Guis, WsThread(h) \/ Window(h)
  PROVE  CommandInv(g)'
<1>0. /\ gui[g] \in GuiRecords
      /\ link[g] # 0 => gui[g].pc = "up"
  BY CommandTypes DEF CommandInv, FirstInv
<1>1. CASE h # g
  <2>1. gui'[g] = gui[g] /\ log'[g] = log[g]
    BY <1>1 DEF WsThread, Window, Connect, Register, ConnectFails, Flush, Transmit, Notice,
       Discard, Draw, Click, Gui, history, TypeInv, GuiType
  <2>2. CASE Connect(h)
    <3>1. /\ link'[g] = link[g] /\ dialled'[g] = dialled[g] /\ wire' = wire
          /\ <<g, 1>> \in clients' => <<g, 1>> \in clients
      BY <1>1, <2>2 DEF Connect, Register, TypeInv, LinkType
    <3>2. QED BY <2>1, <3>1, CommandUndisturbed DEF Undisturbed
  <2>3. CASE Flush(h)
    <3>1. UNCHANGED <<clients, link, dialled>>
      BY <2>3 DEF Flush, Transmit, server
    <3>2. \A n \in 1..MaxLinks : wire'[<<g, n>>] = wire[<<g, n>>]
      BY <1>1, <2>3, CommandTypes DEF Flush, Transmit, TypeInv, WireType
    <3>3. QED BY <2>1, <3>1, <3>2, CommandUndisturbed DEF Undisturbed
  <2>4. CASE ConnectFails(h) \/ Notice(h) \/ Discard(h) \/ Window(h)
    <3>1. UNCHANGED <<clients, link, dialled, wire>>
      BY <2>4 DEF ConnectFails, Notice, Discard, Window, Draw, Click, server, wires
    <3>2. QED BY <2>1, <3>1, CommandUndisturbed DEF Undisturbed
  <2>5. QED BY <2>2, <2>3, <2>4 DEF WsThread
<1>2. CASE h = g
  <2>1. CASE Connect(g)
    BY <2>1, CommandConnect
  <2>2. CASE Flush(g)
    <3>1. CASE link[g] = 0
      <4>1. UNCHANGED <<clients, link, dialled, wire, log>>
        BY <2>2, <3>1 DEF Flush, Transmit, server, history
      <4>2. /\ gui[g].queue # << >>
            /\ gui'[g] = [gui[g] EXCEPT !.queue = Tail(gui[g].queue)]
        BY <2>2 DEF Flush, Transmit, Gui, TypeInv, GuiType
      <4>3. /\ gui'[g].clicks = gui[g].clicks /\ gui'[g].queue = Tail(gui[g].queue)
            /\ gui'[g].drawn = gui[g].drawn /\ gui'[g].connected = gui[g].connected
        BY <1>0, <4>2 DEF GuiRecords
      <4>4. QED BY <3>1, <4>1, <4>2, <4>3, CommandKept
    <3>2. CASE link[g] # 0
      BY <2>2, <3>2, CommandFlushed
    <3>3. QED BY <3>1, <3>2
  <2>3. CASE ConnectFails(g) \/ Notice(g) \/ Discard(g)
    <3>1. UNCHANGED <<clients, link, dialled, wire, log>>
      BY <2>3 DEF ConnectFails, Notice, Discard, server, wires, history
    <3>2. link[g] = 0
      BY <1>0, <2>3 DEF ConnectFails, Notice, Discard
    <3>3. \/ gui'[g] = [gui[g] EXCEPT !.queue = << >>]
          \/ gui'[g] = [gui[g] EXCEPT !.pc = "down", !.connected = FALSE]
          \/ gui'[g] = [gui[g] EXCEPT !.pc = "connect", !.queue = << >>]
      BY <2>3 DEF ConnectFails, Notice, Discard, Gui, TypeInv, GuiType
    <3>4. /\ gui'[g].clicks = gui[g].clicks
          /\ gui'[g].queue = gui[g].queue \/ gui'[g].queue = << >>
          /\ gui'[g].drawn = gui[g].drawn
          /\ gui'[g].connected => gui[g].connected
      BY <1>0, <3>3 DEF GuiRecords
    <3>5. QED BY <3>1, <3>2, <3>4, CommandKept
  <2>4. CASE Draw(g)
    <3>1. UNCHANGED <<clients, link, dialled, wire, log>>
      BY <2>4 DEF Draw, server, wires, history
    <3>2. gui'[g] = [gui[g] EXCEPT !.drawn = gui[g].connected]
      BY <2>4 DEF Draw, Gui, TypeInv, GuiType
    <3>3. /\ gui'[g].clicks = gui[g].clicks /\ gui'[g].queue = gui[g].queue
          /\ gui'[g].pc = gui[g].pc /\ gui'[g].drawn = gui[g].connected
          /\ gui'[g].connected = gui[g].connected
      BY <1>0, <3>2 DEF GuiRecords
    <3>4. QED BY <1>0, <3>1, <3>3, CommandKept
  <2>5. ASSUME NEW mode \in Modes, Click(g, mode) PROVE CommandInv(g)'
    BY <2>5, CommandClicked
  <2>6. QED BY <1>2, <2>1, <2>2, <2>3, <2>4, <2>5 DEF WsThread, Window
<1>3. QED BY <1>1, <1>2

LEMMA CommandStep ==
  ASSUME TypeInv, NEW g \in Guis, CommandInv(g), [Next]_vars
  PROVE  CommandInv(g)'
<1>1. CASE UNCHANGED vars
  BY <1>1, CommandUndisturbed DEF vars, server, wires, history, Undisturbed
<1>2. QED
  BY <1>1, CommandServe, CommandOutside, CommandProcesses, CommandGui DEF Next

\* The numbers of a sequence of commands, as the property writes them.
LEMMA NumberSequence ==
  ASSUME NEW S, \A c \in S : c.number \in Nat, NEW q \in Seq(S)
  PROVE  LET ns == [i \in DOMAIN q |-> q[i].number]
         IN /\ ns \in Seq(Nat) /\ Len(ns) = Len(q) /\ Len(q) \in Nat /\ DOMAIN q = 1..Len(q)
            /\ \A i \in 1..Len(q) : ns[i] = q[i].number
<1> DEFINE ns == [i \in DOMAIN q |-> q[i].number]
<1>1. Len(q) \in Nat /\ DOMAIN q = 1..Len(q) /\ \A i \in 1..Len(q) : q[i] \in S
  BY LenProperties
<1>2. /\ ns \in [1..Len(q) -> Nat] /\ DOMAIN ns = 1..Len(q)
      /\ \A i \in 1..Len(q) : ns[i] = q[i].number
  BY <1>1
<1> HIDE DEF ns
<1>3. ns \in Seq(Nat)
  BY <1>1, <1>2, SeqDef
<1>4. Len(ns) = Len(q)
  BY <1>1, <1>2, <1>3, LenProperties
<1>5. QED BY <1>1, <1>2, <1>3, <1>4 DEF ns

LEMMA NothingMissing ==
  ASSUME NEW done \in Seq(LogEntries), NEW sent \in Seq(GuiCommands),
         NEW queued \in Seq(GuiCommands), NEW clicks \in Nat, Whole(done, sent, queued, clicks)
  PROVE  LET way == sent \o queued
         IN [i \in DOMAIN done |-> done[i].number] \o [i \in DOMAIN way |-> way[i].number]
              = [i \in 1..clicks |-> i]
<1> DEFINE way == sent \o queued
           first == [i \in DOMAIN done |-> done[i].number]
           rest == [i \in DOMAIN way |-> way[i].number]
           all == [i \in 1..clicks |-> i]
<1>1. /\ way \in Seq(GuiCommands) /\ Len(way) = Len(sent) + Len(queued)
      /\ \A i \in 1..Len(sent) + Len(queued) :
           way[i] = IF i <= Len(sent) THEN sent[i] ELSE queued[i - Len(sent)]
  BY ConcatProperties
<1>2. /\ Len(done) \in Nat /\ DOMAIN done = 1..Len(done)
      /\ Len(sent) \in Nat /\ DOMAIN sent = 1..Len(sent)
      /\ Len(queued) \in Nat /\ DOMAIN queued = 1..Len(queued)
      /\ clicks = Len(done) + Len(sent) + Len(queued)
  BY LenProperties DEF Whole
<1> HIDE DEF way
<1>3. /\ first \in Seq(Nat) /\ Len(first) = Len(done)
      /\ \A i \in 1..Len(done) : first[i] = done[i].number
  <2>1. \A e \in LogEntries : e.number \in Nat
    BY DEF LogEntries
  <2>2. QED BY <2>1, NumberSequence
<1>4. /\ rest \in Seq(Nat) /\ Len(rest) = Len(way)
      /\ \A i \in 1..Len(way) : rest[i] = way[i].number
  <2>1. \A c \in GuiCommands : c.number \in Nat
    BY DEF GuiCommands
  <2>2. QED BY <1>1, <2>1, NumberSequence
<1>5. all \in Seq(Nat) /\ Len(all) = clicks /\ \A i \in 1..clicks : all[i] = i
  <2>1. all \in [1..clicks -> Nat] /\ DOMAIN all = 1..clicks /\ \A i \in 1..clicks : all[i] = i
    OBVIOUS
  <2> HIDE DEF all
  <2>2. all \in Seq(Nat)
    BY <2>1, SeqDef
  <2>3. Len(all) = clicks
    BY <2>1, <2>2, LenProperties
  <2>4. QED BY <2>1, <2>2, <2>3
<1> HIDE DEF first, rest, all
<1>6. \A i \in 1..Len(done) : first[i] = i
  BY <1>2, <1>3 DEF Whole
<1>7. \A i \in 1..Len(way) : rest[i] = Len(done) + i
  <2>1. ASSUME NEW i \in 1..Len(way) PROVE way[i].number = Len(done) + i
    <3>1. CASE i <= Len(sent)
      <4>1. i \in DOMAIN sent /\ way[i] = sent[i]
        BY <1>1, <1>2, <2>1, <3>1
      <4>2. QED BY <4>1 DEF Whole
    <3>2. CASE ~(i <= Len(sent))
      <4>1. i - Len(sent) \in DOMAIN queued /\ way[i] = queued[i - Len(sent)]
        BY <1>1, <1>2, <2>1, <3>2
      <4>2. queued[i - Len(sent)].number = Len(done) + Len(sent) + (i - Len(sent))
        BY <4>1 DEF Whole
      <4>3. Len(done) + Len(sent) + (i - Len(sent)) = Len(done) + i
        BY <1>2, <2>1
      <4>4. QED BY <4>1, <4>2, <4>3
    <3>3. QED BY <3>1, <3>2
  <2>2. QED BY <1>4, <2>1
<1>8. /\ first \o rest \in Seq(Nat) /\ Len(first \o rest) = Len(done) + Len(way)
      /\ \A i \in 1..Len(done) + Len(way) :
           (first \o rest)[i] = IF i <= Len(done) THEN first[i] ELSE rest[i - Len(done)]
  <2>1. first \in Seq(Nat) /\ rest \in Seq(Nat)
    BY <1>3, <1>4
  <2>2. /\ first \o rest \in Seq(Nat) /\ Len(first \o rest) = Len(first) + Len(rest)
        /\ \A i \in 1..Len(first) + Len(rest) :
             (first \o rest)[i] = IF i <= Len(first) THEN first[i] ELSE rest[i - Len(first)]
    BY <2>1, ConcatProperties
  <2>3. QED BY <1>3, <1>4, <2>2
<1>9. Len(first \o rest) = Len(all)
  BY <1>1, <1>2, <1>5, <1>8
<1>10. ASSUME NEW i \in 1..Len(first \o rest) PROVE (first \o rest)[i] = all[i]
  <2>1. /\ i \in 1..Len(done) + Len(way) /\ Len(way) \in Nat /\ all[i] = i
    <3>1. Len(way) \in Nat
      BY <1>1, <1>2
    <3>2. i \in 1..Len(done) + Len(way) /\ i \in 1..clicks
      BY <1>5, <1>8, <1>9, <1>10
    <3>3. QED BY <1>5, <3>1, <3>2
  <2>2. CASE i <= Len(done)
    <3>1. (first \o rest)[i] = first[i]
      BY <1>8, <2>1, <2>2
    <3>2. i \in 1..Len(done)
      BY <1>2, <2>1, <2>2
    <3>3. QED BY <1>6, <2>1, <3>1, <3>2
  <2>3. CASE ~(i <= Len(done))
    <3> Len(done) \in Nat
      BY <1>2
    <3>1. i - Len(done) \in 1..Len(way) /\ (first \o rest)[i] = rest[i - Len(done)]
      <4>1. (first \o rest)[i] = rest[i - Len(done)]
        BY <1>8, <2>1, <2>3
      <4>2. i - Len(done) \in 1..Len(way)
        BY <2>1, <2>3
      <4>3. QED BY <4>1, <4>2
    <3>2. rest[i - Len(done)] = Len(done) + (i - Len(done))
      BY <1>7, <3>1
    <3>3. QED BY <1>2, <2>1, <3>1, <3>2
  <2>4. QED BY <2>2, <2>3
<1>11. first \o rest = all
  BY <1>5, <1>8, <1>9, <1>10, SeqEqual
<1>12. QED BY <1>11 DEF way, first, rest, all

LEMMA CommandOrdered ==
  ASSUME TypeInv, NEW g \in Guis, CommandInv(g),
         NEW i \in DOMAIN log[g], NEW j \in DOMAIN log[g], i < j
  PROVE  \/ log[g][i].number < log[g][j].number
         \/ log[g][i].number > log[g][j].number /\ log[g][i].conn > log[g][j].conn
<1> DEFINE a == log[g][i]
           b == log[g][j]
<1>1. a \in LogEntries /\ b \in LogEntries /\ MaxLinks \in Nat
  BY CommandTypes, ConsoleAssumption
<1>2. /\ a.conn \in 1..MaxLinks /\ b.conn \in 1..MaxLinks
      /\ a.number \in Nat /\ b.number \in Nat
  BY <1>1 DEF LogEntries
<1>3. a.number \in Carried(g)[a.conn] /\ b.number \in Carried(g)[b.conn]
  BY <1>2 DEF Carried, Over
<1>4. \A n, m \in 1..MaxLinks : n < m => Before(Carried(g)[n], Carried(g)[m])
  BY DEF CommandInv, OrderInv, Ordered, Before
<1>5. CASE a.conn = b.conn
  BY <1>5 DEF CommandInv, OrderInv
<1>6. CASE a.conn < b.conn
  BY <1>2, <1>3, <1>4, <1>6 DEF Before
<1>7. CASE a.conn > b.conn
  BY <1>2, <1>3, <1>4, <1>7 DEF Before
<1>8. QED BY <1>2, <1>5, <1>6, <1>7

CommandsInv == \A g \in Guis : CommandInv(g)

\* An operator's clicks are carried out at most once, across links that break
\* and daemons that are replaced, later ones first only when they came on a
\* later connection; while a GUI's first link holds, none is missing, for any
\* number of GUIs, connections and clicks.
THEOREM CommandsAccountedCorrect == Spec => []CommandsAccounted
<1>1. TypeInv /\ CommandsInv => CommandsAccounted
  <2> SUFFICES ASSUME TypeInv, CommandsInv, NEW g \in Guis
               PROVE  /\ \A i, j \in DOMAIN log[g] : i < j =>
                           \/ log[g][i].number < log[g][j].number
                           \/ /\ log[g][i].number > log[g][j].number
                              /\ log[g][i].conn > log[g][j].conn
                      /\ (dialled[g] = 1 /\ Connected(g)) =>
                           [i \in DOMAIN log[g] |-> log[g][i].number]
                               \o [i \in DOMAIN UnderWay(g) |-> UnderWay(g)[i].number]
                             = [i \in 1..gui[g].clicks |-> i]
    BY DEF CommandsAccounted
  <2>1. CommandInv(g)
    BY DEF CommandsInv
  <2>2. ASSUME dialled[g] = 1, Connected(g)
        PROVE  [i \in DOMAIN log[g] |-> log[g][i].number]
                   \o [i \in DOMAIN UnderWay(g) |-> UnderWay(g)[i].number]
                 = [i \in 1..gui[g].clicks |-> i]
    <3>1. link[g] = 1 /\ <<g, 1>> \in clients
      BY <2>1, <2>2 DEF CommandInv, FirstInv, Connected
    <3>2. Whole(log[g], wire[<<g, 1>>], gui[g].queue, gui[g].clicks)
      BY <2>1, <2>2, <3>1 DEF CommandInv, FirstInv
    <3>3. UnderWay(g) = wire[<<g, 1>>] \o gui[g].queue
      BY <3>1 DEF UnderWay
    <3>4. wire[<<g, 1>>] \in Seq(GuiCommands)
      <4>1. 1 \in 1..MaxLinks
        BY <2>2, CommandTypes, ConsoleAssumption
      <4>2. QED BY <4>1, CommandTypes
    <3>5. log[g] \in Seq(LogEntries) /\ gui[g].queue \in Seq(GuiCommands) /\ gui[g].clicks \in Nat
      BY CommandTypes
    <3> DEFINE done == log[g]
               sent == wire[<<g, 1>>]
               queued == gui[g].queue
               clicks == gui[g].clicks
    <3>6. /\ done \in Seq(LogEntries) /\ sent \in Seq(GuiCommands)
          /\ queued \in Seq(GuiCommands) /\ clicks \in Nat
          /\ Whole(done, sent, queued, clicks) /\ UnderWay(g) = sent \o queued
      BY <3>2, <3>3, <3>4, <3>5
    <3> HIDE DEF done, sent, queued, clicks
    <3> DEFINE way == sent \o queued
    <3>7. [i \in DOMAIN done |-> done[i].number] \o [i \in DOMAIN way |-> way[i].number]
            = [i \in 1..clicks |-> i]
      BY <3>6, NothingMissing
    <3>8. QED BY <3>6, <3>7 DEF done, clicks
  <2>3. QED BY <2>1, <2>2, CommandOrdered
<1>2. Init => CommandsInv
  BY CommandInit DEF CommandsInv
<1>3. TypeInv /\ CommandsInv /\ [Next]_vars => CommandsInv'
  BY CommandStep DEF CommandsInv
<1>4. QED BY <1>1, <1>2, <1>3, TypeInvariant, PTL DEF Spec

-----------------------------------------------------------------------------
(* What a GUI shows. A thread that changes the mode or the client list has a  *)
(* status to send from the same step on, and the card loop has the card to    *)
(* send: as long as one of these is still to come, a mirror may be behind.    *)

IsStatus(task) == task.do = "status" \/ task.msg.type = "status"
HasStatus(tasks) == \E i \in DOMAIN tasks : IsStatus(tasks[i])
Replies(tasks) == \A i \in DOMAIN tasks : IsStatus(tasks[i]) \/ tasks[i].msg.type = "mode"

\* A status is still to be built, or to be sent.
News == \E t \in Threads : HasStatus(work[t])

\* The card loop has at most the present card to tell; the others tell modes
\* and statuses.
CardWork == work[CardLoop] \in {<< >>, << Say(CardMsg(shared.idi)) >>}
OtherWork == \A t \in Threads \ {CardLoop} : Replies(work[t])

Shown(g) ==
  Connected(g) =>
    /\ \/ stale[g] \/ News
       \/ gui[g].mode = shared.mode /\ gui[g].clients = Cardinality(clients)
    /\ stale[g] \/ News \/ work[CardLoop] # << >> \/ gui[g].idi = shared.idi
    /\ work[CardLoop] # << >> \/ shared.idi = None \/ gui[g].balanceOf = shared.idi

MirrorInv == CardWork /\ OtherWork /\ \A g \in Guis : Shown(g)

SameShown(u, v) ==
  /\ u.mode = v.mode /\ u.idi = v.idi
  /\ u.clients = v.clients /\ u.balanceOf = v.balanceOf

LEMMA ThreadsDiffer ==
  /\ CardLoop \in Threads /\ CliLoop \in Threads \ {CardLoop}
  /\ \A k \in Conns : k \in Threads \ {CardLoop}
<1>1. \A k \in Conns : k[2] \in 1..MaxLinks /\ k[2] # 0
  BY ConsoleAssumption DEF Conns
<1>2. \A k \in Conns : k # CardLoop
  BY <1>1 DEF CardLoop
<1>3. QED BY <1>2 DEF Threads, CardLoop, CliLoop

LEMMA StatusOf ==
  /\ \A mode : ~IsStatus(Say(ModeMsg(mode))) /\ Say(ModeMsg(mode)).msg.type = "mode"
  /\ \A idi : ~IsStatus(Say(CardMsg(idi)))
  /\ \A s, cs : IsStatus(Say(StatusMsg(s, cs)))
  /\ IsStatus(BroadcastStatus)
BY DEF IsStatus, Say, ModeMsg, CardMsg, StatusMsg, BroadcastStatus

\* Sending the first task, or building its text, takes no status away but the
\* one that is sent.
LEMMA StatusTail ==
  ASSUME NEW tasks \in Seq(Tasks), tasks # << >>
  PROVE  /\ HasStatus(tasks) => IsStatus(Head(tasks)) \/ HasStatus(Tail(tasks))
         /\ Replies(tasks) => Replies(Tail(tasks))
         /\ Replies(tasks) => IsStatus(Head(tasks)) \/ Head(tasks).msg.type = "mode"
<1>1. \A i \in DOMAIN Tail(tasks) : i + 1 \in DOMAIN tasks /\ Tail(tasks)[i] = tasks[i + 1]
  OBVIOUS
<1>2. \A i \in DOMAIN tasks :
        i = 1 \/ (i - 1 \in DOMAIN Tail(tasks) /\ Tail(tasks)[i - 1] = tasks[i])
  OBVIOUS
<1>3. 1 \in DOMAIN tasks /\ Head(tasks) = tasks[1]
  OBVIOUS
<1> DEFINE first == Head(tasks)
           rest == Tail(tasks)
<1>4. /\ \A i \in DOMAIN rest : i + 1 \in DOMAIN tasks /\ rest[i] = tasks[i + 1]
      /\ \A i \in DOMAIN tasks : i = 1 \/ (i - 1 \in DOMAIN rest /\ rest[i - 1] = tasks[i])
      /\ 1 \in DOMAIN tasks /\ first = tasks[1]
  BY <1>1, <1>2, <1>3
<1> HIDE DEF first, rest
<1>5. HasStatus(tasks) => IsStatus(first) \/ HasStatus(rest)
  <2>1. SUFFICES ASSUME NEW i \in DOMAIN tasks, IsStatus(tasks[i])
                 PROVE  IsStatus(first) \/ HasStatus(rest)
    BY DEF HasStatus
  <2>2. CASE i = 1
    BY <1>4, <2>1, <2>2
  <2>3. CASE i # 1
    BY <1>4, <2>1, <2>3 DEF HasStatus
  <2>4. QED BY <2>2, <2>3
<1>6. Replies(tasks) => Replies(rest)
  BY <1>4 DEF Replies
<1>7. Replies(tasks) => IsStatus(first) \/ first.msg.type = "mode"
  BY <1>4 DEF Replies
<1>8. QED BY <1>5, <1>6, <1>7 DEF first, rest

LEMMA StatusFirst ==
  ASSUME NEW rest \in Seq(Tasks), NEW task \in Tasks, IsStatus(task)
  PROVE  /\ HasStatus(<< task >> \o rest)
         /\ Replies(rest) => Replies(<< task >> \o rest)
<1> DEFINE all == << task >> \o rest
<1>1. 1 \in DOMAIN all /\ all[1] = task
  OBVIOUS
<1>2. \A i \in DOMAIN all : i = 1 \/ (i - 1 \in DOMAIN rest /\ all[i] = rest[i - 1])
  OBVIOUS
<1> HIDE DEF all
<1>3. HasStatus(all) /\ (Replies(rest) => Replies(all))
  BY <1>1, <1>2 DEF HasStatus, Replies
<1>4. QED BY <1>3 DEF all

\* What the threads have to say of a change.
LEMMA StatusTold ==
  /\ HasStatus(<< BroadcastStatus >>) /\ Replies(<< BroadcastStatus >>)
  /\ \A mode : LET told == << Say(ModeMsg(mode)), BroadcastStatus >>
               IN  HasStatus(told) /\ Replies(told)
<1>1. HasStatus(<< BroadcastStatus >>) /\ Replies(<< BroadcastStatus >>)
  BY StatusOf DEF HasStatus, Replies
<1>2. ASSUME NEW mode
      PROVE  /\ HasStatus(<< Say(ModeMsg(mode)), BroadcastStatus >>)
             /\ Replies(<< Say(ModeMsg(mode)), BroadcastStatus >>)
  <2> DEFINE told == << Say(ModeMsg(mode)), BroadcastStatus >>
  <2>1. /\ DOMAIN told = 1..2 /\ told[1] = Say(ModeMsg(mode)) /\ told[2] = BroadcastStatus
    OBVIOUS
  <2> HIDE DEF told
  <2>2. HasStatus(told) /\ Replies(told)
    BY <2>1, StatusOf DEF HasStatus, Replies
  <2>3. QED BY <2>2 DEF told
<1>3. QED BY <1>1, <1>2

-----------------------------------------------------------------------------
(* Steps by what they do to the mirrors.                                      *)

\* Nothing of what is shown changes, and nobody connects.
LEMMA MirrorKept ==
  ASSUME MirrorInv, UNCHANGED server,
         \A g \in Guis : /\ Connected(g)' => Connected(g)
                         /\ stale'[g] = stale[g] /\ SameShown(gui'[g], gui[g])
  PROVE  MirrorInv'
<1>1. work' = work /\ shared' = shared /\ clients' = clients
  BY DEF server
<1>2. CardWork' /\ OtherWork' /\ News' = News
  BY <1>1 DEF MirrorInv, CardWork, OtherWork, News
<1>3. ASSUME NEW g \in Guis PROVE Shown(g)'
  <2>1. Shown(g) /\ SameShown(gui'[g], gui[g]) /\ stale'[g] = stale[g]
    BY DEF MirrorInv
  <2>2. ASSUME Connected(g)' PROVE Connected(g)
    BY <2>2
  <2>3. QED BY <1>1, <1>2, <2>1, <2>2 DEF Shown, SameShown
<1>4. QED BY <1>2, <1>3 DEF MirrorInv

\* Whoever is still connected shows the same.
LEMMA MirrorStayed ==
  ASSUME MirrorInv, UNCHANGED <<server, stale>>,
         \A g \in Guis : Connected(g)' => Connected(g) /\ gui'[g] = gui[g]
  PROVE  MirrorInv'
<1>1. work' = work /\ shared' = shared /\ clients' = clients
  BY DEF server
<1>2. CardWork' /\ OtherWork' /\ News' = News
  BY <1>1 DEF MirrorInv, CardWork, OtherWork, News
<1>3. ASSUME NEW g \in Guis PROVE Shown(g)'
  <2>1. Shown(g) /\ stale'[g] = stale[g]
    BY DEF MirrorInv
  <2>2. ASSUME Connected(g)' PROVE Connected(g) /\ gui'[g] = gui[g]
    BY <2>2
  <2>3. QED BY <1>1, <1>2, <2>1, <2>2 DEF Shown
<1>4. QED BY <1>2, <1>3 DEF MirrorInv

\* A thread has a status to tell: of a change it made, or the text of one.
LEMMA MirrorTold ==
  ASSUME TypeInv, MirrorInv, NEW t \in Threads \ {CardLoop}, NEW told \in Seq(Tasks),
         work' = [work EXCEPT ![t] = told], HasStatus(told), Replies(told),
         shared'.idi = shared.idi,
         \A g \in Guis : Connected(g)' =>
           \/ Connected(g) /\ gui'[g].balanceOf = gui[g].balanceOf
           \/ shared.idi = None \/ gui'[g].balanceOf = shared.idi
  PROVE  MirrorInv'
<1>1. \A x \in Threads : work'[x] = IF x = t THEN told ELSE work[x]
  BY DEF TypeInv, ServerType, WorkType
<1>2. work'[CardLoop] = work[CardLoop] /\ work'[t] = told
  BY <1>1, ThreadsDiffer
<1>3. CardWork'
  BY <1>2 DEF MirrorInv, CardWork
<1>4. OtherWork'
  BY <1>1 DEF MirrorInv, OtherWork
<1>5. News'
  BY <1>2 DEF News
<1>6. ASSUME NEW g \in Guis PROVE Shown(g)'
  <2>1. Shown(g)
    BY DEF MirrorInv
  <2>2. Connected(g)' =>
          \/ Connected(g) /\ gui'[g].balanceOf = gui[g].balanceOf
          \/ shared.idi = None \/ gui'[g].balanceOf = shared.idi
    OBVIOUS
  <2>3. QED BY <1>2, <1>5, <2>1, <2>2 DEF Shown
<1>7. QED BY <1>3, <1>4, <1>6 DEF MirrorInv

\* The daemon is gone, and with it every connection.
LEMMA MirrorGone ==
  ASSUME work' = [t \in Threads |-> << >>], clients' = {}
  PROVE  MirrorInv'
<1>1. CardWork' /\ OtherWork'
  BY ThreadsDiffer DEF CardWork, OtherWork, Replies
<1>2. \A g \in Guis : ~Connected(g)'
  BY DEF Connected
<1>3. QED BY <1>1, <1>2 DEF MirrorInv, Shown

\* A card is laid down or taken away, and the card loop has that to tell.
LEMMA MirrorCard ==
  ASSUME TypeInv, MirrorInv, NEW c, MoveCard(c)
  PROVE  MirrorInv'
<1>1. /\ shared' = [shared EXCEPT !.idi = c] /\ UNCHANGED <<clients, link, gui, stale>>
      /\ work' = [work EXCEPT ![CardLoop] = << Say(CardMsg(c)) >>]
      /\ work[CardLoop] = << >>
  BY DEF MoveCard, wires, history
<1>2. shared'.idi = c /\ shared'.mode = shared.mode
  BY <1>1 DEF TypeInv, ServerType, SharedType
<1>3. /\ work'[CardLoop] = << Say(CardMsg(c)) >>
      /\ \A t \in Threads \ {CardLoop} : work'[t] = work[t]
  BY <1>1, ThreadsDiffer DEF TypeInv, ServerType, WorkType
<1>4. CardWork'
  BY <1>2, <1>3 DEF CardWork
<1>5. OtherWork'
  BY <1>3 DEF MirrorInv, OtherWork
<1>6. News => News'
  <2>1. ~HasStatus(work[CardLoop])
    BY <1>1 DEF HasStatus
  <2>2. QED BY <1>3, <2>1 DEF News
<1>7. << Say(CardMsg(c)) >> # << >>
  OBVIOUS
<1>8. ASSUME NEW g \in Guis PROVE Shown(g)'
  <2>1. Shown(g) /\ Connected(g)' = Connected(g)
    BY <1>1 DEF MirrorInv, Connected
  <2>2. work'[CardLoop] # << >>
    BY <1>3, <1>7
  <2>3. QED BY <1>1, <1>2, <1>6, <2>1, <2>2 DEF Shown
<1>9. QED BY <1>4, <1>5, <1>8 DEF MirrorInv

\* What handling a message leaves of what a GUI shows.
LEMMA ToldShown ==
  ASSUME NEW u \in GuiRecords, NEW m \in Msgs
  PROVE  /\ m.type = "mode" =>
              /\ Told(u, m).mode = m.mode /\ Told(u, m).idi = u.idi
              /\ Told(u, m).clients = u.clients /\ Told(u, m).balanceOf = u.balanceOf
         /\ m.type = "card" =>
              /\ Told(u, m).mode = u.mode /\ Told(u, m).idi = m.idi
              /\ Told(u, m).clients = u.clients /\ Told(u, m).balanceOf = m.idi
         /\ m.type = "status" =>
              /\ Told(u, m).mode = m.mode /\ Told(u, m).idi = m.idi
              /\ Told(u, m).clients = m.clients /\ Told(u, m).balanceOf = u.balanceOf
BY DEF Told, GuiRecords

\* A message goes out: a card is the present one, and a status that is not is
\* remembered as such.
LEMMA MirrorSent ==
  ASSUME TypeInv, MirrorInv, NEW t \in Threads, SendAll(t)
  PROVE  MirrorInv'
<1> DEFINE m == Head(work[t]).msg
<1>1. work[t] \in Seq(Tasks) /\ work[t] # << >>
  BY DEF TypeInv, ServerType, WorkType, SendAll
<1>2. Head(work[t]) \in Tasks /\ Tail(work[t]) \in Seq(Tasks) /\ Head(work[t]).do = "send"
  BY <1>1, HeadTail DEF SendAll
<1>3. m \in Msgs /\ (IsStatus(Head(work[t])) <=> m.type = "status")
  BY <1>2 DEF Tasks, IsStatus
<1>4. /\ UNCHANGED <<shared, clients, link>>
      /\ \A x \in Threads : work'[x] = IF x = t THEN Tail(work[t]) ELSE work[x]
  BY DEF SendAll, wires, TypeInv, ServerType, WorkType
<1>5. ASSUME NEW g \in Guis
      PROVE  /\ gui'[g] = IF Connected(g) THEN Told(gui[g], m) ELSE gui[g]
             /\ stale'[g] = IF ~Connected(g) THEN stale[g]
                            ELSE ~UpToDate(m) \/ (stale[g] /\ m.type # "status")
             /\ gui[g] \in GuiRecords /\ Connected(g)' = Connected(g) /\ Shown(g)
  BY <1>4 DEF SendAll, Connected, TypeInv, GuiType, MirrorInv
<1> HIDE DEF m
<1>6. OtherWork'
  BY <1>1, <1>4, StatusTail DEF MirrorInv, OtherWork
<1>7. CASE t = CardLoop
  <2>1. work[CardLoop] = << Say(CardMsg(shared.idi)) >>
    BY <1>1, <1>7 DEF MirrorInv, CardWork
  <2>2. m = CardMsg(shared.idi) /\ work'[CardLoop] = << >>
    BY <1>4, <1>7, <2>1 DEF m, Say
  <2>3. m.type = "card" /\ m.idi = shared.idi
    BY <2>2 DEF CardMsg
  <2>4. News => News'
    <3>1. ~HasStatus(work[t])
      BY <1>7, <2>1, StatusOf DEF HasStatus
    <3>2. QED BY <1>4, <3>1 DEF News
  <2>5. ASSUME NEW g \in Guis PROVE Shown(g)'
    <3>1. Shown(g) /\ Connected(g)' = Connected(g) /\ gui[g] \in GuiRecords
      BY <1>5
    <3>2. ASSUME Connected(g)
          PROVE  /\ gui'[g].mode = gui[g].mode /\ gui'[g].clients = gui[g].clients
                 /\ gui'[g].idi = shared.idi /\ gui'[g].balanceOf = shared.idi
                 /\ stale[g] => stale'[g]
      <4>1. gui'[g] = Told(gui[g], m) /\ (stale[g] => stale'[g])
        BY <1>5, <2>3, <3>2
      <4>2. QED BY <1>3, <2>3, <3>1, <4>1, ToldShown
    <3>3. QED BY <1>4, <2>4, <3>1, <3>2 DEF Shown
  <2>6. CardWork'
    BY <2>2 DEF CardWork
  <2>7. QED BY <1>6, <2>5, <2>6 DEF MirrorInv
<1>8. CASE t # CardLoop
  <2>1. work'[CardLoop] = work[CardLoop]
    BY <1>4, <1>8, ThreadsDiffer
  <2>2. CardWork'
    BY <1>4, <2>1 DEF MirrorInv, CardWork
  <2>3. m.type \in {"mode", "status"}
    <3>1. Replies(work[t])
      BY <1>8 DEF MirrorInv, OtherWork
    <3>2. QED BY <1>1, <1>3, <3>1, StatusTail DEF m
  <2>4. CASE m.type = "status"
    <3>1. ASSUME NEW g \in Guis PROVE Shown(g)'
      <4>1. Shown(g) /\ Connected(g)' = Connected(g) /\ gui[g] \in GuiRecords
        BY <1>5
      <4>2. ASSUME Connected(g)
            PROVE  /\ gui'[g].balanceOf = gui[g].balanceOf
                   /\ \/ stale'[g]
                      \/ /\ gui'[g].mode = shared.mode /\ gui'[g].idi = shared.idi
                         /\ gui'[g].clients = Cardinality(clients)
        <5>1. gui'[g] = Told(gui[g], m) /\ (~UpToDate(m) => stale'[g])
          BY <1>5, <2>4, <4>2
        <5>2. /\ gui'[g].mode = m.mode /\ gui'[g].idi = m.idi
              /\ gui'[g].clients = m.clients /\ gui'[g].balanceOf = gui[g].balanceOf
          BY <1>3, <2>4, <4>1, <5>1, ToldShown
        <5>3. UpToDate(m) => m = StatusMsg(shared, clients)
          BY <2>4 DEF UpToDate
        <5>4. UpToDate(m) => /\ m.mode = shared.mode /\ m.idi = shared.idi
                             /\ m.clients = Cardinality(clients)
          BY <5>3 DEF StatusMsg
        <5>5. QED BY <5>1, <5>2, <5>4
      <4>3. QED BY <1>4, <2>1, <4>1, <4>2 DEF Shown
    <3>2. QED BY <1>6, <2>2, <3>1 DEF MirrorInv
  <2>5. CASE m.type = "mode"
    <3>1. News => News'
      <4>1. ~IsStatus(Head(work[t]))
        BY <1>3, <2>5
      <4>2. HasStatus(work[t]) => HasStatus(Tail(work[t]))
        BY <1>1, <4>1, StatusTail
      <4>3. QED BY <1>4, <4>2 DEF News
    <3>2. ASSUME NEW g \in Guis PROVE Shown(g)'
      <4>1. Shown(g) /\ Connected(g)' = Connected(g) /\ gui[g] \in GuiRecords
        BY <1>5
      <4>2. ASSUME Connected(g)
            PROVE  /\ gui'[g].idi = gui[g].idi /\ gui'[g].clients = gui[g].clients
                   /\ gui'[g].balanceOf = gui[g].balanceOf
                   /\ stale[g] => stale'[g]
                   /\ stale'[g] \/ gui'[g].mode = shared.mode
        <5>1. /\ gui'[g] = Told(gui[g], m) /\ (stale[g] => stale'[g])
              /\ ~UpToDate(m) => stale'[g]
          BY <1>5, <2>5, <4>2
        <5>2. /\ gui'[g].mode = m.mode /\ gui'[g].idi = gui[g].idi
              /\ gui'[g].clients = gui[g].clients /\ gui'[g].balanceOf = gui[g].balanceOf
          BY <1>3, <2>5, <4>1, <5>1, ToldShown
        <5>3. UpToDate(m) => m.mode = shared.mode
          BY <2>5 DEF UpToDate
        <5>4. QED BY <5>1, <5>2, <5>3
      <4>3. QED BY <1>4, <2>1, <3>1, <4>1, <4>2 DEF Shown
    <3>3. QED BY <1>6, <2>2, <3>2 DEF MirrorInv
  <2>6. QED BY <2>3, <2>4, <2>5
<1>9. QED BY <1>7, <1>8

\* A client that registers is told all, and everybody that it is there.
LEMMA SnapshotShown ==
  ASSUME SharedType, NEW u \in GuiRecords, NEW cs, IsFiniteSet(cs), shared.idi # None
  PROVE  Snapshot(u, cs).balanceOf = shared.idi
<1> DEFINE second == Told(Told(u, ModeMsg(shared.mode)), StatusMsg(shared, cs))
<1>1. /\ ModeMsg(shared.mode) \in Msgs /\ StatusMsg(shared, cs) \in Msgs
      /\ CardMsg(shared.idi) \in Msgs
  BY MessagesType, StatusType DEF SharedType
<1>2. Told(u, ModeMsg(shared.mode)) \in GuiRecords
  BY <1>1, ToldType
<1>3. second \in GuiRecords
  BY <1>1, <1>2, ToldType
<1>4. Snapshot(u, cs) = Told(second, CardMsg(shared.idi))
  BY DEF Snapshot
<1> HIDE DEF second
<1>5. CardMsg(shared.idi).type = "card" /\ CardMsg(shared.idi).idi = shared.idi
  BY DEF CardMsg
<1>6. QED BY <1>1, <1>3, <1>4, <1>5, ToldShown

LEMMA MirrorRegistered ==
  ASSUME TypeInv, MirrorInv, NEW c \in Clients, Register(c),
         \A g \in Guis : g # c => gui'[g] = gui[g],
         c \in Guis /\ shared.idi # None => gui'[c].balanceOf = shared.idi
  PROVE  MirrorInv'
<1> DEFINE k == <<c, dialled[c] + 1>>
<1>1. k \in Conns
  BY ConsoleAssumption DEF Register, TypeInv, LinkType, Conns
<1>2. /\ work' = [work EXCEPT ![k] = << BroadcastStatus >>] /\ shared' = shared
      /\ clients' = clients \cup {k} /\ link' = [link EXCEPT ![c] = dialled[c] + 1]
  BY DEF Register
<1>3. ASSUME NEW g \in Guis, Connected(g)'
      PROVE  \/ Connected(g) /\ gui'[g].balanceOf = gui[g].balanceOf
             \/ shared.idi = None \/ gui'[g].balanceOf = shared.idi
  <2>1. CASE g = c
    BY <2>1
  <2>2. CASE g # c
    <3>1. link'[g] = link[g] /\ gui'[g] = gui[g]
      BY <1>2, <2>2 DEF TypeInv, LinkType, Clients
    <3>2. QED BY <1>2, <1>3, <2>2, <3>1 DEF Connected
  <2>3. QED BY <2>1, <2>2
<1>4. << BroadcastStatus >> \in Seq(Tasks) /\ k \in Threads \ {CardLoop}
  BY <1>1, MessagesType, ThreadsDiffer
<1> HIDE DEF k
<1>5. QED BY <1>2, <1>3, <1>4, StatusTold, MirrorTold

LEMMA MirrorServe ==
  ASSUME TypeInv, MirrorInv, Serve
  PROVE  MirrorInv'
<1>1. ASSUME NEW t \in Threads, SendAll(t) PROVE MirrorInv'
  BY <1>1, MirrorSent
<1>2. ASSUME NEW t \in Threads, BuildStatus(t) PROVE MirrorInv'
  <2> DEFINE first == Say(StatusMsg(shared, clients))
             rest == Tail(work[t])
  <2>1. /\ work[t] \in Seq(Tasks) /\ work[t] # << >> /\ Head(work[t]).do = "status"
        /\ UNCHANGED <<shared, clients, link, gui>>
        /\ work' = [work EXCEPT ![t] = << first >> \o rest]
    BY <1>2 DEF BuildStatus, wires, TypeInv, ServerType, WorkType
  <2>2. t # CardLoop
    <3>1. ASSUME t = CardLoop PROVE FALSE
      <4>1. work[t] = << Say(CardMsg(shared.idi)) >>
        BY <2>1, <3>1 DEF MirrorInv, CardWork
      <4>2. Head(work[t]).do = "send"
        BY <4>1 DEF Say
      <4>3. QED BY <2>1, <4>2
    <3>2. QED BY <3>1
  <2>3. first \in Tasks /\ rest \in Seq(Tasks) /\ IsStatus(first)
    BY <2>1, HeadTail, MessagesType, StatusType, StatusOf DEF TypeInv, ServerType, ClientsType
  <2>4. Replies(rest)
    BY <2>1, <2>2, StatusTail DEF MirrorInv, OtherWork
  <2>5. \A g \in Guis : Connected(g)' = Connected(g) /\ gui'[g].balanceOf = gui[g].balanceOf
    BY <2>1 DEF Connected
  <2> HIDE DEF first, rest
  <2> DEFINE told == << first >> \o rest
  <2>6. told \in Seq(Tasks) /\ HasStatus(told) /\ Replies(told)
    BY <2>3, <2>4, StatusFirst
  <2>7. work' = [work EXCEPT ![t] = told]
    BY <2>1
  <2> HIDE DEF told
  <2>8. QED BY <2>1, <2>2, <2>5, <2>6, <2>7, MirrorTold
<1>3. ASSUME NEW k \in Conns, HandleOp(k) PROVE MirrorInv'
  <2> DEFINE mode == Head(wire[k]).mode
             told == << Say(ModeMsg(mode)), BroadcastStatus >>
  <2>1. Head(wire[k]) \in GuiCommands
    BY <1>3, HeadTail DEF HandleOp, Op, TypeInv, WireType
  <2>2. mode \in Modes
    BY <2>1 DEF GuiCommands
  <2>3. /\ UNCHANGED <<clients, link, gui>> /\ work' = [work EXCEPT ![k] = told]
        /\ shared'.idi = shared.idi
    BY <1>3 DEF HandleOp, Op, SetMode, TypeInv, ServerType, SharedType
  <2>4. \A g \in Guis : Connected(g)' = Connected(g) /\ gui'[g].balanceOf = gui[g].balanceOf
    BY <2>3 DEF Connected
  <2>5. told \in Seq(Tasks) /\ HasStatus(told) /\ Replies(told)
    BY <2>2, TellMode, StatusTold
  <2> HIDE DEF told
  <2>6. QED BY <2>3, <2>4, <2>5, ThreadsDiffer, MirrorTold
<1>4. ASSUME NEW k \in Conns, ConnectionEnds(k) PROVE MirrorInv'
  <2>1. /\ UNCHANGED <<shared, link, gui>> /\ clients' \subseteq clients
        /\ work' = [work EXCEPT ![k] = << BroadcastStatus >>]
    BY <1>4 DEF ConnectionEnds
  <2>2. \A g \in Guis :
          (Connected(g)' => Connected(g)) /\ gui'[g].balanceOf = gui[g].balanceOf
    BY <2>1 DEF Connected
  <2>3. << BroadcastStatus >> \in Seq(Tasks)
    BY MessagesType
  <2>4. QED BY <2>1, <2>2, <2>3, StatusTold, ThreadsDiffer, MirrorTold
<1>5. QED BY <1>1, <1>2, <1>3, <1>4 DEF Serve

\* A link that breaks connects nobody.
LEMMA UnlinkShown ==
  ASSUME TypeInv, NEW c, Unlink(c), clients' = clients, NEW g \in Guis, Connected(g)'
  PROVE  g # c /\ Connected(g)
<1>1. link'[g] = IF c = g THEN 0 ELSE link[g]
  BY DEF Unlink, TypeInv, LinkType, Clients
<1>2. QED BY <1>1 DEF Connected

LEMMA MirrorOutside ==
  ASSUME TypeInv, MirrorInv, Outside
  PROVE  MirrorInv'
<1>1. ASSUME NEW mode \in Modes, Command(mode) PROVE MirrorInv'
  <2> DEFINE told == << Say(ModeMsg(mode)), BroadcastStatus >>
  <2>1. /\ UNCHANGED <<clients, link, gui>> /\ work' = [work EXCEPT ![CliLoop] = told]
        /\ shared'.idi = shared.idi
    BY <1>1 DEF Command, SetMode, wires, TypeInv, ServerType, SharedType
  <2>2. \A g \in Guis : Connected(g)' = Connected(g) /\ gui'[g].balanceOf = gui[g].balanceOf
    BY <2>1 DEF Connected
  <2>3. told \in Seq(Tasks) /\ HasStatus(told) /\ Replies(told)
    BY TellMode, StatusTold
  <2> HIDE DEF told
  <2>4. QED BY <2>1, <2>2, <2>3, ThreadsDiffer, MirrorTold
<1>2. ASSUME NEW c \in Idis \cup {None}, MoveCard(c) PROVE MirrorInv'
  BY <1>2, MirrorCard
<1>3. ASSUME NEW c \in Clients, TerminalConnects(c) PROVE MirrorInv'
  <2>1. c \notin Guis /\ gui' = gui /\ Register(c)
    BY <1>3, ConsoleAssumption DEF TerminalConnects
  <2>2. QED BY <2>1, MirrorRegistered
<1>4. ASSUME NEW c \in Clients, Break(c) PROVE MirrorInv'
  <2>1. UNCHANGED <<server, gui, stale>> /\ clients' = clients /\ Unlink(c)
    BY <1>4 DEF Break, server, history
  <2>2. QED BY <2>1, UnlinkShown, MirrorKept DEF SameShown
<1>5. QED BY <1>1, <1>2, <1>3, <1>4 DEF Outside

\* A step of a GUI that shows the same after it.
LEMMA MirrorSame ==
  ASSUME TypeInv, MirrorInv, UNCHANGED <<server, link, stale>>,
         NEW h \in Guis, NEW u, Gui(h, u), SameShown(u, gui[h])
  PROVE  MirrorInv'
<1>1. \A g \in Guis : SameShown(gui'[g], gui[g])
  BY DEF Gui, SameShown, TypeInv, GuiType
<1>2. \A g \in Guis : Connected(g)' = Connected(g)
  BY DEF Connected, server
<1>3. QED BY <1>1, <1>2, MirrorKept

LEMMA MirrorGui ==
  ASSUME TypeInv, MirrorInv, NEW h \in Guis, WsThread(h) \/ Window(h)
  PROVE  MirrorInv'
<1>1. gui[h] \in GuiRecords /\ h \in Clients
  BY DEF TypeInv, GuiType, Clients
<1>2. CASE Connect(h)
  <2> DEFINE u == [Snapshot(gui[h], clients') EXCEPT !.pc = "up", !.connected = TRUE]
  <2>1. Gui(h, u) /\ Register(h) /\ SharedType /\ IsFiniteSet(clients')
    BY <1>1, <1>2, RegisterType DEF Connect, TypeInv, ServerType, ClientsType
  <2>2. Snapshot(gui[h], clients') \in GuiRecords
    BY <1>1, <2>1, SnapshotType
  <2>3. shared.idi # None => u.balanceOf = shared.idi
    <3>1. u.balanceOf = Snapshot(gui[h], clients').balanceOf
      BY <2>2 DEF GuiRecords
    <3>2. QED BY <1>1, <2>1, <3>1, SnapshotShown
  <2> HIDE DEF u
  <2>4. gui'[h] = u /\ \A g \in Guis : g # h => gui'[g] = gui[g]
    BY <2>1 DEF Gui, TypeInv, GuiType
  <2>5. QED BY <1>1, <2>1, <2>3, <2>4, MirrorRegistered
<1>3. CASE ConnectFails(h) \/ Flush(h) \/ Notice(h) \/ Discard(h) \/ Draw(h)
  <2>1. UNCHANGED <<server, link, stale>>
    BY <1>3 DEF ConnectFails, Flush, Transmit, Notice, Discard, Draw, wires, history
  <2>2. PICK u \in {[gui[h] EXCEPT !.queue = << >>],
                    [gui[h] EXCEPT !.queue = Tail(gui[h].queue)],
                    [gui[h] EXCEPT !.pc = "down", !.connected = FALSE],
                    [gui[h] EXCEPT !.pc = "connect", !.queue = << >>],
                    [gui[h] EXCEPT !.drawn = gui[h].connected]} : Gui(h, u)
    BY <1>3 DEF ConnectFails, Flush, Transmit, Notice, Discard, Draw
  <2>3. SameShown(u, gui[h])
    BY <1>1 DEF SameShown, GuiRecords
  <2>4. QED BY <2>1, <2>2, <2>3, MirrorSame
<1>4. ASSUME NEW mode \in Modes, Click(h, mode) PROVE MirrorInv'
  <2> DEFINE n == gui[h].clicks + 1
             q == Append(gui[h].queue, [mode |-> mode, number |-> n])
             u == [gui[h] EXCEPT !.clicks = n, !.queue = q]
  <2>1. UNCHANGED <<server, link, stale>> /\ Gui(h, u)
    BY <1>4 DEF Click, wires, history
  <2>2. SameShown(u, gui[h])
    <3> HIDE DEF n, q
    <3>1. QED BY <1>1 DEF SameShown, GuiRecords
  <2> HIDE DEF u
  <2>3. QED BY <2>1, <2>2, MirrorSame
<1>5. QED BY <1>2, <1>3, <1>4 DEF WsThread, Window

LEMMA MirrorProcesses ==
  ASSUME TypeInv, MirrorInv, Processes
  PROVE  MirrorInv'
<1>1. ASSUME NEW h \in Guis, StartGui(h) \/ Spawn(h) PROVE MirrorInv'
  <2>1. UNCHANGED <<server, link, stale>>
    BY <1>1 DEF StartGui, Begin, Spawn, wires, history
  <2>2. PICK pc : Gui(h, [gui[h] EXCEPT !.pc = pc])
    BY <1>1 DEF StartGui, Begin, Spawn
  <2>3. gui[h] \in GuiRecords
    BY DEF TypeInv, GuiType
  <2>4. SameShown([gui[h] EXCEPT !.pc = pc], gui[h])
    BY <2>3 DEF SameShown, GuiRecords
  <2>5. QED BY <2>1, <2>2, <2>4, MirrorSame
<1>2. ASSUME NEW h \in Guis, GuiEnds(h) PROVE MirrorInv'
  <2>1. CASE h \in Listening
    BY <1>2, <2>1, MirrorGone DEF GuiEnds, Die
  <2>2. CASE h \notin Listening
    <3>1. UNCHANGED <<server, stale>> /\ clients' = clients /\ Unlink(h)
      BY <1>2, <2>2 DEF GuiEnds, Die, server, history
    <3>2. \A g \in Guis : Connected(g)' => g # h /\ Connected(g)
      BY <3>1, UnlinkShown
    <3>3. \A g \in Guis : g # h => gui'[g] = gui[g]
      BY <1>2 DEF GuiEnds, Gui, TypeInv, GuiType
    <3>4. QED BY <3>1, <3>2, <3>3, MirrorStayed
  <2>3. QED BY <2>1, <2>2
<1>3. ASSUME NEW o \in Owners, Bind(o) PROVE MirrorInv'
  <2>1. UNCHANGED <<server, link, gui, stale>>
    BY <1>3 DEF Bind, BindAs, wires, history
  <2>2. QED BY <2>1, MirrorStayed DEF Connected, server
<1>4. CASE StartExternal
  <2>1. UNCHANGED <<server, link, gui, stale>>
    BY <1>4 DEF StartExternal, wires
  <2>2. QED BY <2>1, MirrorStayed DEF Connected, server
<1>5. CASE ExternalEnds
  <2>1. CASE External \in Listening
    BY <1>5, <2>1, MirrorGone DEF ExternalEnds, Die
  <2>2. CASE External \notin Listening
    <3>1. UNCHANGED <<server, link, gui, stale>>
      BY <1>5, <2>2 DEF ExternalEnds, Die, wires, history
    <3>2. QED BY <3>1, MirrorStayed DEF Connected, server
  <2>3. QED BY <2>1, <2>2
<1>6. QED BY <1>1, <1>2, <1>3, <1>4, <1>5 DEF Processes

LEMMA MirrorInit == Init => MirrorInv
<1> SUFFICES ASSUME Init PROVE MirrorInv
  OBVIOUS
<1>1. clients = {} /\ \A t \in Threads : work[t] = << >>
  BY DEF Init
<1>2. CardWork /\ OtherWork
  BY <1>1, ThreadsDiffer DEF CardWork, OtherWork, Replies
<1>3. \A g \in Guis : ~Connected(g)
  BY <1>1 DEF Connected
<1>4. QED BY <1>2, <1>3 DEF MirrorInv, Shown

LEMMA MirrorStep == TypeInv /\ MirrorInv /\ [Next]_vars => MirrorInv'
<1> SUFFICES ASSUME TypeInv, MirrorInv, [Next]_vars PROVE MirrorInv'
  OBVIOUS
<1>1. CASE UNCHANGED vars
  <2>1. UNCHANGED <<server, link, gui, stale>>
    BY <1>1 DEF vars, wires, history
  <2>2. QED BY <2>1, MirrorStayed DEF Connected, server
<1>2. QED
  BY <1>1, MirrorServe, MirrorOutside, MirrorProcesses, MirrorGui DEF Next

\* Once no thread has anything left to build or to send, a connected GUI shows
\* the daemon's mode, its card and its number of clients, and a balance only
\* next to the card it is of, unless the last status it was sent was out of date
\* when it was sent (facepay.rs:193): for any number of GUIs, terminals, cards,
\* connections and daemons that are replaced.
THEOREM MirrorIsCurrentCorrect == Spec => []MirrorIsCurrent
<1>1. TypeInv /\ MirrorInv => MirrorIsCurrent
  <2> SUFFICES ASSUME MirrorInv, NEW g \in Guis, Quiet(g), ~stale[g]
               PROVE  /\ gui[g].mode = shared.mode /\ gui[g].idi = shared.idi
                      /\ gui[g].clients = Cardinality(clients)
                      /\ gui[g].idi # None => gui[g].balanceOf = gui[g].idi
    BY DEF MirrorIsCurrent
  <2>1. \A t \in Threads : work[t] = << >>
    BY DEF Quiet
  <2>2. ~News /\ work[CardLoop] = << >>
    BY <2>1, ThreadsDiffer DEF News, HasStatus
  <2>3. Shown(g) /\ Connected(g)
    BY DEF MirrorInv, Quiet
  <2>4. QED BY <2>2, <2>3 DEF Shown
<1>2. QED BY <1>1, MirrorInit, MirrorStep, TypeInvariant, PTL DEF Spec
=============================================================================
