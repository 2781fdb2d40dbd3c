----------------------------- MODULE Controller -----------------------------
(***************************************************************************)
(* The controller process: Controller::start and the handlers it calls.    *)
(*                                                                         *)
(* One pass of its loop is Poll (the errno check, and at most one accept)  *)
(* followed by a visit of every client socket.  Each visit is a step of    *)
(* its own, since the switches run meanwhile.                              *)
(*                                                                         *)
(* The pass over the clients is a range-for over a vector from which it    *)
(* erases by position.  `sweep' is what the iteration still has to visit,  *)
(* `index' the position it has counted to.  Erasing moves the later        *)
(* clients one slot forward while the iterator and the end it was given    *)
(* stay: the next client is skipped and the last slot keeps a copy of the  *)
(* last client (Shifted), at a position beyond the end of the vector.      *)
(***************************************************************************)
EXTENDS Transport

CONSTANTS NSwitches,        \* nSwitches of the command line
          ControllerStops   \* whether the user may end the controller

ASSUME NSwitchesAssumption == NSwitches \in Nat \ {0}
ASSUME ControllerStopsAssumption == ControllerStops \in BOOLEAN

VARIABLES
  registry,     \* `switches': what is known of each switch
  clients,      \* clientSocketConnections, in order of acceptance
  switchFDMap,  \* the connections a switch has registered on
  sweep,        \* the slots the current pass still visits; <<>> at the poll
  index,        \* i of the pass, which counts the slots visited; 0 outside it
  stale,        \* errno is set
  total         \* the packet counters of the controller

controllerVars == <<registry, clients, switchFDMap, sweep, index, stale, total>>

Totals == {"rOPEN", "rQUERY", "tACK", "tADD"}

Add(names) ==
  total' = [n \in Totals |-> IF n \in names THEN total[n] + 1 ELSE total[n]]

(* The process ends with q unread; everything it knew is gone.             *)
ControllerGone(q) ==
  /\ CloseController(q)
  /\ registry' = [s \in Switches |-> NotKnown]
  /\ clients' = <<>>
  /\ switchFDMap' = {}
  /\ sweep' = <<>>
  /\ index' = 0
  /\ stale' = FALSE
  /\ total' = [n \in Totals |-> 0]

(***************************************************************************)
(* The top of the loop: exit if a call of the last pass left errno set,    *)
(* otherwise accept the oldest pending connection if the limit allows it,  *)
(* and start the pass over the clients.                                    *)
(***************************************************************************)
PollFails ==
  /\ ctrlUp /\ sweep = <<>> /\ stale
  /\ ControllerGone(up)

(* At most nSwitches sockets are open (HasSpare: a mutant, one too few).   *)
HasSpare == Len(clients) + 1 < NSwitches
HasRoom == Len(clients) + 1 <= NSwitches

Accept ==
  /\ ctrlUp /\ sweep = <<>> /\ ~stale
  /\ pending # <<>> /\ HasRoom
  /\ pending' = Tail(pending)
  /\ clients' = Append(clients, Head(pending))
  /\ sweep' = clients'
  /\ UNCHANGED <<alive, starts, ctrlUp, up, down, reset, fifo, torn, writers,
                 registry, switchFDMap, index, stale, total>>

PollIdle ==
  /\ ctrlUp /\ sweep = <<>> /\ ~stale
  /\ pending = <<>> \/ ~HasRoom
  /\ sweep' = clients
  /\ UNCHANGED <<transportVars, registry, clients, switchFDMap, index, stale, total>>

-----------------------------------------------------------------------------
(* The visit of the slot the iteration has come to.                        *)
Visiting(c) == ctrlUp /\ sweep # <<>> /\ Head(sweep) = c

IsClient(c) == Contains(clients, c)

(* On to the next slot; i is gone when the pass is over.                   *)
GoOn(slots) ==
  /\ sweep' = slots
  /\ index' = IF slots = <<>> THEN 0 ELSE index + 1

(***************************************************************************)
(* send() to a switch that is gone.  The first time nothing tells.  After  *)
(* the reset has come back, send fails and leaves errno set, or SIGPIPE    *)
(* ends the process (ReplyKills).                                          *)
(***************************************************************************)
Reply(c, m) ==
  /\ SendToSwitch(c, m)
  /\ \/ UNCHANGED stale
     \/ reset[c] /\ stale' = TRUE

ReplyKills(c) == reset[c]

(* The test of an id against nSwitches.                                    *)
KnowsId(id) == id <= NSwitches

(***************************************************************************)
(* respondOPENPacket: store the switch, replacing what was known under the *)
(* same id; the controller exits if an id is beyond its limit.             *)
(* RegisterFirst: a mutant that keeps the entry of an earlier OPEN.        *)
(***************************************************************************)
InfoOf(m) == [left |-> m.left, right |-> m.right, low |-> m.low, high |-> m.high]

RegisterFirst(reg, m) ==
  IF reg[m.id] = NotKnown THEN [reg EXCEPT ![m.id] = InfoOf(m)] ELSE reg

Register(reg, m) == [reg EXCEPT ![m.id] = InfoOf(m)]

RespondOPEN(c, m, rest) ==
  LET legal == KnowsId(m.id) /\ KnowsId(m.left) /\ KnowsId(m.right)
  IN \/ /\ legal
        /\ registry' = Register(registry, m)
        /\ switchFDMap' = switchFDMap \cup {c}
        /\ Add({"rOPEN", "tACK"})
        /\ Reply(c, AckMsg)
        /\ up' = rest
        /\ GoOn(Tail(sweep))
        /\ UNCHANGED <<alive, starts, ctrlUp, pending, fifo, torn, writers, clients>>
     \/ ~legal /\ ControllerGone(rest)
     \/ ReplyKills(c) /\ ControllerGone(rest)

(* respondQUERYPacket: answer with the rule makeFlowEntry computes.        *)
RespondQUERY(c, m, rest) ==
  LET loops == SearchLoops(registry, m.id, m.pkt)
  IN \/ /\ ~loops
        /\ Add({"rQUERY", "tADD"})
        /\ Reply(c, AddMsg(MakeFlowEntry(registry, m.id, m.pkt)))
        /\ up' = rest
        /\ GoOn(Tail(sweep))
        /\ UNCHANGED <<alive, starts, ctrlUp, pending, fifo, torn, writers, registry,
                       clients, switchFDMap>>
     \/ loops /\ ControllerGone(rest)
     \/ ReplyKills(c) /\ ControllerGone(rest)

(* check_sock on a socket with data: one recv, one packet.                 *)
Serve(c) ==
  /\ Visiting(c) /\ IsClient(c)
  /\ \E k \in 1 .. Len(up[c]) :
       LET m == Head(up[c])
           rest == [up EXCEPT ![c] = AfterRecv(@, k)]
       IN \/ m.type = "OPEN" /\ RespondOPEN(c, m, rest)
          \/ m.type = "QUERY" /\ RespondQUERY(c, m, rest)

(***************************************************************************)
(* check_sock with nothing to read: recv fails with EAGAIN, the empty text *)
(* parses as no packet, and either way errno ends up 0.  The same happens  *)
(* at a slot whose socket this pass has closed already (EBADF), and at a   *)
(* reset socket the first time, when recv reports the reset.               *)
(***************************************************************************)
NothingToRead(c) ==
  \/ ~IsClient(c)
  \/ up[c] = <<>> /\ (PeerLive(c) \/ reset[c])

VisitIdle(c) ==
  /\ Visiting(c) /\ NothingToRead(c)
  /\ GoOn(Tail(sweep))
  /\ stale' = FALSE
  /\ UNCHANGED <<transportVars, registry, clients, switchFDMap, total>>

(***************************************************************************)
(* recv returned 0: the switch has disconnected.  getpeername fails on a   *)
(* reset socket and leaves errno set.  What is known of the switch stays   *)
(* in the registry.  DisconnectForgets: a mutant that removes it.          *)
(***************************************************************************)
Shifted(slots) ==
  IF Len(slots) = 1 THEN <<>> ELSE Append(Tail(Tail(slots)), slots[Len(slots)])

(***************************************************************************)
(* erase(begin() + i).  If this is not an element (a second client of the  *)
(* pass ends, and it is the copy in the last slot) the effect is undefined *)
(* in C++; the one the build has, with libstdc++, is that nothing is moved *)
(* and the vector gets shorter by its last element.                        *)
(* EraseNext: a mutant that erases at i after i++.                         *)
(***************************************************************************)
EraseNext(q, i) == IF i + 1 < Len(q) THEN RemoveAt(q, i + 2) ELSE Front(q)
Erase(q, i) == IF i < Len(q) THEN RemoveAt(q, i + 1) ELSE Front(q)

(* MSG_PEEK returns 0.  FailedRecv: a mutant that tests for an error.      *)
FailedRecv(c) == up[c] = <<>> /\ ~PeerLive(c) /\ reset[c]
EndOfFile(c) == up[c] = <<>> /\ ~PeerLive(c)

DisconnectForgets(reg, c) == [reg EXCEPT ![c[1]] = NotKnown]
RegistryAfter(reg, c) == reg

Disconnect(c) ==
  /\ Visiting(c) /\ IsClient(c)
  /\ EndOfFile(c)
  /\ clients' = Erase(clients, index)
  /\ GoOn(Shifted(sweep))
  /\ switchFDMap' = switchFDMap \ {c}
  /\ registry' = RegistryAfter(registry, c)
  /\ stale' \in {stale} \cup (IF reset[c] THEN {TRUE} ELSE {})
  /\ CloseConnection(c)
  /\ UNCHANGED <<alive, starts, ctrlUp, pending, down, fifo, torn, writers, total>>

(* The exit command, or a signal that ends the process.                    *)
ControllerExit ==
  /\ ctrlUp /\ ControllerStops
  /\ ControllerGone(up)

ControllerInit ==
  /\ registry = [s \in Switches |-> NotKnown]
  /\ clients = <<>>
  /\ switchFDMap = {}
  /\ sweep = <<>>
  /\ index = 0
  /\ stale = FALSE
  /\ total = [n \in Totals |-> 0]

ControllerTypeOK ==
  /\ registry \in [Switches -> SwitchInfo]
  /\ clients \in Seq(Conn)
  /\ switchFDMap \in SUBSET Conn
  /\ sweep \in Seq(Conn)
  /\ index \in Nat
  /\ stale \in BOOLEAN
  /\ total \in [Totals -> Nat]
=============================================================================
