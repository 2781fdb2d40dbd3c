------------------------------- MODULE A3sdn -------------------------------
(***************************************************************************)
(* The running network: the controller, the switches and the channels      *)
(* between them, with the properties of the whole.                         *)
(***************************************************************************)
EXTENDS Controller, Switch

vars == <<transportVars, controllerVars, switchVars>>

Init == TransportInit /\ ControllerInit /\ SwitchInit

(* What the main loop of the controller does, and that of a switch.        *)
ControllerLoop ==
  \/ PollFails /\ UNCHANGED switchVars
  \/ Accept /\ UNCHANGED switchVars
  \/ PollIdle /\ UNCHANGED switchVars
  \/ \E c \in Conn : \/ Serve(c) /\ UNCHANGED switchVars
                     \/ VisitIdle(c) /\ UNCHANGED switchVars
                     \/ Disconnect(c) /\ UNCHANGED switchVars

SwitchLoop(s) ==
  \/ RecvSock(s) /\ UNCHANGED controllerVars
  \/ ResolveStep(s) /\ UNCHANGED controllerVars
  \/ SockIdle(s) /\ UNCHANGED controllerVars
  \/ ControllerLost(s) /\ UNCHANGED controllerVars
  \/ \E n \in Switches : \/ RecvRELAY(s, n) /\ UNCHANGED controllerVars
                         \/ RecvTorn(s, n) /\ UNCHANGED controllerVars

(* What may or may not happen: the errno of an earlier read, the traffic   *)
(* file, the user.                                                         *)
Environment(s) ==
  \/ \E n \in Switches : RecvRELAYFails(s, n) /\ UNCHANGED controllerVars
  \/ ReadTraffic(s) /\ UNCHANGED controllerVars
  \/ Start(s) /\ UNCHANGED controllerVars
  \/ Exit(s) /\ UNCHANGED controllerVars

Next ==
  \/ ControllerLoop
  \/ ControllerExit /\ UNCHANGED switchVars
  \/ \E s \in Switches : SwitchLoop(s) \/ Environment(s)

(***************************************************************************)
(* Both main loops poll without end and look at every source in each pass, *)
(* so a source with data is read at some time, and the controller's pass   *)
(* goes on.  A reset socket reports the reset once and end-of-file from    *)
(* then on, so the disconnection is not put off for ever: strong fairness  *)
(* for Disconnect.  Nothing makes the user start or end a process or a     *)
(* traffic file go on.                                                     *)
(***************************************************************************)
Fairness ==
  /\ WF_vars(ControllerLoop)
  /\ \A c \in Conn : SF_vars(Disconnect(c) /\ UNCHANGED switchVars)
  /\ \A s \in Switches : WF_vars(SwitchLoop(s))

Spec == Init /\ [][Next]_vars
FairSpec == Spec /\ Fairness

-----------------------------------------------------------------------------
(* Types of all state, with the bounds of the two positions: the resolve   *)
(* loop stays inside the vector it walks, a sweep visits accepted sockets. *)
TypeOK == TransportTypeOK /\ ControllerTypeOK /\ SwitchTypeOK

(***************************************************************************)
(* A packet waits in unsolvedPackets only as long as no rule of the table  *)
(* matches it: whenever a rule is added every parked packet is looked at   *)
(* again, and none is skipped when the loop erases (resolveUnsolvedPackets,*)
(* sendQUERYPacket).  Inside the loop this is true of the part done.       *)
(***************************************************************************)
UnsolvedUnmatched ==
  \A s \in Switches : \A j \in 1 .. Len(unsolved[s]) :
    iter[s] = 0 \/ j < iter[s] =>
      \A i \in 1 .. Len(table[s]) : ~Matches(table[s][i], unsolved[s][j])

(***************************************************************************)
(* A QUERY is only ever handled for a registered switch, although the OPEN *)
(* and later packets may arrive together, connections of one switch may    *)
(* overlap and a disconnection may be noticed late: the branch "attempted  *)
(* to make FlowEntry for unexpected switch" of makeFlowEntry is dead.      *)
(***************************************************************************)
QueryFromRegistered ==
  \A c \in Conn :
    up[c] # <<>> /\ Head(up[c]).type = "QUERY" =>
      registry[c[1]] # NotKnown /\ c \in switchFDMap

(***************************************************************************)
(* A switch that has been acknowledged is known to the controller with the *)
(* range it actually serves, whatever its earlier processes announced      *)
(* (respondOPENPacket replaces the entry; the sweep reads an older         *)
(* connection of the same switch first).                                   *)
(***************************************************************************)
RegistryCurrent ==
  \A s \in Switches :
    ctrlUp /\ alive[s] /\ Current(s) \in switchFDMap =>
      /\ registry[s].low = table[s][1].dstLow
      /\ registry[s].high = table[s][1].dstHigh

(***************************************************************************)
(* Whatever errors the erasing inside the range-for makes in the order of  *)
(* visits, no socket is lost or closed twice: the clients are distinct, a  *)
(* live switch stays a client or waits to be accepted, the clients never   *)
(* exceed the limit, and switchFDMap names clients only.                   *)
(***************************************************************************)
ClientsConsistent ==
  /\ \A i, j \in 1 .. Len(clients) : clients[i] = clients[j] => i = j
  /\ Len(clients) <= NSwitches
  /\ \A c \in switchFDMap : IsClient(c)
  /\ \A s \in Switches :
       ctrlUp /\ alive[s] => IsClient(Current(s)) # Contains(pending, Current(s))

(***************************************************************************)
(* The first rule of a live switch is the initial one, whatever is added   *)
(* to the table, so that a valid packet for its own range is admitted: it  *)
(* is never parked, asked about or relayed.                                *)
(***************************************************************************)
Owns(s, p) ==
  p.src <= MAX_IP /\ table[s][1].dstLow <= p.dst /\ p.dst <= table[s][1].dstHigh

OwnTrafficStays ==
  \A s \in Switches : alive[s] =>
    /\ table[s] # <<>>
    /\ IsLocal(table[s][1])
    /\ \A j \in 1 .. Len(unsolved[s]) : ~Owns(s, unsolved[s][j])
    /\ \A i \in 1 .. Len(up[Current(s)]) :
         LET m == up[Current(s)][i]
         IN m.type = "QUERY" => ~Owns(s, m.pkt)

(***************************************************************************)
(* A live switch admits packets of its own range and no others, although   *)
(* rules to DELIVER come from the controller, which computes them from the *)
(* range it has registered: that one is never the range of an earlier      *)
(* process of the switch (makeFlowEntry, respondOPENPacket).               *)
(***************************************************************************)
AdmittedIsOwn ==
  \A s \in Switches : alive[s] =>
    \A i \in 1 .. Len(table[s]) : IsLocal(table[s][i]) =>
      /\ table[s][1].dstLow <= table[s][i].dstLow
      /\ table[s][i].dstHigh <= table[s][1].dstHigh

(***************************************************************************)
(* A rule that forwards to a neighbour is only sent to, and held by, a     *)
(* switch that has this neighbour: a RELAY never disappears in the dummy   *)
(* connection (makeFlowEntry tests isNullSwitchID).                        *)
(***************************************************************************)
RelayPortExists(s, r) == IsRelay(r) => Neighbour(s, r.actionVal) # Null

ForwardPortExists ==
  /\ \A s \in Switches : \A i \in 1 .. Len(table[s]) :
       RelayPortExists(s, table[s][i])
  /\ \A c \in Conn : \A i \in 1 .. Len(down[c]) :
       down[c][i].type = "ADD" => RelayPortExists(c[1], down[c][i].rule)

(* No two rules of a flow table are equal up to their counters, although   *)
(* several QUERYs for one destination may be on the way (respondADDPacket).*)
NoDuplicateRules ==
  \A s \in Switches : \A i, j \in 1 .. Len(table[s]) :
    i # j => [table[s][i] EXCEPT !.pktCount = 0] # [table[s][j] EXCEPT !.pktCount = 0]

-----------------------------------------------------------------------------
(***************************************************************************)
(* The controller answers each message at most once: on the connection of  *)
(* a live switch, what it has received, the answers on the way and the     *)
(* messages that may still be answered never exceed what the switch has    *)
(* sent, although one recv may take several of them (check_sock,           *)
(* getMessage, respondQUERYPacket).                                        *)
(***************************************************************************)
AnswersBounded ==
  \A s \in Switches : alive[s] =>
    count[s]["rACK"] + count[s]["rADD"] + Len(down[Current(s)]) + Len(up[Current(s)])
      <= count[s]["tOPEN"] + count[s]["tQUERY"]

(* The counters of the rules of s that satisfy `which', added up.          *)
SumTo(f) ==
  LET Sum[i \in 0 .. Len(f)] == IF i = 0 THEN 0 ELSE Sum[i - 1] + f[i]
  IN Sum

Total(f) == SumTo(f)[Len(f)]

PktCount(s, which(_)) ==
  Total([i \in 1 .. Len(table[s]) |->
           IF which(table[s][i]) THEN table[s][i].pktCount ELSE 0])

(***************************************************************************)
(* What `list' prints of a switch adds up.  The counters of the rules      *)
(* explain ADMIT and RELAYOUT, and every header that was read from the     *)
(* traffic file or a pipe is counted by a rule or still parked: none is    *)
(* handled twice and none is forgotten by the switch that holds it.        *)
(***************************************************************************)
AnyRule(r) == TRUE

ListingAddsUp ==
  \A s \in Switches :
    /\ count[s]["ADMIT"] = PktCount(s, IsLocal)
    /\ count[s]["tRELAY"] = PktCount(s, IsRelay)
    /\ lines[s] + count[s]["rRELAY"] = PktCount(s, AnyRule) + Len(unsolved[s])

-----------------------------------------------------------------------------
(***************************************************************************)
(* In a line of switches whose ranges do not overlap, whichever of its own *)
(* a switch is started with, a RELAY in a pipe goes towards the one switch *)
(* that may serve its destination: no hop, and no rule made at another     *)
(* time, ever turns it round, so it does not circle (makeFlowEntry).       *)
(***************************************************************************)
MayServe(s, dst) == \E range \in Ranges[s] : range.low <= dst /\ dst <= range.high

Ahead(e, t) == IF e[2] = Left[e[1]] THEN t <= e[2] ELSE t >= e[2]

NoBounce ==
  \A e \in Links : \A i \in 1 .. Len(fifo[e]) :
    LET servers == {t \in Switches : MayServe(t, fifo[e][i].dst)}
    IN servers # {} /\ \A t \in servers : Ahead(e, t)

-----------------------------------------------------------------------------
(***************************************************************************)
(* Every switch that has sent OPEN is acknowledged, unless it or the       *)
(* controller ends first, or the ACK comes in a pass in which a RELAY that *)
(* was cut has left EINVAL.  OPEN and ACK are the first packets of their   *)
(* direction, so nothing else costs them (check_sock, getMessage).         *)
(***************************************************************************)
OpenOnItsWay(s) ==
  \E i \in 1 .. Len(up[Current(s)]) : up[Current(s)][i].type = "OPEN"

EverySwitchAcked ==
  \A s \in Switches :
    alive[s] /\ OpenOnItsWay(s)
      ~> \/ count[s]["rACK"] > 0 \/ ~alive[s] \/ ~ctrlUp
         \/ einval[s] # Null /\ down[Current(s)] # <<>>

(* When the controller is gone every switch ends.                          *)
SwitchesFollowController == ~ctrlUp ~> \A s \in Switches : ~alive[s]

(* A connection whose switch is gone is closed and makes room for another. *)
DeadClientsLeave ==
  \A c \in Conn : IsClient(c) /\ ~PeerLive(c) ~> ~IsClient(c)

-----------------------------------------------------------------------------
(***************************************************************************)
(* What the documentation and the comments say and the code does not do;   *)
(* the runs that check these find them violated.                           *)
(***************************************************************************)

(* README.md:17 requires that switches may disconnect and the network still*)
(* operates.  The controller, which nobody ends, should be up.             *)
ControllerSurvives == ctrlUp

(* switch.cpp:261: after the traffic file the program continues to process *)
(* the packets of its neighbours.  A switch nobody ends should stay alive  *)
(* as long as the controller does (check_connection, openSendFIFO).        *)
SwitchesSurvive == \A s \in Switches : ctrlUp /\ starts[s] > 0 => alive[s]

(* switch.cpp:485: the packet of a QUERY is put into unsolvedPackets to be *)
(* solved later (sendQUERYPacket, getMessage).                             *)
ParkedIsSolved ==
  \A s \in Switches :
    unsolved[s] # <<>> ~> unsolved[s] = <<>> \/ ~alive[s] \/ ~ctrlUp

(* switch.cpp:277: the switch handles each incoming packet.  What leaves a *)
(* pipe while its reader goes on has been counted as a received RELAY.     *)
EachRelayHandled ==
  [][\A e \in Links :
       alive[e[2]] /\ alive'[e[2]] /\ Len(fifo'[e]) < Len(fifo[e]) =>
         count'[e[2]]["rRELAY"] - count[e[2]]["rRELAY"] = Len(fifo[e]) - Len(fifo'[e])]_vars
=============================================================================
