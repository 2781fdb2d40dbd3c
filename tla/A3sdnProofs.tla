---------------------------- MODULE A3sdnProofs ----------------------------
(*************************************************************************)
(* Type correctness and safety of the running network for every value of *)
(* the constants. TypeOK is inductive by itself; there is one lemma per  *)
(* action, or per pair of an action and the helper it calls. The safety  *)
(* proofs share two case distinctions: SwitchStep lists all that a step  *)
(* of the network can do to one switch, and ChannelStep all that it can  *)
(* do to the messages and the registry.                                  *)
(*************************************************************************)
EXTENDS A3sdn, RoutingProofs

-----------------------------------------------------------------------------
(* A running switch has the connection of its last start.                *)
LEMMA CurrentConn ==
  ASSUME TransportTypeOK, NEW s \in Switches, alive[s]
  PROVE  Current(s) \in Conn
BY MaxStartsAssumption DEF TransportTypeOK, Current, Conn

(* What a read or recv of k messages leaves is a queue of the same kind, *)
(* and so is a vector that has lost its last element.                    *)
LEMMA RecvType ==
  ASSUME NEW T, NEW q \in Seq(T), NEW k \in Nat
  PROVE  AfterRecv(q, k) \in Seq(T)
<1>1. CASE k + 1 \in 1 .. Len(q) + 1
  BY <1>1, SubSeqProperties DEF AfterRecv
<1>2. CASE k + 1 \notin 1 .. Len(q) + 1
  <2>1. AfterRecv(q, k) = <<>>
    BY <1>2 DEF AfterRecv
  <2> QED BY <2>1
<1> QED BY <1>1, <1>2

LEMMA FrontType ==
  ASSUME NEW T, NEW q \in Seq(T)
  PROVE  Front(q) \in Seq(T)
<1>1. CASE q = <<>>
  <2>1. Front(q) = SubSeq(q, 1, 0)
    BY <1>1 DEF Front
  <2> QED BY <2>1
<1>2. CASE q # <<>>
  <2>1. PICK n \in Nat : n = Len(q)
    OBVIOUS
  <2>2. n # 0
    BY <1>2, <2>1, EmptySeq
  <2>3. n - 1 \in Nat /\ n - 1 <= n
    BY <2>2
  <2>4. SubSeq(q, 1, n - 1) \in Seq(T)
    BY <2>1, <2>3, SubSeqProperties
  <2> QED BY <2>1, <2>4 DEF Front
<1> QED BY <1>1, <1>2

(* Types are kept when the kernel closes what a switch process had open. *)
LEMMA CloseSwitchType ==
  ASSUME TransportTypeOK, NEW s \in Switches, alive[s], CloseSwitch(s)
  PROVE  TransportTypeOK'
<1>1. Current(s) \in Conn
  BY CurrentConn DEF TransportTypeOK
<1>2. alive' \in [Switches -> BOOLEAN] /\ \A t \in Switches : alive'[t] => starts[t] > 0
  BY DEF CloseSwitch, TransportTypeOK
<1>3. down' \in [Conn -> Seq(ToSwitch)] /\ reset' \in [Conn -> BOOLEAN]
  BY <1>1 DEF CloseSwitch, TransportTypeOK
<1>4. fifo' \in [Links -> Seq(Packet)]
  BY DEF CloseSwitch, TransportTypeOK
<1>5. torn' \in SUBSET Links /\ writers' \in SUBSET Links
  BY DEF CloseSwitch, TransportTypeOK
<1> QED BY <1>2, <1>3, <1>4, <1>5 DEF CloseSwitch, TransportTypeOK

(* Types are kept when a switch process ends, however it ends.           *)
LEMMA SwitchGoneType ==
  ASSUME TransportTypeOK, SwitchTypeOK, NEW s \in Switches, alive[s], SwitchGone(s)
  PROVE  TransportTypeOK' /\ SwitchTypeOK'
<1>1. TransportTypeOK'
  BY CloseSwitchType DEF SwitchGone
<1>2. SwitchTypeOK'
  BY MaxLinesAssumption DEF SwitchTypeOK, SwitchGone, Zero
<1> QED BY <1>1, <1>2

(* Types are kept when the controller process ends, however it ends.     *)
LEMMA ControllerGoneType ==
  ASSUME TransportTypeOK, NEW q, ControllerGone(q)
  PROVE  TransportTypeOK' /\ ControllerTypeOK'
<1>1. TransportTypeOK'
  <2>1. reset' \in [Conn -> BOOLEAN]
    BY DEF ControllerGone, CloseController
  <2>2. pending' \in Seq(Conn) /\ up' \in [Conn -> Seq(ToController)]
    BY DEF ControllerGone, CloseController
  <2> QED BY <2>1, <2>2 DEF TransportTypeOK, ControllerGone, CloseController
<1>2. ControllerTypeOK'
  <2>1. NotKnown \in SwitchInfo
    BY DEF NotKnown, SwitchInfo, Null
  <2>2. registry' \in [Switches -> SwitchInfo] /\ total' \in [Totals -> Nat]
    BY <2>1 DEF ControllerGone
  <2>3. clients' \in Seq(Conn) /\ sweep' \in Seq(Conn)
    BY DEF ControllerGone
  <2> QED BY <2>2, <2>3 DEF ControllerTypeOK, ControllerGone
<1> QED BY <1>1, <1>2

-----------------------------------------------------------------------------
(* Types are kept when resolvePacket handles a packet that rule i        *)
(* matches: it counts, admits, relays or drops.                          *)
LEMMA ApplyType ==
  ASSUME TransportTypeOK, SwitchTypeOK,
         NEW s \in Switches, NEW p \in Packet, NEW i \in 1 .. Len(table[s]),
         NEW seen, NEW f \in [Links -> Seq(Packet)], Apply(s, p, i, seen, f)
  PROVE  /\ table' \in [Switches -> Seq(Rule)]
         /\ count' \in [Switches -> [Counts -> Nat]]
         /\ fifo' \in [Links -> Seq(Packet)]
         /\ writers' \in SUBSET Links
<1>1. table' \in [Switches -> Seq(Rule)]
  <2>1. Counted(table[s], i) \in Seq(Rule)
    <3>1. table[s][i] \in Rule
      BY DEF SwitchTypeOK
    <3>2. [table[s][i] EXCEPT !.pktCount = @ + 1] \in Rule
      BY <3>1 DEF Rule
    <3> QED BY <3>2, ExceptSeq DEF Counted, SwitchTypeOK
  <2> QED BY <2>1 DEF Apply, SwitchTypeOK
<1>2. count' \in [Switches -> [Counts -> Nat]]
  <2>1. PICK names : Bump(s, names)
    BY DEF Apply
  <2> QED BY <2>1 DEF Bump, SwitchTypeOK
<1>3. fifo' \in [Links -> Seq(Packet)] /\ writers' \in SUBSET Links
  <2> DEFINE e == <<s, Neighbour(s, table[s][i].actionVal)>>
  <2>1. CASE WriteFifo(e, p, f)
    <3>1. HasReader(e) => e \in Links
      BY DEF HasReader, Links
    <3> HIDE DEF e
    <3>2. CASE HasReader(e)
      <4>1. fifo' = [f EXCEPT ![e] = Append(@, p)] /\ writers' = writers \cup {e}
        BY <2>1, <3>2 DEF WriteFifo
      <4> QED BY <3>1, <3>2, <4>1 DEF TransportTypeOK
    <3>3. CASE ~HasReader(e)
      BY <2>1, <3>3 DEF WriteFifo, TransportTypeOK
    <3> QED BY <3>2, <3>3
  <2>2. CASE fifo' = f /\ UNCHANGED writers
    BY <2>2 DEF TransportTypeOK
  <2> QED BY <2>1, <2>2 DEF Apply
<1> QED BY <1>1, <1>2, <1>3

(*************************************************************************)
(* Types are kept when a packet is resolved or, for want of a rule,      *)
(* asked about and parked; only the parked packets of s change, and none *)
(* is removed.                                                           *)
(*************************************************************************)
LEMMA ResolveOrAskType ==
  ASSUME TransportTypeOK, SwitchTypeOK, NEW s \in Switches, alive[s],
         NEW p \in Packet, NEW seen, NEW f \in [Links -> Seq(Packet)],
         ResolveOrAsk(s, p, seen, f)
  PROVE  /\ table' \in [Switches -> Seq(Rule)]
         /\ unsolved' \in [Switches -> Seq(Packet)]
         /\ Len(unsolved[s]) <= Len(unsolved'[s])
         /\ \A t \in Switches \ {s} : unsolved'[t] = unsolved[t]
         /\ count' \in [Switches -> [Counts -> Nat]]
         /\ fifo' \in [Links -> Seq(Packet)]
         /\ writers' \in SUBSET Links
         /\ up' \in [Conn -> Seq(ToController)]
         /\ reset' \in [Conn -> BOOLEAN]
<1> DEFINE i == FlowEntryIndex(table[s], p)
<1>1. table[s] \in Seq(Rule) /\ unsolved[s] \in Seq(Packet)
  BY DEF SwitchTypeOK
<1>2. i \in 0 .. Len(table[s])
  BY <1>1, FirstMatch
<1> HIDE DEF i
<1>3. CASE i > 0 /\ Apply(s, p, i, seen, f) /\ UNCHANGED <<unsolved, up, reset>>
  <2>1. i \in 1 .. Len(table[s])
    BY <1>1, <1>2, <1>3
  <2>2. /\ table' \in [Switches -> Seq(Rule)]
        /\ count' \in [Switches -> [Counts -> Nat]]
        /\ fifo' \in [Links -> Seq(Packet)]
        /\ writers' \in SUBSET Links
    BY <1>3, <2>1, ApplyType
  <2>3. /\ unsolved' \in [Switches -> Seq(Packet)]
        /\ Len(unsolved[s]) <= Len(unsolved'[s])
        /\ \A t \in Switches \ {s} : unsolved'[t] = unsolved[t]
    BY <1>1, <1>3 DEF SwitchTypeOK
  <2>4. up' \in [Conn -> Seq(ToController)] /\ reset' \in [Conn -> BOOLEAN]
    BY <1>3 DEF TransportTypeOK
  <2> QED BY <2>2, <2>3, <2>4
<1>4. CASE i = 0 /\ SendQUERY(s, p, seen, f)
  <2>1. /\ unsolved' = [unsolved EXCEPT ![s] = Append(@, p)]
        /\ fifo' = f /\ UNCHANGED <<table, writers>>
        /\ SendToController(Current(s), QueryMsg(s, p))
        /\ Bump(s, seen \cup {"tQUERY"})
    BY <1>4 DEF SendQUERY, Park
  <2>2. /\ unsolved' \in [Switches -> Seq(Packet)]
        /\ Len(unsolved[s]) <= Len(unsolved'[s])
        /\ \A t \in Switches \ {s} : unsolved'[t] = unsolved[t]
    BY <1>1, <2>1 DEF SwitchTypeOK
  <2>3. count' \in [Switches -> [Counts -> Nat]]
    BY <2>1 DEF Bump, SwitchTypeOK
  <2>4. up' \in [Conn -> Seq(ToController)] /\ reset' \in [Conn -> BOOLEAN]
    <3> DEFINE c == Current(s)
               m == QueryMsg(s, p)
    <3>1. m \in ToController
      BY DEF QueryMsg, ToController
    <3>2. c \in Conn
      BY CurrentConn
    <3>3. SendToController(c, m)
      BY <2>1
    <3> HIDE DEF c, m
    <3>4. CASE up' = [up EXCEPT ![c] = Append(@, m)] /\ UNCHANGED reset
      BY <3>1, <3>2, <3>4 DEF TransportTypeOK
    <3>5. CASE reset' = [reset EXCEPT ![c] = TRUE] /\ UNCHANGED up
      BY <3>2, <3>5 DEF TransportTypeOK
    <3> QED BY <3>3, <3>4, <3>5 DEF SendToController
  <2> QED BY <2>1, <2>2, <2>3, <2>4 DEF SwitchTypeOK, TransportTypeOK
<1> QED BY <1>3, <1>4 DEF ResolveOrAsk, i

(* Types are kept by a read of a pipe, whatever it takes.                *)
LEMMA ReadType ==
  ASSUME TransportTypeOK, NEW e \in Links, NEW k \in Nat
  PROVE  /\ AfterRead(e, k) \in [Links -> Seq(Packet)]
         /\ torn' \in TornAfter(e, k) => torn' \in SUBSET Links
<1>1. fifo[e] \in Seq(Packet)
  BY DEF TransportTypeOK
<1>2. AfterRecv(fifo[e], k) \in Seq(Packet)
  BY <1>1, RecvType
<1>3. AfterRead(e, k) \in [Links -> Seq(Packet)]
  BY <1>2 DEF AfterRead, TransportTypeOK
<1>4. torn \in SUBSET Links
  BY DEF TransportTypeOK
<1>5. torn' \in TornAfter(e, k) => torn' \in {torn \ {e}, torn \cup {e}}
  BY DEF TornAfter
<1> QED BY <1>3, <1>4, <1>5

(* Types are kept by check_connection, which reads a pipe and handles a  *)
(* RELAY.                                                                *)
LEMMA RecvRELAYType ==
  ASSUME TransportTypeOK, SwitchTypeOK, NEW s \in Switches, NEW n \in Switches,
         RecvRELAY(s, n)
  PROVE  TransportTypeOK' /\ SwitchTypeOK'
<1> DEFINE e == <<n, s>>
           p == Head(fifo[e])
           f == AfterRead(e, RelaysPerRead)
<1>1. e \in Links /\ alive[s] /\ iter[s] = 0
  BY DEF RecvRELAY, CanRead, Polling, Links
<1>2. p \in Packet
  <2>1. fifo[e] # <<>> /\ fifo[e] \in Seq(Packet)
    BY <1>1 DEF RecvRELAY, CanRead, TransportTypeOK
  <2> QED BY <2>1
<1>3. RelaysPerRead \in Nat /\ f \in [Links -> Seq(Packet)]
  BY <1>1, ReadType, RelaysPerReadAssumption
<1> HIDE DEF e, p, f
<1>4. CASE /\ ResolveOrAsk(s, p, {"rRELAY"}, f)
           /\ torn' \in TornAfter(e, RelaysPerRead)
           /\ einval' = [einval EXCEPT ![s] = IF Forwards(s, p) THEN Null ELSE @]
           /\ UNCHANGED <<alive, starts, ctrlUp, pending, down, iter, lines>>
  <2>1. ResolveOrAsk(s, p, {"rRELAY"}, f)
    BY <1>4
  <2>2. /\ table' \in [Switches -> Seq(Rule)]
        /\ unsolved' \in [Switches -> Seq(Packet)]
        /\ \A t \in Switches \ {s} : unsolved'[t] = unsolved[t]
        /\ count' \in [Switches -> [Counts -> Nat]]
        /\ fifo' \in [Links -> Seq(Packet)]
        /\ writers' \in SUBSET Links
        /\ up' \in [Conn -> Seq(ToController)]
        /\ reset' \in [Conn -> BOOLEAN]
    BY <1>1, <1>2, <1>3, <2>1, ResolveOrAskType
  <2>5. torn' \in SUBSET Links
    BY <1>1, <1>3, <1>4, ReadType
  <2>6. einval' \in [Switches -> Switches \cup {Null}]
    BY <1>4 DEF SwitchTypeOK
  <2>3. TransportTypeOK'
    BY <1>4, <2>2, <2>5 DEF TransportTypeOK
  <2>4. \A t \in Switches : iter'[t] <= Len(unsolved'[t])
    <3>1. ASSUME NEW t \in Switches \ {s} PROVE iter'[t] <= Len(unsolved'[t])
      BY <1>4, <2>2 DEF SwitchTypeOK
    <3>2. iter'[s] <= Len(unsolved'[s])
      <4>1. iter'[s] = 0 /\ unsolved'[s] \in Seq(Packet)
        BY <1>1, <1>4, <2>2
      <4> QED BY <4>1
    <3> QED BY <3>1, <3>2
  <2> QED BY <1>4, <2>2, <2>3, <2>4, <2>6 DEF SwitchTypeOK
<1>5. CASE SwitchGone(s)
  BY <1>1, <1>5, SwitchGoneType
<1> QED BY <1>4, <1>5 DEF RecvRELAY, e, p, f

(* Types are kept by a read that starts inside a packet, and by a visit  *)
(* of the socket that has nothing to read.                               *)
LEMMA RecvTornType ==
  ASSUME TransportTypeOK, SwitchTypeOK, NEW s \in Switches,
         SockIdle(s) \/ \E n \in Switches : RecvTorn(s, n)
  PROVE  TransportTypeOK' /\ SwitchTypeOK'
<1>1. CASE SockIdle(s)
  BY <1>1 DEF SockIdle, TransportTypeOK, SwitchTypeOK, transportVars
<1>2. ASSUME NEW n \in Switches, RecvTorn(s, n) PROVE TransportTypeOK' /\ SwitchTypeOK'
  <2>1. PICK k \in {RelaysPerRead, RelaysPerRead + 1} :
          fifo' = AfterRead(<<n, s>>, k) /\ torn' \in TornAfter(<<n, s>>, k)
    BY <1>2 DEF RecvTorn
  <2>2. k \in Nat /\ <<n, s>> \in Links
    BY RelaysPerReadAssumption DEF Links
  <2>3. fifo' \in [Links -> Seq(Packet)] /\ torn' \in SUBSET Links
    BY <2>1, <2>2, ReadType
  <2>4. einval' \in [Switches -> Switches \cup {Null}]
    BY <1>2 DEF RecvTorn, SwitchTypeOK
  <2> QED BY <1>2, <2>3, <2>4 DEF RecvTorn, TransportTypeOK, SwitchTypeOK
<1> QED BY <1>1, <1>2

(* Types are kept by check_trafficFile for a line that names the switch. *)
LEMMA ReadTrafficType ==
  ASSUME TransportTypeOK, SwitchTypeOK, NEW s \in Switches, ReadTraffic(s)
  PROVE  TransportTypeOK' /\ SwitchTypeOK'
<1>1. alive[s] /\ iter[s] = 0 /\ lines[s] < MaxLines
  BY DEF ReadTraffic, Polling
<1>2. PICK p \in Traffic[s] :
        \/ /\ ResolveOrAsk(s, p, {}, fifo)
           /\ lines' = [lines EXCEPT ![s] = @ + 1]
           /\ UNCHANGED <<alive, starts, ctrlUp, pending, down, torn, iter, einval>>
        \/ SwitchGone(s)
  BY DEF ReadTraffic
<1>3. p \in Packet
  BY TrafficAssumption
<1>4. CASE /\ ResolveOrAsk(s, p, {}, fifo)
           /\ lines' = [lines EXCEPT ![s] = @ + 1]
           /\ UNCHANGED <<alive, starts, ctrlUp, pending, down, torn, iter, einval>>
  <2>1. /\ table' \in [Switches -> Seq(Rule)]
        /\ unsolved' \in [Switches -> Seq(Packet)]
        /\ \A t \in Switches \ {s} : unsolved'[t] = unsolved[t]
        /\ count' \in [Switches -> [Counts -> Nat]]
        /\ fifo' \in [Links -> Seq(Packet)]
        /\ writers' \in SUBSET Links
        /\ up' \in [Conn -> Seq(ToController)]
        /\ reset' \in [Conn -> BOOLEAN]
    <3>1. fifo \in [Links -> Seq(Packet)]
      BY DEF TransportTypeOK
    <3> QED BY <1>1, <1>3, <1>4, <3>1, ResolveOrAskType
  <2>2. lines' \in [Switches -> 0 .. MaxLines]
    BY <1>1, <1>4, MaxLinesAssumption DEF SwitchTypeOK
  <2>3. TransportTypeOK'
    BY <1>4, <2>1 DEF TransportTypeOK
  <2>4. \A t \in Switches : iter'[t] <= Len(unsolved'[t])
    <3>1. ASSUME NEW t \in Switches \ {s} PROVE iter'[t] <= Len(unsolved'[t])
      BY <1>4, <2>1 DEF SwitchTypeOK
    <3>2. iter'[s] <= Len(unsolved'[s])
      <4>1. iter'[s] = 0 /\ unsolved'[s] \in Seq(Packet)
        BY <1>1, <1>4, <2>1
      <4> QED BY <4>1
    <3> QED BY <3>1, <3>2
  <2> QED BY <1>4, <2>1, <2>2, <2>3, <2>4 DEF SwitchTypeOK
<1>5. CASE SwitchGone(s)
  BY <1>1, <1>5, SwitchGoneType
<1> QED BY <1>2, <1>4, <1>5

(* Types are kept when a switch starts: initial rule, connection, OPEN.  *)
LEMMA StartType ==
  ASSUME TransportTypeOK, SwitchTypeOK, NEW s \in Switches, Start(s)
  PROVE  TransportTypeOK' /\ SwitchTypeOK'
<1> DEFINE c == <<s, starts[s] + 1>>
<1>1. PICK range \in Ranges[s] :
        /\ alive' = [alive EXCEPT ![s] = TRUE]
        /\ starts' = [starts EXCEPT ![s] = @ + 1]
        /\ pending' = Append(pending, c)
        /\ up' = [up EXCEPT ![c] = <<OpenMsg(s, range)>>]
        /\ table' = [table EXCEPT ![s] = <<InitRule(range)>>]
        /\ Bump(s, {"tOPEN"})
  BY DEF Start
<1>2. /\ starts[s] < MaxStarts
      /\ UNCHANGED <<ctrlUp, down, reset, fifo, torn, writers, unsolved, iter, lines, einval>>
  BY DEF Start
<1>3. c \in Conn
  BY <1>2, MaxStartsAssumption DEF TransportTypeOK, Conn
<1>4. range \in IPRange
  BY RangesAssumption
<1>5. range.low \in Nat /\ range.high \in Nat
  BY <1>4, MaxIPAssumption DEF IPRange, MIN_IP
<1>6. OpenMsg(s, range) \in ToController
  BY <1>5, NeighbourAssumption DEF OpenMsg, ToController
<1>7. InitRule(range) \in Rule
  BY <1>5 DEF InitRule, NewRule, Rule, DELIVER, FORWARD, DROP, PORT_0, PORT_3
<1> HIDE DEF c
<1>8. TransportTypeOK'
  BY <1>1, <1>2, <1>3, <1>6, MaxStartsAssumption DEF TransportTypeOK
<1>9. SwitchTypeOK'
  BY <1>1, <1>2, <1>7 DEF SwitchTypeOK, Bump
<1> QED BY <1>8, <1>9

(* Types are kept by check_sock of a switch: an ADD starts               *)
(* resolveUnsolvedPackets within the vector it is to walk.               *)
LEMMA RecvSockType ==
  ASSUME TransportTypeOK, SwitchTypeOK, NEW s \in Switches, RecvSock(s)
  PROVE  TransportTypeOK' /\ SwitchTypeOK'
<1> DEFINE c == Current(s)
           m == Head(down[c])
<1>1. c \in Conn /\ down[c] \in Seq(ToSwitch)
  BY CurrentConn DEF RecvSock, Polling, TransportTypeOK
<1>2. PICK k \in 1 .. Len(down[c]) :
        /\ down' = [down EXCEPT ![c] = AfterRecv(@, k)]
        /\ \/ m.type = "ADD" /\ RespondADD(s, m)
           \/ m.type = "ACK" /\ RespondACK(s)
           \/ UNCHANGED <<table, iter, count>>
  BY DEF RecvSock
<1>3. UNCHANGED <<alive, starts, ctrlUp, pending, up, reset, fifo, torn, writers,
                  unsolved, lines>>
  BY DEF RecvSock
<1>9. einval' \in [Switches -> Switches \cup {Null}]
  BY DEF RecvSock, SwitchTypeOK
<1>4. m \in ToSwitch
  BY <1>1, <1>2
<1>5. AfterRecv(down[c], k) \in Seq(ToSwitch)
  BY <1>1, <1>2 DEF AfterRecv
<1> HIDE DEF c, m
<1>6. TransportTypeOK'
  BY <1>1, <1>2, <1>3, <1>5 DEF TransportTypeOK
<1>7. CASE m.type = "ADD" /\ RespondADD(s, m)
  <2>1. m.rule \in Rule
    BY <1>4, <1>7 DEF ToSwitch
  <2>2. table[s] \in Seq(Rule)
    BY DEF SwitchTypeOK
  <2>3. AddRule(table[s], m.rule) \in Seq(Rule)
    BY <2>1, <2>2 DEF AddRule
  <2>4. FirstOf(unsolved[s]) \in Nat /\ FirstOf(unsolved[s]) <= Len(unsolved[s])
    BY DEF FirstOf, SwitchTypeOK
  <2>5. count' \in [Switches -> [Counts -> Nat]]
    BY <1>7 DEF RespondADD, Bump, SwitchTypeOK
  <2>6. table' \in [Switches -> Seq(Rule)]
    BY <1>7, <2>3 DEF RespondADD, SwitchTypeOK
  <2>7. /\ iter' \in [Switches -> Nat]
        /\ \A t \in Switches : iter'[t] <= Len(unsolved'[t])
    BY <1>3, <1>7, <2>4 DEF RespondADD, SwitchTypeOK
  <2> QED BY <1>3, <1>6, <1>9, <2>5, <2>6, <2>7 DEF SwitchTypeOK
<1>8. CASE m.type = "ACK" /\ RespondACK(s)
  <2>1. count' \in [Switches -> [Counts -> Nat]]
    BY <1>8 DEF RespondACK, Bump, SwitchTypeOK
  <2> QED BY <1>3, <1>6, <1>8, <1>9, <2>1 DEF RespondACK, SwitchTypeOK
<1>10. CASE UNCHANGED <<table, iter, count>>
  BY <1>3, <1>6, <1>9, <1>10 DEF SwitchTypeOK
<1> QED BY <1>2, <1>6, <1>7, <1>8, <1>10

(*************************************************************************)
(* Types are kept by a round of resolveUnsolvedPackets; in particular    *)
(* its iterator never points beyond the vector, although the loop erases *)
(* from it.                                                              *)
(*************************************************************************)
LEMMA ResolveStepType ==
  ASSUME TransportTypeOK, SwitchTypeOK, NEW s \in Switches, ResolveStep(s)
  PROVE  TransportTypeOK' /\ SwitchTypeOK'
<1> DEFINE j == iter[s]
           p == unsolved[s][j]
           i == FlowEntryIndex(table[s], p)
<1>1. table[s] \in Seq(Rule) /\ unsolved[s] \in Seq(Packet) /\ j \in 1 .. Len(unsolved[s])
  BY DEF ResolveStep, SwitchTypeOK
<1>2. p \in Packet
  BY <1>1
<1>3. i \in 0 .. Len(table[s])
  BY <1>1, <1>2, FirstMatch
<1>4. UNCHANGED <<alive, starts, ctrlUp, pending, up, down, reset, torn, lines, einval>>
  BY DEF ResolveStep
<1> HIDE DEF i, p, j
<1>5. CASE /\ i > 0
           /\ Apply(s, p, i, {}, fifo)
           /\ unsolved' = [unsolved EXCEPT ![s] = RemoveAt(@, j)]
           /\ iter' = [iter EXCEPT ![s] = NextOf(AfterErase(j), unsolved'[s])]
  <2>1. /\ RemoveAt(unsolved[s], j) \in Seq(Packet)
        /\ Len(RemoveAt(unsolved[s], j)) \in Nat
    BY <1>1, RemoveAtType
  <2>2. /\ NextOf(AfterErase(j), RemoveAt(unsolved[s], j)) \in Nat
        /\ NextOf(AfterErase(j), RemoveAt(unsolved[s], j)) <= Len(RemoveAt(unsolved[s], j))
    BY <1>1, <2>1 DEF NextOf, AfterErase
  <2>3. unsolved'[s] = RemoveAt(unsolved[s], j)
    BY <1>5 DEF SwitchTypeOK
  <2>4. /\ table' \in [Switches -> Seq(Rule)]
        /\ count' \in [Switches -> [Counts -> Nat]]
        /\ fifo' \in [Links -> Seq(Packet)]
        /\ writers' \in SUBSET Links
    <3>1. i \in 1 .. Len(table[s]) /\ fifo \in [Links -> Seq(Packet)]
      BY <1>1, <1>3, <1>5 DEF TransportTypeOK
    <3> QED BY <1>2, <1>5, <3>1, ApplyType
  <2> QED BY <1>4, <1>5, <2>1, <2>2, <2>3, <2>4 DEF TransportTypeOK, SwitchTypeOK
<1>6. CASE /\ iter' = [iter EXCEPT ![s] = NextOf(j + 1, unsolved[s])]
           /\ UNCHANGED <<table, unsolved, count, fifo, writers>>
  <2>1. /\ NextOf(j + 1, unsolved[s]) \in Nat
        /\ NextOf(j + 1, unsolved[s]) <= Len(unsolved[s])
    BY <1>1 DEF NextOf
  <2> QED BY <1>4, <1>6, <2>1 DEF TransportTypeOK, SwitchTypeOK
<1> QED BY <1>5, <1>6 DEF ResolveStep, i, p, j

-----------------------------------------------------------------------------
(* Types are kept by a send of the controller to a switch.               *)
LEMMA ReplyType ==
  ASSUME TransportTypeOK, ControllerTypeOK, NEW c \in Conn, NEW m \in ToSwitch, Reply(c, m)
  PROVE  /\ down' \in [Conn -> Seq(ToSwitch)]
         /\ reset' \in [Conn -> BOOLEAN]
         /\ stale' \in BOOLEAN
<1>1. stale' \in BOOLEAN
  BY DEF ControllerTypeOK, Reply
<1>2. CASE down' = [down EXCEPT ![c] = Append(@, m)] /\ UNCHANGED reset
  BY <1>1, <1>2 DEF TransportTypeOK
<1>3. CASE reset' = [reset EXCEPT ![c] = TRUE] /\ UNCHANGED down
  BY <1>1, <1>3 DEF TransportTypeOK
<1> QED BY <1>2, <1>3 DEF Reply, SendToSwitch

(* Types are kept by check_sock of the controller: OPEN and QUERY, and   *)
(* the ways in which they end the process.                               *)
LEMMA ServeType ==
  ASSUME TransportTypeOK, ControllerTypeOK, NEW c \in Conn, Serve(c)
  PROVE  TransportTypeOK' /\ ControllerTypeOK'
<1> DEFINE m == Head(up[c])
<1>1. PICK k \in 1 .. Len(up[c]) :
        LET rest == [up EXCEPT ![c] = AfterRecv(@, k)]
        IN \/ m.type = "OPEN" /\ RespondOPEN(c, m, rest)
           \/ m.type = "QUERY" /\ RespondQUERY(c, m, rest)
  BY DEF Serve
<1> DEFINE rest == [up EXCEPT ![c] = AfterRecv(@, k)]
<1>2. up[c] \in Seq(ToController) /\ sweep # <<>>
  BY DEF Serve, Visiting, TransportTypeOK
<1>3. m \in ToController
  BY <1>1, <1>2
<1>4. rest \in [Conn -> Seq(ToController)]
  <2>1. AfterRecv(up[c], k) \in Seq(ToController)
    BY <1>1, <1>2 DEF AfterRecv
  <2> QED BY <2>1 DEF TransportTypeOK
<1>5. GoOn(Tail(sweep)) => sweep' \in Seq(Conn) /\ index' \in Nat
  BY <1>2 DEF GoOn, ControllerTypeOK
<1> HIDE DEF m, rest
<1>6. CASE ControllerGone(rest)
  BY <1>6, ControllerGoneType
<1>7. ASSUME NEW names, Add(names) PROVE total' \in [Totals -> Nat]
  BY <1>7 DEF Add, ControllerTypeOK
<1>8. CASE /\ m.type = "OPEN"
           /\ registry' = Register(registry, m)
           /\ switchFDMap' = switchFDMap \cup {c}
           /\ Add({"rOPEN", "tACK"})
           /\ Reply(c, AckMsg)
           /\ up' = rest
           /\ GoOn(Tail(sweep))
           /\ UNCHANGED <<alive, starts, ctrlUp, pending, fifo, torn, writers, clients>>
  <2>1. AckMsg \in ToSwitch
    BY DEF AckMsg, ToSwitch
  <2>2. /\ down' \in [Conn -> Seq(ToSwitch)]
        /\ reset' \in [Conn -> BOOLEAN]
        /\ stale' \in BOOLEAN
    BY <1>8, <2>1, ReplyType
  <2>3. TransportTypeOK'
    BY <1>4, <1>8, <2>2 DEF TransportTypeOK
  <2>4. registry' \in [Switches -> SwitchInfo]
    <3>1. /\ m.left \in Switches \cup {Null} /\ m.right \in Switches \cup {Null}
          /\ m.low \in Nat /\ m.high \in Nat
      BY <1>3, <1>8 DEF ToController
    <3>2. Switches \cup {Null} \in SUBSET Nat
      BY SwitchesAssumption DEF Null
    <3>3. InfoOf(m) \in SwitchInfo
      BY <3>1, <3>2 DEF InfoOf, SwitchInfo
    <3>4. registry' = Register(registry, m)
      BY <1>8
    <3> QED BY <3>3, <3>4 DEF Register, ControllerTypeOK
  <2>5. total' \in [Totals -> Nat]
    BY <1>7, <1>8
  <2> QED BY <1>5, <1>8, <2>2, <2>3, <2>4, <2>5 DEF ControllerTypeOK
<1>9. CASE /\ m.type = "QUERY"
           /\ Add({"rQUERY", "tADD"})
           /\ Reply(c, AddMsg(MakeFlowEntry(registry, m.id, m.pkt)))
           /\ up' = rest
           /\ GoOn(Tail(sweep))
           /\ UNCHANGED <<alive, starts, ctrlUp, pending, fifo, torn, writers, registry,
                          clients, switchFDMap>>
  <2>1. AddMsg(MakeFlowEntry(registry, m.id, m.pkt)) \in ToSwitch
    <3>1. m.id \in Switches /\ m.pkt \in Packet /\ registry \in [Switches -> SwitchInfo]
      BY <1>3, <1>9 DEF ToController, ControllerTypeOK
    <3>2. MakeFlowEntry(registry, m.id, m.pkt) \in Rule
      BY <3>1, MakeFlowEntryType
    <3> QED BY <3>2 DEF AddMsg, ToSwitch
  <2>2. /\ down' \in [Conn -> Seq(ToSwitch)]
        /\ reset' \in [Conn -> BOOLEAN]
        /\ stale' \in BOOLEAN
    BY <1>9, <2>1, ReplyType
  <2>3. TransportTypeOK'
    BY <1>4, <1>9, <2>2 DEF TransportTypeOK
  <2>4. total' \in [Totals -> Nat]
    BY <1>7, <1>9
  <2> QED BY <1>5, <1>9, <2>2, <2>3, <2>4 DEF ControllerTypeOK
<1> QED BY <1>1, <1>6, <1>8, <1>9 DEF RespondOPEN, RespondQUERY, rest

(* Erasing a client leaves a sequence of clients, whatever the position. *)
LEMMA EraseType ==
  ASSUME NEW T, NEW q \in Seq(T), NEW i \in Nat
  PROVE  Erase(q, i) \in Seq(T)
<1>1. CASE i < Len(q)
  <2>1. i + 1 \in 1 .. Len(q)
    BY <1>1
  <2> QED BY <1>1, <2>1, RemoveAtType DEF Erase
<1>2. CASE ~(i < Len(q))
  BY <1>2, FrontType DEF Erase
<1> QED BY <1>1, <1>2

(* Types are kept when the controller closes a connection and erases it  *)
(* from the vector its range-for is walking.                             *)
LEMMA DisconnectType ==
  ASSUME TransportTypeOK, ControllerTypeOK, NEW c \in Conn, Disconnect(c)
  PROVE  TransportTypeOK' /\ ControllerTypeOK'
<1>1. TransportTypeOK'
  BY DEF Disconnect, CloseConnection, TransportTypeOK
<1>2. clients' \in Seq(Conn)
  BY EraseType DEF Disconnect, ControllerTypeOK
<1>3. sweep' \in Seq(Conn)
  <2>1. sweep \in Seq(Conn) /\ sweep # <<>> /\ sweep' = Shifted(sweep)
    BY DEF Disconnect, GoOn, Visiting, ControllerTypeOK
  <2>2. CASE Len(sweep) = 1
    BY <2>1, <2>2 DEF Shifted
  <2>3. CASE Len(sweep) # 1
    <3>1. Len(sweep) > 1
      <4>1. Len(sweep) \in Nat /\ Len(sweep) # 0
        BY <2>1, EmptySeq
      <4>2. \A n \in Nat : n # 0 /\ n # 1 => n > 1
        OBVIOUS
      <4> QED BY <2>3, <4>1, <4>2
    <3>2. sweep[Len(sweep)] \in Conn
      BY <2>1, <3>1
    <3>3. Tail(sweep) \in Seq(Conn) /\ Len(Tail(sweep)) = Len(sweep) - 1
      BY <2>1
    <3>4. Tail(sweep) # <<>>
      <4>1. Len(Tail(sweep)) # 0
        BY <2>1, <3>1, <3>3
      <4> QED BY <3>3, <4>1, EmptySeq
    <3>5. Tail(Tail(sweep)) \in Seq(Conn)
      BY <3>3, <3>4
    <3> QED BY <2>1, <2>3, <3>2, <3>5 DEF Shifted
  <2> QED BY <2>2, <2>3
<1>4. registry' \in [Switches -> SwitchInfo] /\ switchFDMap' \in SUBSET Conn
  BY DEF Disconnect, RegistryAfter, ControllerTypeOK
<1>5. stale' \in BOOLEAN /\ total' \in [Totals -> Nat]
  BY DEF Disconnect, ControllerTypeOK
<1>6. index' \in Nat
  <2>1. GoOn(Shifted(sweep)) /\ index \in Nat
    BY DEF Disconnect, ControllerTypeOK
  <2> QED BY <2>1 DEF GoOn
<1> QED BY <1>1, <1>2, <1>3, <1>4, <1>5, <1>6 DEF ControllerTypeOK

(* Types are kept by accept, by a poll without one, and by a visit of a  *)
(* socket that has nothing to read.                                      *)
LEMMA VisitType ==
  ASSUME TransportTypeOK, ControllerTypeOK,
         Accept \/ PollIdle \/ \E c \in Conn : VisitIdle(c)
  PROVE  TransportTypeOK' /\ ControllerTypeOK'
<1>1. CASE Accept
  <2>1. pending \in Seq(Conn) /\ pending # <<>> /\ clients \in Seq(Conn)
    BY <1>1 DEF Accept, TransportTypeOK, ControllerTypeOK
  <2>2. Head(pending) \in Conn /\ Tail(pending) \in Seq(Conn)
    BY <2>1
  <2>3. Append(clients, Head(pending)) \in Seq(Conn)
    BY <2>1, <2>2
  <2> QED BY <1>1, <2>2, <2>3 DEF Accept, TransportTypeOK, ControllerTypeOK
<1>2. CASE PollIdle
  BY <1>2 DEF PollIdle, transportVars, TransportTypeOK, ControllerTypeOK
<1>3. ASSUME NEW c \in Conn, VisitIdle(c) PROVE TransportTypeOK' /\ ControllerTypeOK'
  <2>1. sweep' \in Seq(Conn) /\ index' \in Nat
    BY <1>3 DEF VisitIdle, Visiting, GoOn, ControllerTypeOK
  <2> QED BY <1>3, <2>1 DEF VisitIdle, transportVars, TransportTypeOK, ControllerTypeOK
<1> QED BY <1>1, <1>2, <1>3

-----------------------------------------------------------------------------
(* The initial states are well typed.                                    *)
LEMMA InitTypeOK == Init => TypeOK
<1> SUFFICES ASSUME Init PROVE TypeOK
  OBVIOUS
<1>1. TransportTypeOK
  BY MaxStartsAssumption DEF Init, TransportInit, TransportTypeOK
<1>2. ControllerTypeOK
  <2>1. NotKnown \in SwitchInfo
    BY DEF NotKnown, SwitchInfo, Null
  <2>2. registry \in [Switches -> SwitchInfo] /\ total \in [Totals -> Nat]
    BY <2>1 DEF Init, ControllerInit
  <2>3. clients \in Seq(Conn) /\ sweep \in Seq(Conn) /\ switchFDMap \in SUBSET Conn
    BY DEF Init, ControllerInit
  <2> QED BY <2>2, <2>3 DEF Init, ControllerInit, ControllerTypeOK
<1>3. SwitchTypeOK
  BY MaxLinesAssumption DEF Init, SwitchInit, SwitchTypeOK, Zero
<1> QED BY <1>1, <1>2, <1>3 DEF TypeOK

(* Every step of the network keeps the types; TypeOK is inductive.       *)
LEMMA NextTypeOK == TypeOK /\ [Next]_vars => TypeOK'
<1> SUFFICES ASSUME TypeOK, [Next]_vars PROVE TypeOK'
  OBVIOUS
<1> USE DEF TypeOK
<1>1. UNCHANGED controllerVars => ControllerTypeOK'
  BY DEF ControllerTypeOK, controllerVars
<1>2. UNCHANGED switchVars => SwitchTypeOK'
  BY DEF SwitchTypeOK, switchVars
<1>3. CASE PollFails /\ UNCHANGED switchVars
  BY <1>2, <1>3, ControllerGoneType DEF PollFails
<1>4. CASE /\ Accept \/ PollIdle \/ \E c \in Conn : VisitIdle(c)
           /\ UNCHANGED switchVars
  BY <1>2, <1>4, VisitType
<1>5. ASSUME NEW c \in Conn, Serve(c), UNCHANGED switchVars PROVE TypeOK'
  BY <1>2, <1>5, ServeType
<1>6. ASSUME NEW c \in Conn, Disconnect(c), UNCHANGED switchVars PROVE TypeOK'
  BY <1>2, <1>6, DisconnectType
<1>7. CASE ControllerExit /\ UNCHANGED switchVars
  BY <1>2, <1>7, ControllerGoneType DEF ControllerExit
<1>8. ASSUME NEW s \in Switches, RecvSock(s), UNCHANGED controllerVars PROVE TypeOK'
  BY <1>1, <1>8, RecvSockType
<1>9. ASSUME NEW s \in Switches, ResolveStep(s), UNCHANGED controllerVars PROVE TypeOK'
  BY <1>1, <1>9, ResolveStepType
<1>10. ASSUME NEW s \in Switches, NEW n \in Switches, RecvRELAY(s, n),
              UNCHANGED controllerVars
       PROVE  TypeOK'
  BY <1>1, <1>10, RecvRELAYType
<1>11. ASSUME NEW s \in Switches, ReadTraffic(s), UNCHANGED controllerVars PROVE TypeOK'
  BY <1>1, <1>11, ReadTrafficType
<1>12. ASSUME NEW s \in Switches, Start(s), UNCHANGED controllerVars PROVE TypeOK'
  BY <1>1, <1>12, StartType
<1>17. ASSUME NEW s \in Switches, UNCHANGED controllerVars,
              SockIdle(s) \/ \E n \in Switches : RecvTorn(s, n)
       PROVE  TypeOK'
  BY <1>1, <1>17, RecvTornType
<1>13. ASSUME NEW s \in Switches, UNCHANGED controllerVars,
              ControllerLost(s) \/ Exit(s) \/ \E n \in Switches : RecvRELAYFails(s, n)
       PROVE  TypeOK'
  <2>1. alive[s] /\ SwitchGone(s)
    BY <1>13 DEF ControllerLost, Exit, RecvRELAYFails, CanRead, Polling
  <2> QED BY <1>1, <1>13, <2>1, SwitchGoneType
<1>14. CASE UNCHANGED vars
  <2>1. TransportTypeOK'
    BY <1>14 DEF vars, transportVars, TransportTypeOK
  <2> QED BY <1>1, <1>2, <1>14, <2>1 DEF vars
<1>15. ASSUME NEW s \in Switches, SwitchLoop(s) \/ Environment(s) PROVE TypeOK'
  BY <1>8, <1>9, <1>10, <1>11, <1>12, <1>13, <1>15, <1>17 DEF SwitchLoop, Environment
<1>16. CASE ControllerLoop
  BY <1>3, <1>4, <1>5, <1>6, <1>16 DEF ControllerLoop
<1> QED BY <1>7, <1>14, <1>15, <1>16 DEF Next

(*************************************************************************)
(* In every reachable state, for every network, limit and traffic: all   *)
(* state has its type, a running switch has been started, and the loop   *)
(* of resolveUnsolvedPackets stays inside the vector it erases from.     *)
(*************************************************************************)
THEOREM TypeCorrect == Spec => []TypeOK
BY InitTypeOK, NextTypeOK, PTL DEF Spec

-----------------------------------------------------------------------------
(* What the listing of s counts: a packets admitted, r relayed, h headers  *)
(* read more than before.                                                  *)
Listed(s, a, r, h) ==
  /\ count'[s]["ADMIT"] = count[s]["ADMIT"] + a
  /\ count'[s]["tRELAY"] = count[s]["tRELAY"] + r
  /\ lines'[s] + count'[s]["rRELAY"] = lines[s] + count[s]["rRELAY"] + h

One(b) == IF b THEN 1 ELSE 0

(* The process of s ends, or starts, or nothing happens to it.             *)
Gone(s) ==
  /\ ~alive'[s] /\ table'[s] = <<>> /\ unsolved'[s] = <<>> /\ iter'[s] = 0
  /\ lines'[s] = 0 /\ count'[s] = Zero

Begun(s) ==
  /\ ~alive[s] /\ alive'[s] /\ unsolved'[s] = unsolved[s]
  /\ \E range \in IPRange : table'[s] = <<InitRule(range)>>
  /\ Listed(s, 0, 0, 0)

Same(s) ==
  /\ alive'[s] = alive[s] /\ table'[s] = table[s]
  /\ unsolved'[s] = unsolved[s] /\ iter'[s] = iter[s]
  /\ Listed(s, 0, 0, 0)

(* A rule matches an incoming packet; no rule does.                        *)
Hit(s) ==
  /\ alive[s] /\ alive'[s] /\ unsolved'[s] = unsolved[s] /\ iter'[s] = iter[s]
  /\ \E i \in 1 .. Len(table[s]) :
       /\ table'[s] = Counted(table[s], i)
       /\ Listed(s, One(IsLocal(table[s][i])), One(IsRelay(table[s][i])), 1)

Asked(s) ==
  /\ alive[s] /\ alive'[s] /\ iter[s] = 0 /\ iter'[s] = 0 /\ table'[s] = table[s]
  /\ \E p \in Packet : /\ FlowEntryIndex(table[s], p) = 0
                       /\ unsolved'[s] = Append(unsolved[s], p)
  /\ Listed(s, 0, 0, 1)

(* A rule arrives.                                                         *)
Added(s) ==
  /\ alive[s] /\ alive'[s] /\ unsolved'[s] = unsolved[s]
  /\ iter'[s] = FirstOf(unsolved[s])
  /\ \E r \in Rule : /\ table'[s] = AddRule(table[s], r)
                     /\ down[Current(s)] # <<>>
                     /\ Head(down[Current(s)]) = AddMsg(r)
  /\ Listed(s, 0, 0, 0)

(* A parked packet is resolved, or is kept.                                *)
Solved(s) ==
  /\ alive[s] /\ alive'[s] /\ iter[s] # 0
  /\ unsolved'[s] = RemoveAt(unsolved[s], iter[s])
  /\ iter'[s] = NextOf(AfterErase(iter[s]), unsolved'[s])
  /\ \E i \in 1 .. Len(table[s]) :
       /\ table'[s] = Counted(table[s], i)
       /\ Listed(s, One(IsLocal(table[s][i])), One(IsRelay(table[s][i])), 0)

Kept(s) ==
  /\ alive[s] /\ alive'[s] /\ iter[s] # 0
  /\ FlowEntryIndex(table[s], unsolved[s][iter[s]]) = 0
  /\ table'[s] = table[s] /\ unsolved'[s] = unsolved[s]
  /\ iter'[s] = NextOf(iter[s] + 1, unsolved[s])
  /\ Listed(s, 0, 0, 0)

(* What a step of the network can do to one switch.                      *)
OneOf(s) ==
  \/ Gone(s) \/ Begun(s) \/ Same(s) \/ Hit(s)
  \/ Asked(s) \/ Added(s) \/ Solved(s) \/ Kept(s)

(* Bump adds one to the counters it names and to no other.               *)
LEMMA BumpCounts ==
  ASSUME TypeOK, NEW s \in Switches, NEW names, Bump(s, names),
         NEW t \in Switches, NEW n \in Counts
  PROVE  /\ count[t][n] \in Nat
         /\ t # s => count'[t][n] = count[t][n]
         /\ t = s => count'[t][n] = count[t][n] + One(n \in names)
<1>1. count \in [Switches -> [Counts -> Nat]]
  BY DEF TypeOK, SwitchTypeOK
<1>2. count[t][n] \in Nat
  BY <1>1
<1>3. count' = [count EXCEPT ![s] = [m \in Counts |-> IF m \in names THEN @[m] + 1 ELSE @[m]]]
  BY DEF Bump
<1>4. t # s => count'[t] = count[t]
  BY <1>1, <1>3
<1>5. count'[s][n] = IF n \in names THEN count[s][n] + 1 ELSE count[s][n]
  BY <1>1, <1>3
<1> QED BY <1>2, <1>4, <1>5 DEF One

(* A switch whose counters and lines stay.                               *)
LEMMA ListedSame ==
  ASSUME TypeOK, NEW t \in Switches, lines'[t] = lines[t],
         \A n \in Counts \ {"tOPEN", "tQUERY", "rACK", "rADD"} : count'[t][n] = count[t][n]
  PROVE  Listed(t, 0, 0, 0)
<1>1. /\ "ADMIT" \in Counts \ {"tOPEN", "tQUERY", "rACK", "rADD"}
      /\ "tRELAY" \in Counts \ {"tOPEN", "tQUERY", "rACK", "rADD"}
      /\ "rRELAY" \in Counts \ {"tOPEN", "tQUERY", "rACK", "rADD"}
  BY DEF Counts
<1>2. PICK a \in Nat : a = count[t]["ADMIT"]
  BY <1>1 DEF TypeOK, SwitchTypeOK
<1>3. PICK r \in Nat : r = count[t]["tRELAY"]
  BY <1>1 DEF TypeOK, SwitchTypeOK
<1>4. PICK h \in Nat : h = count[t]["rRELAY"]
  BY <1>1 DEF TypeOK, SwitchTypeOK
<1>5. PICK l \in Nat : l = lines[t]
  BY MaxLinesAssumption DEF TypeOK, SwitchTypeOK
<1>6. count'[t]["ADMIT"] = a /\ count'[t]["tRELAY"] = r /\ count'[t]["rRELAY"] = h /\ lines'[t] = l
  BY <1>1, <1>2, <1>3, <1>4, <1>5
<1> QED BY <1>2, <1>3, <1>4, <1>5, <1>6 DEF Listed

(* What a handler of s that bumps the counters it names lists.           *)
LEMMA ListedBump ==
  ASSUME TypeOK, NEW s \in Switches, NEW names, Bump(s, names), NEW k \in Nat,
         lines'[s] = lines[s] + k
  PROVE  Listed(s, One("ADMIT" \in names), One("tRELAY" \in names), k + One("rRELAY" \in names))
<1>1. "ADMIT" \in Counts /\ "tRELAY" \in Counts /\ "rRELAY" \in Counts
  BY DEF Counts
<1>2. PICK h \in Nat : h = count[s]["rRELAY"]
  BY <1>1 DEF TypeOK, SwitchTypeOK
<1>3. PICK l \in Nat : l = lines[s]
  BY MaxLinesAssumption DEF TypeOK, SwitchTypeOK
<1>4. PICK o \in Nat : o = One("rRELAY" \in names)
  BY DEF One
<1>5. count'[s]["rRELAY"] = h + o
  BY <1>1, <1>2, <1>4, BumpCounts
<1>6. (l + k) + (h + o) = (l + h) + (k + o)
  OBVIOUS
<1>7. lines'[s] + count'[s]["rRELAY"] = lines[s] + count[s]["rRELAY"] + (k + One("rRELAY" \in names))
  BY <1>2, <1>3, <1>4, <1>5, <1>6
<1>8. /\ count'[s]["ADMIT"] = count[s]["ADMIT"] + One("ADMIT" \in names)
      /\ count'[s]["tRELAY"] = count[s]["tRELAY"] + One("tRELAY" \in names)
  BY <1>1, BumpCounts
<1> QED BY <1>7, <1>8 DEF Listed

(* Resolving a packet by rule i: the listing counts it as the rule says. *)
LEMMA ApplyListed ==
  ASSUME TypeOK, NEW s \in Switches, NEW p, NEW i \in 1 .. Len(table[s]),
         NEW seen \in {{}, {"rRELAY"}}, NEW f, Apply(s, p, i, seen, f),
         NEW k \in Nat, lines'[s] = lines[s] + k
  PROVE  /\ Listed(s, One(IsLocal(table[s][i])), One(IsRelay(table[s][i])),
                   k + One(seen # {}))
         /\ \A t \in Switches : t # s =>
              \A n \in Counts : count'[t][n] = count[t][n]
<1> DEFINE r == table[s][i]
<1>1. "rRELAY" \in seen <=> seen # {}
  OBVIOUS
<1>2. "ADMIT" \notin seen /\ "tRELAY" \notin seen
  OBVIOUS
<1>3. /\ IsLocal(r) => ~IsRelay(r) /\ r.actionType # DROP
      /\ IsRelay(r) => ~IsLocal(r) /\ r.actionType # DROP
      /\ r.actionType = DROP => ~IsLocal(r) /\ ~IsRelay(r)
  BY DEF IsLocal, IsRelay, DELIVER, FORWARD, DROP, PORT_1, PORT_2, PORT_3
<1>4. PICK names :
        /\ Bump(s, names)
        /\ "ADMIT" \in names <=> IsLocal(r)
        /\ "tRELAY" \in names <=> IsRelay(r)
        /\ "rRELAY" \in names <=> seen # {}
  <2>1. CASE IsLocal(r) /\ Bump(s, seen \cup {"ADMIT"})
    BY <1>1, <1>2, <1>3, <2>1
  <2>2. CASE IsRelay(r) /\ Bump(s, seen \cup {"tRELAY"})
    BY <1>1, <1>2, <1>3, <2>2
  <2>3. CASE r.actionType = DROP /\ Bump(s, seen)
    BY <1>1, <1>2, <1>3, <2>3
  <2> QED BY <2>1, <2>2, <2>3 DEF Apply
<1> HIDE DEF r
<1>5. Listed(s, One("ADMIT" \in names), One("tRELAY" \in names), k + One("rRELAY" \in names))
  BY <1>4, ListedBump
<1>6. /\ One("ADMIT" \in names) = One(IsLocal(r))
      /\ One("tRELAY" \in names) = One(IsRelay(r))
      /\ One("rRELAY" \in names) = One(seen # {})
  BY <1>4 DEF One
<1>7. Listed(s, One(IsLocal(r)), One(IsRelay(r)), k + One(seen # {}))
  BY <1>5, <1>6
<1>8. \A t \in Switches : t # s => \A n \in Counts : count'[t][n] = count[t][n]
  BY <1>4, BumpCounts
<1> QED BY <1>7, <1>8 DEF r

(* A switch process that ends leaves the other switches as they are.     *)
LEMMA SwitchGoneStep ==
  ASSUME TypeOK, NEW s \in Switches, SwitchGone(s), NEW t \in Switches
  PROVE  OneOf(t)
<1>1. CASE t = s
  <2>1. Gone(s)
    BY DEF SwitchGone, CloseSwitch, Gone, TypeOK, TransportTypeOK, SwitchTypeOK
  <2> QED BY <1>1, <2>1 DEF OneOf
<1>2. CASE t # s
  <2>1. Listed(t, 0, 0, 0)
    <3>1. lines'[t] = lines[t] /\ count'[t] = count[t]
      BY <1>2 DEF SwitchGone, TypeOK, SwitchTypeOK
    <3> QED BY <3>1, ListedSame
  <2>2. Same(t)
    BY <1>2, <2>1 DEF SwitchGone, CloseSwitch, Same, TypeOK, TransportTypeOK, SwitchTypeOK
  <2> QED BY <2>2 DEF OneOf
<1> QED BY <1>1, <1>2

(* Resolving or parking an incoming packet (resolvePacket,               *)
(* sendQUERYPacket) is a Hit or an Asked for its switch.                 *)
LEMMA ResolveOrAskStep ==
  ASSUME TypeOK, NEW s \in Switches, alive[s], iter[s] = 0, UNCHANGED <<alive, iter>>,
         NEW p \in Packet, NEW seen \in {{}, {"rRELAY"}}, NEW f,
         ResolveOrAsk(s, p, seen, f),
         lines' = [lines EXCEPT ![s] = @ + One(seen = {})], NEW t \in Switches
  PROVE  OneOf(t)
<1> DEFINE i == FlowEntryIndex(table[s], p)
<1>1. i \in 0 .. Len(table[s])
  BY FirstMatch DEF TypeOK, SwitchTypeOK
<1>2. PICK k \in Nat : k = One(seen = {}) /\ k + One(seen # {}) = 1
  BY DEF One
<1>3. lines'[s] = lines[s] + k /\ (t # s => lines'[t] = lines[t])
  BY <1>2 DEF TypeOK, SwitchTypeOK
<1> HIDE DEF i
<1>4. CASE i > 0 /\ Apply(s, p, i, seen, f) /\ UNCHANGED <<unsolved, up, reset>>
  <2>1. table' = [table EXCEPT ![s] = Counted(@, i)] /\ i \in 1 .. Len(table[s])
    BY <1>1, <1>4 DEF Apply
  <2>2. /\ Listed(s, One(IsLocal(table[s][i])), One(IsRelay(table[s][i])), 1)
        /\ t # s => \A n \in Counts : count'[t][n] = count[t][n]
    <3>1. /\ Listed(s, One(IsLocal(table[s][i])), One(IsRelay(table[s][i])),
                    k + One(seen # {}))
          /\ \A u \in Switches : u # s =>
               \A n \in Counts : count'[u][n] = count[u][n]
      BY <1>3, <1>4, <2>1, ApplyListed
    <3> QED BY <1>2, <3>1
  <2>3. t = s => Hit(t)
    BY <1>4, <2>1, <2>2 DEF Hit, TypeOK, SwitchTypeOK
  <2>4. t # s => Listed(t, 0, 0, 0)
    BY <1>3, <2>2, ListedSame
  <2>5. t # s => Same(t)
    BY <1>4, <2>1, <2>4 DEF Same, TypeOK, SwitchTypeOK
  <2> QED BY <2>3, <2>5 DEF OneOf
<1>5. CASE i = 0 /\ SendQUERY(s, p, seen, f)
  <2>1. /\ unsolved' = [unsolved EXCEPT ![s] = Append(@, p)] /\ table' = table
        /\ Bump(s, seen \cup {"tQUERY"})
    BY <1>5 DEF SendQUERY, Park
  <2>2. Listed(s, 0, 0, 1)
    <3>1. PICK names : names = seen \cup {"tQUERY"}
      OBVIOUS
    <3>2. "ADMIT" \notin names /\ "tRELAY" \notin names /\ ("rRELAY" \in names <=> seen # {})
      BY <3>1
    <3>3. Listed(s, One("ADMIT" \in names), One("tRELAY" \in names), k + One("rRELAY" \in names))
      BY <1>3, <2>1, <3>1, ListedBump
    <3>4. /\ One("ADMIT" \in names) = 0 /\ One("tRELAY" \in names) = 0
          /\ One("rRELAY" \in names) = One(seen # {})
      BY <3>2 DEF One
    <3> QED BY <1>2, <3>3, <3>4
  <2>3. t = s => Asked(t)
    BY <1>5, <2>1, <2>2 DEF Asked, TypeOK, SwitchTypeOK, i
  <2>4. t # s => Listed(t, 0, 0, 0)
    BY <1>3, <2>1, BumpCounts, ListedSame
  <2>5. t # s => Same(t)
    BY <1>5, <2>1, <2>4 DEF Same, TypeOK, SwitchTypeOK
  <2> QED BY <2>3, <2>5 DEF OneOf
<1> QED BY <1>4, <1>5 DEF ResolveOrAsk, i

(* check_sock of a switch: an ADD is an Added with the rule at the head  *)
(* of its connection, an ACK changes neither table nor parked packets.   *)
LEMMA RecvSockStep ==
  ASSUME TypeOK, NEW s \in Switches, RecvSock(s), NEW t \in Switches
  PROVE  OneOf(t)
<1> DEFINE c == Current(s)
           m == Head(down[c])
<1>1. /\ c \in Conn /\ down[c] \in Seq(ToSwitch)
      /\ alive' = alive /\ alive[s] /\ unsolved' = unsolved /\ lines' = lines
  BY CurrentConn DEF RecvSock, Polling, TypeOK, TransportTypeOK
<1>2. PICK k \in 1 .. Len(down[c]) :
        \/ m.type = "ADD" /\ RespondADD(s, m)
        \/ m.type = "ACK" /\ RespondACK(s)
        \/ UNCHANGED <<table, iter, count>>
  BY DEF RecvSock
<1>3. m \in ToSwitch /\ down[c] # <<>>
  BY <1>1, <1>2
<1> HIDE DEF m
<1>7. CASE UNCHANGED <<table, iter, count>>
  BY <1>1, <1>7, ListedSame DEF Same, OneOf
<1>4. Listed(t, 0, 0, 0)
  <2>1. CASE count' = count
    BY <1>1, <2>1, ListedSame
  <2>2. CASE count' # count
    <3>1. Bump(s, {"rADD"}) \/ Bump(s, {"rACK"})
      BY <1>2, <2>2 DEF RespondADD, RespondACK
    <3>2. PICK names \in {{"rADD"}, {"rACK"}} : Bump(s, names)
      BY <3>1
    <3>3. ASSUME NEW n \in Counts \ {"tOPEN", "tQUERY", "rACK", "rADD"}
          PROVE  count'[t][n] = count[t][n]
      BY <3>2, BumpCounts DEF One
    <3> QED BY <1>1, <3>3, ListedSame
  <2> QED BY <2>1, <2>2
<1>5. CASE m.type = "ADD" /\ RespondADD(s, m)
  <2>1. m.rule \in Rule /\ m = AddMsg(m.rule)
    BY <1>3, <1>5 DEF ToSwitch, AddMsg
  <2>2. /\ table' = [table EXCEPT ![s] = AddRule(@, m.rule)]
        /\ iter' = [iter EXCEPT ![s] = FirstOf(unsolved[s])]
    BY <1>5 DEF RespondADD
  <2>3. t = s => Added(t)
    BY <1>1, <1>3, <1>4, <2>1, <2>2 DEF Added, TypeOK, SwitchTypeOK, m
  <2>4. t # s => Same(t)
    BY <1>1, <1>4, <2>2 DEF Same, TypeOK, SwitchTypeOK
  <2> QED BY <1>7, <2>3, <2>4 DEF OneOf
<1>6. CASE m.type = "ACK" /\ RespondACK(s)
  BY <1>1, <1>4, <1>6, <1>7 DEF RespondACK, Same, OneOf
<1> QED BY <1>2, <1>5, <1>6, <1>7

(* A round of resolveUnsolvedPackets is a Solved or a Kept for its       *)
(* switch.                                                               *)
LEMMA ResolveStepStep ==
  ASSUME TypeOK, NEW s \in Switches, ResolveStep(s), NEW t \in Switches
  PROVE  OneOf(t)
<1> DEFINE j == iter[s]
           i == FlowEntryIndex(table[s], unsolved[s][j])
<1>1. /\ table[s] \in Seq(Rule) /\ unsolved[s] \in Seq(Packet)
      /\ j \in 1 .. Len(unsolved[s]) /\ alive[s] /\ alive' = alive /\ lines' = lines
  BY DEF ResolveStep, TypeOK, SwitchTypeOK
<1>2. i \in 0 .. Len(table[s])
  <2>1. unsolved[s][j] \in Packet
    BY <1>1
  <2> QED BY <1>1, <2>1, FirstMatch
<1> HIDE DEF i
<1>3. CASE /\ i > 0
           /\ Apply(s, unsolved[s][j], i, {}, fifo)
           /\ unsolved' = [unsolved EXCEPT ![s] = RemoveAt(@, j)]
           /\ iter' = [iter EXCEPT ![s] = NextOf(AfterErase(j), unsolved'[s])]
  <2>1. table' = [table EXCEPT ![s] = Counted(@, i)] /\ i \in 1 .. Len(table[s])
    BY <1>1, <1>2, <1>3 DEF Apply
  <2>2. /\ Listed(s, One(IsLocal(table[s][i])), One(IsRelay(table[s][i])), 0)
        /\ t # s => \A n \in Counts : count'[t][n] = count[t][n]
    <3>1. lines'[s] = lines[s] + 0
      BY <1>1, MaxLinesAssumption DEF TypeOK, SwitchTypeOK
    <3>2. One({} # {}) = 0 /\ 0 + 0 = 0
      BY DEF One
    <3>3. /\ Listed(s, One(IsLocal(table[s][i])), One(IsRelay(table[s][i])), 0 + One({} # {}))
          /\ t # s => \A n \in Counts : count'[t][n] = count[t][n]
      BY <1>3, <2>1, <3>1, ApplyListed
    <3> QED BY <3>2, <3>3
  <2>3. t = s => Solved(t)
    BY <1>1, <1>3, <2>1, <2>2 DEF Solved, TypeOK, SwitchTypeOK
  <2>4. t # s => Listed(t, 0, 0, 0)
    BY <1>1, <2>2, ListedSame
  <2>5. t # s => Same(t)
    BY <1>1, <1>3, <2>1, <2>4 DEF Same, TypeOK, SwitchTypeOK
  <2> QED BY <2>3, <2>5 DEF OneOf
<1>4. CASE /\ i = 0
           /\ iter' = [iter EXCEPT ![s] = NextOf(j + 1, unsolved[s])]
           /\ UNCHANGED <<table, unsolved, count, fifo, writers>>
  <2>1. Listed(t, 0, 0, 0)
    BY <1>1, <1>4, ListedSame
  <2>2. t = s => Kept(t)
    BY <1>1, <1>4, <2>1 DEF Kept, TypeOK, SwitchTypeOK, i
  <2>3. t # s => Same(t)
    BY <1>1, <1>4, <2>1 DEF Same, TypeOK, SwitchTypeOK
  <2> QED BY <2>2, <2>3 DEF OneOf
<1> QED BY <1>3, <1>4 DEF ResolveStep, i

(* check_connection resolves or parks a packet, or ends the process.     *)
LEMMA RecvRELAYStep ==
  ASSUME TypeOK, NEW s \in Switches, NEW n \in Switches, RecvRELAY(s, n),
         NEW t \in Switches
  PROVE  OneOf(t)
<1> DEFINE e == <<n, s>>
           p == Head(fifo[e])
           f == AfterRead(e, RelaysPerRead)
<1>1. p \in Packet
  <2>1. fifo[e] # <<>> /\ fifo[e] \in Seq(Packet)
    BY DEF RecvRELAY, CanRead, TypeOK, TransportTypeOK, Links
  <2> QED BY <2>1
<1>2. alive[s] /\ iter[s] = 0
  BY DEF RecvRELAY, CanRead, Polling
<1> HIDE DEF e, p, f
<1>3. CASE ResolveOrAsk(s, p, {"rRELAY"}, f) /\ UNCHANGED <<alive, iter, lines>>
  <2>1. lines' = [lines EXCEPT ![s] = @ + One({"rRELAY"} = {})]
    <3>1. One({"rRELAY"} = {}) = 0
      BY DEF One
    <3>2. lines[s] + 0 = lines[s] /\ lines = [lines EXCEPT ![s] = lines[s]]
      BY MaxLinesAssumption DEF TypeOK, SwitchTypeOK
    <3> QED BY <1>3, <3>1, <3>2
  <2> QED BY <1>1, <1>2, <1>3, <2>1, ResolveOrAskStep
<1>4. CASE SwitchGone(s)
  BY <1>4, SwitchGoneStep
<1> QED BY <1>3, <1>4 DEF RecvRELAY, e, p, f

(* Neither a read that finds no packet nor a socket without one changes  *)
(* what a switch holds.                                                  *)
LEMMA RecvTornStep ==
  ASSUME TypeOK, NEW s \in Switches, SockIdle(s) \/ \E n \in Switches : RecvTorn(s, n),
         NEW t \in Switches
  PROVE  OneOf(t)
<1>1. UNCHANGED <<alive, table, unsolved, iter, lines, count>>
  BY DEF SockIdle, RecvTorn, transportVars
<1> QED BY <1>1, ListedSame DEF Same, OneOf

(* check_trafficFile resolves or parks a packet, or ends the process.    *)
LEMMA ReadTrafficStep ==
  ASSUME TypeOK, NEW s \in Switches, ReadTraffic(s), NEW t \in Switches
  PROVE  OneOf(t)
<1>1. PICK p \in Traffic[s] :
        \/ /\ ResolveOrAsk(s, p, {}, fifo) /\ UNCHANGED <<alive, iter>>
           /\ lines' = [lines EXCEPT ![s] = @ + 1]
        \/ SwitchGone(s)
  BY DEF ReadTraffic
<1>2. p \in Packet /\ alive[s] /\ iter[s] = 0
  BY TrafficAssumption DEF ReadTraffic, Polling
<1>3. CASE /\ ResolveOrAsk(s, p, {}, fifo) /\ UNCHANGED <<alive, iter>>
           /\ lines' = [lines EXCEPT ![s] = @ + 1]
  <2>1. One({} = {}) = 1
    BY DEF One
  <2> QED BY <1>2, <1>3, <2>1, ResolveOrAskStep
<1>4. CASE SwitchGone(s)
  BY <1>4, SwitchGoneStep
<1> QED BY <1>1, <1>3, <1>4

(* A start begins one switch and leaves the others as they are.          *)
LEMMA StartStep ==
  ASSUME TypeOK, NEW s \in Switches, Start(s), NEW t \in Switches
  PROVE  OneOf(t)
<1>1. PICK range \in Ranges[s] :
        /\ alive' = [alive EXCEPT ![s] = TRUE]
        /\ table' = [table EXCEPT ![s] = <<InitRule(range)>>]
  BY DEF Start
<1>2. ~alive[s] /\ UNCHANGED <<unsolved, iter, lines>> /\ range \in IPRange /\ Bump(s, {"tOPEN"})
  BY RangesAssumption DEF Start
<1>3. Listed(t, 0, 0, 0)
  <2>1. ASSUME NEW n \in Counts \ {"tOPEN", "tQUERY", "rACK", "rADD"}
        PROVE  count'[t][n] = count[t][n]
    BY <1>2, BumpCounts DEF One
  <2> QED BY <1>2, <2>1, ListedSame
<1>4. ASSUME t = s PROVE Begun(t)
  <2>1. alive'[s]
    BY <1>1 DEF TypeOK, TransportTypeOK
  <2>2. table'[s] = <<InitRule(range)>>
    BY <1>1 DEF TypeOK, SwitchTypeOK
  <2>3. unsolved' = unsolved /\ ~alive[s]
    BY <1>2
  <2> QED BY <1>2, <1>3, <1>4, <2>1, <2>2, <2>3 DEF Begun
<1>5. t # s => Same(t)
  BY <1>1, <1>2, <1>3 DEF Same, TypeOK, SwitchTypeOK, TransportTypeOK
<1> QED BY <1>4, <1>5 DEF OneOf

(* Every step of the network does one of the listed things to each       *)
(* switch.                                                               *)
LEMMA SwitchStep ==
  ASSUME TypeOK, [Next]_vars, NEW t \in Switches
  PROVE  OneOf(t)
<1>1. ASSUME UNCHANGED switchVars, alive' = alive PROVE OneOf(t)
  BY <1>1, ListedSame DEF OneOf, Same, switchVars
<1>2. CASE ControllerExit /\ UNCHANGED switchVars
  BY <1>1, <1>2 DEF ControllerExit, ControllerGone, CloseController
<1>3. CASE ControllerLoop
  <2>1. UNCHANGED switchVars
    BY <1>3 DEF ControllerLoop
  <2>2. CASE PollFails
    BY <1>1, <2>1, <2>2 DEF PollFails, ControllerGone, CloseController
  <2>3. CASE Accept \/ PollIdle
    BY <1>1, <2>1, <2>3 DEF Accept, PollIdle, transportVars
  <2>4. ASSUME NEW c \in Conn, VisitIdle(c) \/ Disconnect(c) PROVE OneOf(t)
    BY <1>1, <2>1, <2>4 DEF VisitIdle, Disconnect, transportVars
  <2>5. ASSUME NEW c \in Conn, Serve(c) PROVE OneOf(t)
    BY <1>1, <2>1, <2>5
       DEF Serve, RespondOPEN, RespondQUERY, ControllerGone, CloseController
  <2> QED BY <1>3, <2>2, <2>3, <2>4, <2>5 DEF ControllerLoop
<1>4. ASSUME NEW s \in Switches, SwitchLoop(s) \/ Environment(s) PROVE OneOf(t)
  <2>1. CASE ControllerLost(s) \/ Exit(s) \/ \E n \in Switches : RecvRELAYFails(s, n)
    BY <2>1, SwitchGoneStep DEF ControllerLost, Exit, RecvRELAYFails
  <2> QED BY <1>4, <2>1, RecvSockStep, ResolveStepStep, RecvRELAYStep, RecvTornStep,
             ReadTrafficStep, StartStep DEF SwitchLoop, Environment
<1>5. CASE UNCHANGED vars
  BY <1>1, <1>5 DEF vars, transportVars
<1> QED BY <1>2, <1>3, <1>4, <1>5 DEF Next

-----------------------------------------------------------------------------
(* Counting a packet changes nothing but the counter of one rule.        *)
LEMMA CountedOnce ==
  ASSUME NEW r \in Rule
  PROVE  LET c == [r EXCEPT !.pktCount = @ + 1]
         IN /\ c \in Rule /\ c.pktCount = r.pktCount + 1
            /\ c = [r EXCEPT !.pktCount = c.pktCount]
<1>1. PICK n \in Nat : n = r.pktCount
  BY DEF Rule
<1>2. PICK m \in Nat : m = n + 1
  OBVIOUS
<1>3. [r EXCEPT !.pktCount = @ + 1] = [r EXCEPT !.pktCount = m]
  BY <1>1, <1>2
<1>4. [r EXCEPT !.pktCount = m] \in Rule /\ [r EXCEPT !.pktCount = m].pktCount = m
  BY DEF Rule
<1> QED BY <1>1, <1>2, <1>3, <1>4

LEMMA CountedRule ==
  ASSUME NEW q \in Seq(Rule), NEW i \in 1 .. Len(q)
  PROVE  /\ Len(Counted(q, i)) = Len(q)
         /\ \A k \in 1 .. Len(q) :
              /\ Counted(q, i)[k] = [q[k] EXCEPT !.pktCount = Counted(q, i)[k].pktCount]
              /\ Counted(q, i)[k].pktCount = IF k = i THEN q[k].pktCount + 1
                                             ELSE q[k].pktCount
<1> DEFINE c == [q[i] EXCEPT !.pktCount = @ + 1]
<1>1. c \in Rule /\ c.pktCount = q[i].pktCount + 1 /\ c = [q[i] EXCEPT !.pktCount = c.pktCount]
  BY CountedOnce
<1>2. Counted(q, i) = [q EXCEPT ![i] = c]
  BY DEF Counted
<1> HIDE DEF c
<1>3. /\ Len(Counted(q, i)) = Len(q)
      /\ \A k \in 1 .. Len(q) : Counted(q, i)[k] = IF k = i THEN c ELSE q[k]
  BY <1>1, <1>2, ExceptSeq
<1>4. ASSUME NEW k \in 1 .. Len(q)
      PROVE  q[k] = [q[k] EXCEPT !.pktCount = q[k].pktCount]
  <2>1. q[k] \in Rule
    OBVIOUS
  <2> QED BY <2>1 DEF Rule
<1> QED BY <1>1, <1>3, <1>4

(* No rule of the table t matches p.                                     *)
Unmatched(t, p) == \A i \in 1 .. Len(t) : ~Matches(t[i], p)

(* UnsolvedUnmatched at one switch, with what makes it inductive: a      *)
(* process that starts finds nothing parked.                             *)
ParkedAt(s) ==
  /\ ~alive[s] => unsolved[s] = <<>>
  /\ \A j \in 1 .. Len(unsolved[s]) :
       iter[s] = 0 \/ j < iter[s] => Unmatched(table[s], unsolved[s][j])

(*************************************************************************)
(* What holds of the parked packets of a switch before any of the listed *)
(* steps holds after it. The case that matters is Solved: the erase      *)
(* moves the next packet into the position of the iterator, which must   *)
(* not advance.                                                          *)
(*************************************************************************)
LEMMA ParkedStep ==
  ASSUME TypeOK, NEW s \in Switches, OneOf(s), ParkedAt(s)
  PROVE  ParkedAt(s)'
<1>1. /\ table[s] \in Seq(Rule) /\ unsolved[s] \in Seq(Packet)
      /\ iter[s] \in Nat /\ iter[s] <= Len(unsolved[s])
  BY DEF TypeOK, SwitchTypeOK
<1>2. ASSUME NEW i \in 1 .. Len(table[s]), NEW p, Unmatched(table[s], p)
      PROVE  Unmatched(Counted(table[s], i), p)
  <2>1. Len(Counted(table[s], i)) = Len(table[s])
    BY <1>1, CountedRule
  <2>2. ASSUME NEW k \in 1 .. Len(table[s])
        PROVE  ~Matches(Counted(table[s], i)[k], p)
    <3>1. table[s][k] \in Rule /\ ~Matches(table[s][k], p)
      BY <1>1, <1>2 DEF Unmatched
    <3>2. Counted(table[s], i)[k]
            = [table[s][k] EXCEPT !.pktCount = Counted(table[s], i)[k].pktCount]
      BY <1>1, CountedRule
    <3> QED BY <3>1, <3>2 DEF Matches, Rule
  <2> QED BY <2>1, <2>2 DEF Unmatched
<1>3. CASE Gone(s)
  BY <1>3 DEF Gone, ParkedAt
<1>4. CASE Begun(s)
  BY <1>4 DEF Begun, ParkedAt
<1>5. CASE Same(s)
  BY <1>5 DEF Same, ParkedAt
<1>6. CASE Hit(s)
  <2>1. PICK i \in 1 .. Len(table[s]) : table'[s] = Counted(table[s], i)
    BY <1>6 DEF Hit
  <2> QED BY <1>2, <1>6, <2>1 DEF Hit, ParkedAt
<1>7. CASE Asked(s)
  <2>1. PICK p \in Packet : /\ FlowEntryIndex(table[s], p) = 0
                            /\ unsolved'[s] = Append(unsolved[s], p)
    BY <1>7 DEF Asked
  <2>2. Unmatched(table[s], p)
    BY <1>1, <2>1, FirstMatch DEF Unmatched
  <2>3. ASSUME NEW j \in 1 .. Len(unsolved[s]) + 1
        PROVE  Unmatched(table[s], Append(unsolved[s], p)[j])
    <3>1. CASE j \in 1 .. Len(unsolved[s])
      <4>1. Append(unsolved[s], p)[j] = unsolved[s][j]
        BY <1>1, <3>1
      <4>2. Unmatched(table[s], unsolved[s][j])
        BY <1>7, <3>1 DEF Asked, ParkedAt
      <4> QED BY <4>1, <4>2
    <3>2. CASE j = Len(unsolved[s]) + 1
      <4>1. Append(unsolved[s], p)[j] = p
        BY <1>1, <3>2
      <4> QED BY <2>2, <4>1
    <3> QED BY <1>1, <3>1, <3>2
  <2>4. Len(Append(unsolved[s], p)) = Len(unsolved[s]) + 1
    BY <1>1
  <2> QED BY <1>7, <2>1, <2>3, <2>4 DEF Asked, ParkedAt
<1>8. CASE Added(s)
  BY <1>1, <1>8 DEF Added, ParkedAt, FirstOf
<1>9. CASE Solved(s)
  <2> DEFINE q == RemoveAt(unsolved[s], iter[s])
  <2>1. PICK i \in 1 .. Len(table[s]) : table'[s] = Counted(table[s], i)
    BY <1>9 DEF Solved
  <2>2. iter[s] \in 1 .. Len(unsolved[s])
    BY <1>1, <1>9 DEF Solved
  <2>3. /\ q \in Seq(Packet) /\ Len(q) = Len(unsolved[s]) - 1
        /\ \A j \in 1 .. Len(unsolved[s]) - 1 : j < iter[s] => q[j] = unsolved[s][j]
    BY <1>1, <2>2, RemoveAtType
  <2> HIDE DEF q
  <2>4. alive'[s] /\ unsolved'[s] = q /\ iter'[s] = NextOf(iter[s], q)
    BY <1>9 DEF Solved, AfterErase, q
  <2>5. ASSUME NEW j \in 1 .. Len(q), iter'[s] = 0 \/ j < iter'[s]
        PROVE  Unmatched(table'[s], q[j])
    <3>1. j < iter[s] /\ j \in 1 .. Len(unsolved[s])
      BY <1>1, <2>2, <2>3, <2>4, <2>5 DEF NextOf
    <3>2. q[j] = unsolved[s][j]
      BY <1>1, <2>3, <3>1
    <3>3. Unmatched(table[s], q[j])
      BY <3>1, <3>2 DEF ParkedAt
    <3> QED BY <1>2, <2>1, <3>3
  <2> QED BY <2>4, <2>5 DEF ParkedAt
<1>10. CASE Kept(s)
  <2>1. unsolved[s][iter[s]] \in Packet /\ iter[s] \in 1 .. Len(unsolved[s])
    BY <1>1, <1>10 DEF Kept
  <2>2. Unmatched(table[s], unsolved[s][iter[s]])
    BY <1>1, <1>10, <2>1, FirstMatch DEF Kept, Unmatched
  <2>3. ASSUME NEW j \in 1 .. Len(unsolved[s]), iter'[s] = 0 \/ j < iter'[s]
        PROVE  j = iter[s] \/ j < iter[s]
    BY <1>1, <1>10, <2>1, <2>3 DEF Kept, NextOf
  <2> QED BY <1>10, <2>2, <2>3 DEF Kept, ParkedAt
<1> QED BY <1>3, <1>4, <1>5, <1>6, <1>7, <1>8, <1>9, <1>10 DEF OneOf

(* The inductive invariant behind UnsolvedUnmatched.                     *)
ParkedInv == \A s \in Switches : ParkedAt(s)

LEMMA ParkedInvariant == Spec => [](TypeOK /\ ParkedInv)
<1>1. Init => ParkedInv
  BY DEF Init, SwitchInit, ParkedInv, ParkedAt
<1>2. TypeOK /\ ParkedInv /\ [Next]_vars => ParkedInv'
  <2>1. SUFFICES ASSUME TypeOK, ParkedInv, [Next]_vars, NEW s \in Switches
                 PROVE  ParkedAt(s)'
    BY DEF ParkedInv
  <2>2. ParkedAt(s) /\ OneOf(s)
    BY <2>1, SwitchStep DEF ParkedInv
  <2> QED BY <2>1, <2>2, ParkedStep
<1> QED BY <1>1, <1>2, TypeCorrect, PTL DEF Spec

(*************************************************************************)
(* For every network, range and traffic: no packet waits in              *)
(* unsolvedPackets for a rule that the switch already has                *)
(* (respondADDPacket runs resolveUnsolvedPackets, and that loop skips no *)
(* packet when it erases).                                               *)
(*************************************************************************)
THEOREM ParkedUnmatched == Spec => []UnsolvedUnmatched
<1>1. ParkedInv => UnsolvedUnmatched
  BY DEF ParkedInv, ParkedAt, Unmatched, UnsolvedUnmatched
<1> QED BY <1>1, ParkedInvariant, PTL

-----------------------------------------------------------------------------
(* NoDuplicateRules at one switch, in the words of operator==.           *)
DistinctAt(s) ==
  \A i, j \in 1 .. Len(table[s]) : i # j => ~SameRule(table[s][i], table[s][j])

(* The rules of a switch that are distinct before any of the listed      *)
(* steps are distinct after it.                                          *)
LEMMA DistinctStep ==
  ASSUME TypeOK, NEW s \in Switches, OneOf(s), DistinctAt(s)
  PROVE  DistinctAt(s)'
<1>1. table[s] \in Seq(Rule)
  BY DEF TypeOK, SwitchTypeOK
<1>2. ASSUME NEW i \in 1 .. Len(table[s]), table'[s] = Counted(table[s], i)
      PROVE  DistinctAt(s)'
  <2> DEFINE q == Counted(table[s], i)
  <2>1. /\ Len(q) = Len(table[s])
        /\ \A k \in 1 .. Len(table[s]) :
             q[k] = [table[s][k] EXCEPT !.pktCount = q[k].pktCount]
    BY <1>1, CountedRule
  <2> HIDE DEF q
  <2>2. ASSUME NEW k \in 1 .. Len(table[s]), NEW l \in 1 .. Len(table[s]), k # l
        PROVE  ~SameRule(q[k], q[l])
    <3>1. ~SameRule(table[s][k], table[s][l])
      BY <2>2 DEF DistinctAt
    <3>2. table[s][k] \in Rule /\ table[s][l] \in Rule
      BY <1>1
    <3> QED BY <2>1, <3>1, <3>2 DEF SameRule, Rule
  <2> QED BY <1>2, <2>1, <2>2 DEF DistinctAt, q
<1>3. CASE Gone(s)
  BY <1>3 DEF Gone, DistinctAt
<1>4. CASE Begun(s)
  BY <1>4 DEF Begun, DistinctAt
<1>5. CASE Same(s) \/ Asked(s) \/ Kept(s)
  BY <1>5 DEF Same, Asked, Kept, DistinctAt
<1>6. CASE Hit(s) \/ Solved(s)
  BY <1>2, <1>6 DEF Hit, Solved
<1>7. CASE Added(s)
  <2>1. PICK r \in Rule : table'[s] = AddRule(table[s], r)
    BY <1>7 DEF Added
  <2>2. CASE \E i \in 1 .. Len(table[s]) : SameRule(table[s][i], r)
    BY <2>1, <2>2 DEF AddRule, DistinctAt
  <2>3. CASE ~\E i \in 1 .. Len(table[s]) : SameRule(table[s][i], r)
    <3>1. /\ table'[s] = Append(table[s], r) /\ Len(Append(table[s], r)) = Len(table[s]) + 1
          /\ \A i \in 1 .. Len(table[s]) : Append(table[s], r)[i] = table[s][i]
          /\ Append(table[s], r)[Len(table[s]) + 1] = r
      BY <1>1, <2>1, <2>3 DEF AddRule
    <3>2. \A i \in 1 .. Len(table[s]) : ~SameRule(table[s][i], r) /\ ~SameRule(r, table[s][i])
      BY <2>3 DEF SameRule
    <3>3. Len(table[s]) \in Nat
      BY <1>1
    <3> QED BY <3>1, <3>2, <3>3 DEF DistinctAt
  <2> QED BY <2>2, <2>3
<1> QED BY <1>3, <1>4, <1>5, <1>6, <1>7 DEF OneOf

(* The inductive invariant behind NoDuplicateRules.                      *)
DistinctInv == \A s \in Switches : DistinctAt(s)

(*************************************************************************)
(* For every network, range and traffic: no flow table holds two rules   *)
(* that differ only in their counter, however many QUERYs for one        *)
(* destination have been answered (respondADDPacket).                    *)
(*************************************************************************)
THEOREM RulesDistinct == Spec => []NoDuplicateRules
<1>1. Init => DistinctInv
  BY DEF Init, SwitchInit, DistinctInv, DistinctAt
<1>2. TypeOK /\ DistinctInv /\ [Next]_vars => DistinctInv'
  <2>1. SUFFICES ASSUME TypeOK, DistinctInv, [Next]_vars, NEW s \in Switches
                 PROVE  DistinctAt(s)'
    BY DEF DistinctInv
  <2>2. DistinctAt(s) /\ OneOf(s)
    BY <2>1, SwitchStep DEF DistinctInv
  <2> QED BY <2>1, <2>2, DistinctStep
<1>3. TypeOK /\ DistinctInv => NoDuplicateRules
  <2>1. SUFFICES ASSUME TypeOK, DistinctInv, NEW s \in Switches,
                        NEW i \in 1 .. Len(table[s]), NEW j \in 1 .. Len(table[s]), i # j
                 PROVE  [table[s][i] EXCEPT !.pktCount = 0] # [table[s][j] EXCEPT !.pktCount = 0]
    BY DEF NoDuplicateRules
  <2>2. table[s][i] \in Rule /\ table[s][j] \in Rule
    BY <2>1 DEF TypeOK, SwitchTypeOK
  <2>3. ~SameRule(table[s][i], table[s][j])
    BY <2>1 DEF DistinctInv, DistinctAt
  <2> QED BY <2>2, <2>3 DEF SameRule, Rule
<1> QED BY <1>1, <1>2, <1>3, TypeCorrect, PTL DEF Spec

-----------------------------------------------------------------------------
(* What a step of the network can do to the messages of one connection,  *)
(* to what the controller knows of one switch, and to all of them.       *)
UpStep(c) ==
  \/ up'[c] = up[c] \/ up'[c] = <<>>
  \/ \E k \in 1 .. Len(up[c]) : up'[c] = AfterRecv(up[c], k)
  \/ \E p \in Packet : /\ FlowEntryIndex(table[c[1]], p) = 0
                       /\ up'[c] = Append(up[c], QueryMsg(c[1], p))
  \/ \E range \in Ranges[c[1]] : up'[c] = <<OpenMsg(c[1], range)>>

DownStep(c) ==
  \/ down'[c] = down[c] \/ down'[c] = <<>>
  \/ \E k \in 1 .. Len(down[c]) : down'[c] = AfterRecv(down[c], k)
  \/ down'[c] = Append(down[c], AckMsg)
  \/ LET m == Head(up[c])
     IN /\ up[c] # <<>> /\ m.type = "QUERY"
        /\ down'[c] = Append(down[c], AddMsg(MakeFlowEntry(registry, m.id, m.pkt)))

RegistryStep(s) ==
  \/ registry'[s] = registry[s] \/ registry'[s] = NotKnown
  \/ \E c \in Conn : LET m == Head(up[c])
                     IN /\ up[c] # <<>> /\ m.type = "OPEN" /\ m.id = s
                        /\ registry'[s] = InfoOf(m)

ChannelStep ==
  /\ \A c \in Conn : UpStep(c) /\ DownStep(c)
  /\ \A s \in Switches : RegistryStep(s)

(* A step that sends and reads nothing is a ChannelStep.                 *)
LEMMA QuietStep ==
  ASSUME UNCHANGED <<up, down, registry>>
  PROVE  ChannelStep
BY DEF ChannelStep, UpStep, DownStep, RegistryStep

(* The end of a switch process empties one connection.                   *)
LEMMA SwitchGoneChannels ==
  ASSUME TypeOK, NEW s \in Switches, SwitchGone(s), UNCHANGED registry
  PROVE  ChannelStep
<1>1. up' = up /\ down' = [down EXCEPT ![Current(s)] = <<>>]
  BY DEF SwitchGone, CloseSwitch
<1> QED BY <1>1 DEF ChannelStep, UpStep, DownStep, RegistryStep, TypeOK, TransportTypeOK

(* The end of the controller empties all messages to it and its          *)
(* registry.                                                             *)
LEMMA ControllerGoneChannels ==
  ASSUME TypeOK, NEW q, ControllerGone(q)
  PROVE  ChannelStep
BY DEF ControllerGone, CloseController, ChannelStep, UpStep, DownStep, RegistryStep

(* Resolving or parking a packet sends at most a QUERY of the switch     *)
(* itself.                                                               *)
LEMMA ResolveOrAskChannels ==
  ASSUME TypeOK, NEW s \in Switches, alive[s], NEW p \in Packet, NEW seen, NEW f,
         ResolveOrAsk(s, p, seen, f), UNCHANGED <<down, registry>>
  PROVE  ChannelStep
<1>1. CASE up' = up
  BY <1>1, QuietStep
<1>2. CASE /\ FlowEntryIndex(table[s], p) = 0
           /\ up' = [up EXCEPT ![Current(s)] = Append(@, QueryMsg(s, p))]
  <2>1. ASSUME NEW c \in Conn PROVE UpStep(c)
    <3>1. c = Current(s) => c[1] = s
      BY DEF Current
    <3> QED BY <1>2, <3>1 DEF UpStep, TypeOK, TransportTypeOK
  <2> QED BY <2>1 DEF ChannelStep, DownStep, RegistryStep
<1> QED BY <1>1, <1>2 DEF ResolveOrAsk, SendQUERY, SendToController

(*************************************************************************)
(* check_sock of the controller removes messages from the head of one    *)
(* connection, answers on that connection only, and registers what an    *)
(* OPEN at its head says.                                                *)
(*************************************************************************)
LEMMA ServeChannels ==
  ASSUME TypeOK, NEW c \in Conn, Serve(c)
  PROVE  ChannelStep
<1> DEFINE m == Head(up[c])
<1>1. PICK k \in 1 .. Len(up[c]) :
        LET rest == [up EXCEPT ![c] = AfterRecv(@, k)]
        IN \/ m.type = "OPEN" /\ RespondOPEN(c, m, rest)
           \/ m.type = "QUERY" /\ RespondQUERY(c, m, rest)
  BY DEF Serve
<1> DEFINE rest == [up EXCEPT ![c] = AfterRecv(@, k)]
<1>2. up[c] # <<>> /\ m \in ToController
  BY <1>1 DEF TypeOK, TransportTypeOK
<1>3. ASSUME up' = rest, NEW d \in Conn PROVE UpStep(d)
  BY <1>3 DEF UpStep, TypeOK, TransportTypeOK
<1>4. ASSUME NEW a, Reply(c, a), NEW d \in Conn
      PROVE  down'[d] = down[d] \/ (d = c /\ down'[d] = Append(down[d], a))
  BY <1>4 DEF Reply, SendToSwitch, TypeOK, TransportTypeOK
<1> HIDE DEF m, rest
<1>5. CASE ControllerGone(rest)
  BY <1>5, ControllerGoneChannels
<1>6. CASE /\ m.type = "OPEN" /\ registry' = Register(registry, m)
           /\ Reply(c, AckMsg) /\ up' = rest
  <2>1. ASSUME NEW d \in Conn PROVE UpStep(d) /\ DownStep(d)
    BY <1>3, <1>4, <1>6 DEF DownStep
  <2>2. ASSUME NEW s \in Switches PROVE RegistryStep(s)
    BY <1>2, <1>6 DEF RegistryStep, Register, TypeOK, ControllerTypeOK, m
  <2> QED BY <2>1, <2>2 DEF ChannelStep
<1>7. CASE /\ m.type = "QUERY" /\ registry' = registry
           /\ Reply(c, AddMsg(MakeFlowEntry(registry, m.id, m.pkt))) /\ up' = rest
  <2>1. ASSUME NEW d \in Conn PROVE UpStep(d) /\ DownStep(d)
    BY <1>2, <1>3, <1>4, <1>7 DEF DownStep, m
  <2> QED BY <1>7, <2>1 DEF ChannelStep, RegistryStep
<1> QED BY <1>1, <1>5, <1>6, <1>7 DEF RespondOPEN, RespondQUERY, rest

(* A start puts the OPEN of that switch into its new connection.         *)
LEMMA StartChannels ==
  ASSUME TypeOK, NEW s \in Switches, Start(s), UNCHANGED registry
  PROVE  ChannelStep
<1>1. PICK range \in Ranges[s] :
        up' = [up EXCEPT ![<<s, starts[s] + 1>>] = <<OpenMsg(s, range)>>]
  BY DEF Start
<1>2. down' = down
  BY DEF Start
<1>3. ASSUME NEW c \in Conn PROVE UpStep(c)
  <2>1. CASE c = <<s, starts[s] + 1>>
    <3>1. up'[c] = <<OpenMsg(s, range)>> /\ c[1] = s
      BY <1>1, <2>1 DEF TypeOK, TransportTypeOK
    <3> QED BY <3>1 DEF UpStep
  <2>2. CASE c # <<s, starts[s] + 1>>
    BY <1>1, <2>2 DEF UpStep, TypeOK, TransportTypeOK
  <2> QED BY <2>1, <2>2
<1> QED BY <1>2, <1>3 DEF ChannelStep, DownStep, RegistryStep

(* Every step of the network is a ChannelStep.                           *)
LEMMA NextChannels ==
  ASSUME TypeOK, [Next]_vars
  PROVE  ChannelStep
<1>1. CASE ControllerExit
  BY <1>1, ControllerGoneChannels DEF ControllerExit
<1>2. CASE ControllerLoop
  <2>1. CASE PollFails
    BY <2>1, ControllerGoneChannels DEF PollFails
  <2>2. CASE Accept \/ PollIdle \/ \E c \in Conn : VisitIdle(c)
    BY <2>2, QuietStep DEF Accept, PollIdle, VisitIdle, transportVars
  <2>3. ASSUME NEW c \in Conn, Disconnect(c) PROVE ChannelStep
    <3>1. up' = [up EXCEPT ![c] = <<>>] /\ down' = down /\ registry' = registry
      BY <2>3 DEF Disconnect, CloseConnection, RegistryAfter
    <3> QED BY <3>1 DEF ChannelStep, UpStep, DownStep, RegistryStep, TypeOK, TransportTypeOK
  <2> QED BY <1>2, <2>1, <2>2, <2>3, ServeChannels DEF ControllerLoop
<1>3. ASSUME NEW s \in Switches, SwitchLoop(s) \/ Environment(s) PROVE ChannelStep
  <2>1. registry' = registry
    BY <1>3 DEF SwitchLoop, Environment, controllerVars
  <2>2. CASE SwitchGone(s)
    BY <2>1, <2>2, SwitchGoneChannels
  <2>3. CASE RecvSock(s)
    <3>1. PICK k \in 1 .. Len(down[Current(s)]) :
            down' = [down EXCEPT ![Current(s)] = AfterRecv(@, k)]
      BY <2>3 DEF RecvSock
    <3>2. up' = up
      BY <2>3 DEF RecvSock
    <3> QED BY <2>1, <3>1, <3>2
            DEF ChannelStep, UpStep, DownStep, RegistryStep, TypeOK, TransportTypeOK
  <2>4. CASE ResolveStep(s)
    BY <2>1, <2>4, QuietStep DEF ResolveStep
  <2>5. ASSUME NEW n \in Switches, RecvRELAY(s, n) PROVE ChannelStep
    <3> DEFINE p == Head(fifo[<<n, s>>])
               f == AfterRead(<<n, s>>, RelaysPerRead)
    <3>1. p \in Packet /\ alive[s]
      <4>1. fifo[<<n, s>>] # <<>> /\ fifo[<<n, s>>] \in Seq(Packet) /\ alive[s]
        BY <2>5 DEF RecvRELAY, CanRead, Polling, TypeOK, TransportTypeOK, Links
      <4> QED BY <4>1
    <3> HIDE DEF p, f
    <3>2. CASE ResolveOrAsk(s, p, {"rRELAY"}, f) /\ down' = down
      BY <2>1, <3>1, <3>2, ResolveOrAskChannels
    <3> QED BY <2>2, <2>5, <3>2 DEF RecvRELAY, p, f
  <2>6. CASE ReadTraffic(s)
    <3>1. PICK p \in Packet : (ResolveOrAsk(s, p, {}, fifo) /\ down' = down) \/ SwitchGone(s)
      BY <2>6, TrafficAssumption DEF ReadTraffic
    <3>2. alive[s]
      BY <2>6 DEF ReadTraffic, Polling
    <3>3. CASE ResolveOrAsk(s, p, {}, fifo) /\ down' = down
      BY <2>1, <3>2, <3>3, ResolveOrAskChannels
    <3> QED BY <2>2, <3>1, <3>3
  <2>8. CASE SockIdle(s) \/ \E n \in Switches : RecvTorn(s, n)
    BY <2>1, <2>8, QuietStep DEF SockIdle, RecvTorn, transportVars
  <2>7. CASE ControllerLost(s) \/ Exit(s) \/ \E n \in Switches : RecvRELAYFails(s, n)
    BY <2>2, <2>7 DEF ControllerLost, Exit, RecvRELAYFails
  <2> QED BY <1>3, <2>1, <2>3, <2>4, <2>5, <2>6, <2>7, <2>8, StartChannels
          DEF SwitchLoop, Environment
<1>4. CASE UNCHANGED vars
  BY <1>4, QuietStep DEF vars, transportVars, controllerVars
<1> QED BY <1>1, <1>2, <1>3, <1>4 DEF Next

-----------------------------------------------------------------------------
(* A message on c was sent by the switch of c, and an OPEN tells its     *)
(* true neighbours.                                                      *)
SentByOwner(c, m) ==
  /\ m.id = c[1]
  /\ m.type = "OPEN" => m.left = Left[m.id] /\ m.right = Right[m.id]

(* All messages to the controller on c are such.                         *)
OwnMessages(c) == \A i \in 1 .. Len(up[c]) : SentByOwner(c, up[c][i])

(* What the controller knows of the neighbours of s is true.             *)
TrueNeighbours(s) ==
  registry[s] = NotKnown \/ (registry[s].left = Left[s] /\ registry[s].right = Right[s])

(* A RELAY rule on its way names a port of its receiver; so does one in  *)
(* a table.                                                              *)
RulesOnTheWay(c) ==
  \A i \in 1 .. Len(down[c]) : down[c][i].type = "ADD" => RelayPortExists(c[1], down[c][i].rule)

RulesInTable(s) == \A i \in 1 .. Len(table[s]) : RelayPortExists(s, table[s][i])

(* The inductive invariant behind ForwardPortExists.                     *)
PortInv ==
  /\ \A c \in Conn : OwnMessages(c) /\ RulesOnTheWay(c)
  /\ \A s \in Switches : TrueNeighbours(s) /\ RulesInTable(s)

(* If what is known of the neighbours of s is true, makeFlowEntry never  *)
(* answers s with a port that has no neighbour.                          *)
LEMMA AnswerHasPort ==
  ASSUME NEW s \in Switches, NEW p \in Packet, TrueNeighbours(s)
  PROVE  RelayPortExists(s, MakeFlowEntry(registry, s, p))
<1> DEFINE left == LeftServer(registry, s, p.dst)
           right == RightServer(registry, s, p.dst)
<1>1. Null \notin Switches /\ Null \notin Known(registry)
  BY SwitchesAssumption DEF Null, Known
<1>2. left \in Known(registry) => registry[s].left \in Switches
  BY <1>1 DEF LeftServer, Server, Skipped
<1>3. right \in Known(registry) => registry[s].right \in Switches
  BY <1>1 DEF RightServer, Server, Skipped
<1> HIDE DEF left, right
<1>4. CASE s \notin Known(registry)
  BY <1>4 DEF MakeFlowEntry, DropRule, NewRule, RelayPortExists, IsRelay, DROP, FORWARD
<1>5. CASE s \in Known(registry)
  <2>1. registry[s].left = Left[s] /\ registry[s].right = Right[s]
    BY <1>5 DEF TrueNeighbours, Known
  <2>2. left \in Known(registry) => Left[s] # Null
    BY <1>1, <1>2, <2>1
  <2>3. right \in Known(registry) => Right[s] # Null
    BY <1>1, <1>3, <2>1
  <2> QED BY <2>2, <2>3
          DEF MakeFlowEntry, DropRule, DeliverRule, ForwardRule, NewRule, RelayPortExists,
              IsRelay, Neighbour, DELIVER, DROP, FORWARD, PORT_1, PORT_2, left, right
<1> QED BY <1>4, <1>5

(* What a recv leaves behind was in the queue before.                    *)
LEMMA TailOfQueue ==
  ASSUME NEW T, NEW q \in Seq(T), NEW k \in 1 .. Len(q), NEW i \in 1 .. Len(AfterRecv(q, k))
  PROVE  \E j \in 1 .. Len(q) : AfterRecv(q, k)[i] = q[j]
<1>1. AfterRecv(q, k) = SubSeq(q, k + 1, Len(q))
  BY DEF AfterRecv
<1>2. /\ Len(SubSeq(q, k + 1, Len(q))) = Len(q) - k
      /\ \A j \in 1 .. Len(q) - k : SubSeq(q, k + 1, Len(q))[j] = q[k + j]
  OBVIOUS
<1>3. k + i \in 1 .. Len(q)
  BY <1>1, <1>2
<1> QED BY <1>1, <1>2, <1>3

(* Every step keeps PortInv: OPENs are true, so the registry is, so the  *)
(* answers name existing ports, so the tables do.                        *)
LEMMA PortStep ==
  ASSUME TypeOK, PortInv, [Next]_vars
  PROVE  PortInv'
<1>1. ChannelStep
  BY NextChannels
<1>2. ASSUME NEW c \in Conn PROVE OwnMessages(c)'
  <2>1. UpStep(c) /\ OwnMessages(c) /\ up[c] \in Seq(ToController)
    BY <1>1 DEF ChannelStep, PortInv, TypeOK, TransportTypeOK
  <2>2. CASE up'[c] = up[c] \/ up'[c] = <<>>
    BY <2>1, <2>2 DEF OwnMessages
  <2>3. ASSUME NEW k \in 1 .. Len(up[c]), up'[c] = AfterRecv(up[c], k)
        PROVE  OwnMessages(c)'
    BY <2>1, <2>3, TailOfQueue DEF OwnMessages, SentByOwner
  <2>4. ASSUME NEW p \in Packet, up'[c] = Append(up[c], QueryMsg(c[1], p))
        PROVE  OwnMessages(c)'
    <3>1. SentByOwner(c, QueryMsg(c[1], p))
      BY DEF SentByOwner, QueryMsg
    <3> DEFINE m == QueryMsg(c[1], p)
    <3> HIDE DEF m
    <3>2. \A i \in 1 .. Len(up[c]) + 1 : SentByOwner(c, Append(up[c], m)[i])
      BY <2>1, <3>1 DEF OwnMessages, m
    <3>3. Len(Append(up[c], m)) = Len(up[c]) + 1
      BY <2>1
    <3> QED BY <2>4, <3>2, <3>3 DEF OwnMessages, SentByOwner, m
  <2>5. ASSUME NEW range \in Ranges[c[1]], up'[c] = <<OpenMsg(c[1], range)>>
        PROVE  OwnMessages(c)'
    BY <2>5 DEF OwnMessages, SentByOwner, OpenMsg
  <2> QED BY <2>1, <2>2, <2>3, <2>4, <2>5 DEF UpStep
<1>3. ASSUME NEW c \in Conn PROVE RulesOnTheWay(c)'
  <2>1. DownStep(c) /\ RulesOnTheWay(c) /\ down[c] \in Seq(ToSwitch)
    BY <1>1 DEF ChannelStep, PortInv, TypeOK, TransportTypeOK
  <2>2. CASE down'[c] = down[c] \/ down'[c] = <<>>
    BY <2>1, <2>2 DEF RulesOnTheWay
  <2>3. ASSUME NEW k \in 1 .. Len(down[c]), down'[c] = AfterRecv(down[c], k)
        PROVE  RulesOnTheWay(c)'
    BY <2>1, <2>3, TailOfQueue DEF RulesOnTheWay
  <2>4. ASSUME NEW a, down'[c] = Append(down[c], a),
               a.type = "ADD" => RelayPortExists(c[1], a.rule)
        PROVE  RulesOnTheWay(c)'
    <3>1. Len(Append(down[c], a)) = Len(down[c]) + 1
      BY <2>1
    <3>2. ASSUME NEW i \in 1 .. Len(down[c]) + 1, Append(down[c], a)[i].type = "ADD"
          PROVE  RelayPortExists(c[1], Append(down[c], a)[i].rule)
      BY <2>1, <2>4, <3>2 DEF RulesOnTheWay
    <3> QED BY <2>4, <3>1, <3>2 DEF RulesOnTheWay
  <2>5. CASE down'[c] = Append(down[c], AckMsg)
    <3>1. AckMsg.type # "ADD"
      BY DEF AckMsg
    <3> QED BY <2>4, <2>5, <3>1
  <2>6. ASSUME up[c] # <<>>, Head(up[c]).type = "QUERY",
               down'[c] = Append(down[c], AddMsg(MakeFlowEntry(registry, Head(up[c]).id,
                                                               Head(up[c]).pkt)))
        PROVE  RulesOnTheWay(c)'
    <3> DEFINE m == Head(up[c])
    <3>1. m \in ToController /\ SentByOwner(c, m)
      <4>1. up[c] \in Seq(ToController) /\ OwnMessages(c)
        BY DEF TypeOK, TransportTypeOK, PortInv
      <4> QED BY <2>6, <4>1 DEF OwnMessages
    <3>2. m.id = c[1] /\ c[1] \in Switches /\ m.pkt \in Packet
      BY <2>6, <3>1 DEF SentByOwner, Conn, ToController
    <3>3. TrueNeighbours(c[1])
      BY <3>2 DEF PortInv
    <3>4. RelayPortExists(c[1], MakeFlowEntry(registry, m.id, m.pkt))
      BY <3>2, <3>3, AnswerHasPort
    <3> QED BY <2>4, <2>6, <3>4 DEF AddMsg
  <2> QED BY <2>1, <2>2, <2>3, <2>5, <2>6 DEF DownStep
<1>4. ASSUME NEW s \in Switches PROVE TrueNeighbours(s)'
  <2>1. RegistryStep(s) /\ TrueNeighbours(s)
    BY <1>1 DEF ChannelStep, PortInv
  <2>2. CASE registry'[s] = registry[s] \/ registry'[s] = NotKnown
    BY <2>1, <2>2 DEF TrueNeighbours
  <2>3. ASSUME NEW c \in Conn, up[c] # <<>>, Head(up[c]).type = "OPEN", Head(up[c]).id = s,
               registry'[s] = InfoOf(Head(up[c]))
        PROVE  TrueNeighbours(s)'
    <3>1. SentByOwner(c, Head(up[c]))
      <4>1. up[c] \in Seq(ToController) /\ OwnMessages(c)
        BY DEF TypeOK, TransportTypeOK, PortInv
      <4> QED BY <2>3, <4>1 DEF OwnMessages
    <3> QED BY <2>3, <3>1 DEF SentByOwner, TrueNeighbours, InfoOf
  <2> QED BY <2>1, <2>2, <2>3 DEF RegistryStep
<1>5. ASSUME NEW s \in Switches PROVE RulesInTable(s)'
  <2>1. OneOf(s) /\ RulesInTable(s) /\ table[s] \in Seq(Rule)
    BY SwitchStep DEF PortInv, TypeOK, SwitchTypeOK
  <2>2. CASE Gone(s)
    BY <2>2 DEF Gone, RulesInTable
  <2>3. CASE Begun(s)
    <3>1. PICK range \in IPRange : table'[s] = <<InitRule(range)>>
      BY <2>3 DEF Begun
    <3>2. ~IsRelay(InitRule(range))
      BY DEF InitRule, NewRule, IsRelay, PORT_1, PORT_2, PORT_3
    <3> QED BY <3>1, <3>2 DEF RulesInTable, RelayPortExists
  <2>4. CASE Same(s) \/ Asked(s) \/ Kept(s)
    BY <2>1, <2>4 DEF Same, Asked, Kept, RulesInTable
  <2>5. CASE Hit(s) \/ Solved(s)
    <3>1. PICK i \in 1 .. Len(table[s]) : table'[s] = Counted(table[s], i)
      BY <2>5 DEF Hit, Solved
    <3>2. Len(Counted(table[s], i)) = Len(table[s])
      BY <2>1, CountedRule
    <3>3. ASSUME NEW k \in 1 .. Len(table[s])
          PROVE  RelayPortExists(s, Counted(table[s], i)[k])
      <4>1. /\ table[s][k] \in Rule /\ RelayPortExists(s, table[s][k])
            /\ Counted(table[s], i)[k]
                 = [table[s][k] EXCEPT !.pktCount = Counted(table[s], i)[k].pktCount]
        BY <2>1, CountedRule DEF RulesInTable
      <4> QED BY <4>1 DEF RelayPortExists, IsRelay, Rule
    <3> QED BY <3>1, <3>2, <3>3 DEF RulesInTable
  <2>6. CASE Added(s)
    <3>1. PICK r \in Rule : /\ table'[s] = AddRule(table[s], r)
                            /\ down[Current(s)] # <<>>
                            /\ Head(down[Current(s)]) = AddMsg(r)
      BY <2>6 DEF Added
    <3>2. RelayPortExists(s, r)
      <4> DEFINE c == Current(s)
      <4>1. c[1] = s /\ c \in Conn
        BY <2>6, CurrentConn DEF Current, Added, TypeOK
      <4>2. down[c] \in Seq(ToSwitch) /\ RulesOnTheWay(c)
        BY <4>1 DEF PortInv, TypeOK, TransportTypeOK
      <4>3. 1 \in 1 .. Len(down[c]) /\ down[c][1] = AddMsg(r)
        BY <3>1, <4>2
      <4> QED BY <4>1, <4>2, <4>3 DEF RulesOnTheWay, AddMsg
    <3>3. AddRule(table[s], r) = table[s] \/ AddRule(table[s], r) = Append(table[s], r)
      BY DEF AddRule
    <3>4. \A i \in 1 .. Len(table[s]) + 1 : RelayPortExists(s, Append(table[s], r)[i])
      BY <2>1, <3>2 DEF RulesInTable
    <3>5. Len(Append(table[s], r)) = Len(table[s]) + 1
      BY <2>1
    <3> QED BY <2>1, <3>1, <3>3, <3>4, <3>5 DEF RulesInTable
  <2> QED BY <2>1, <2>2, <2>3, <2>4, <2>5, <2>6 DEF OneOf
<1> QED BY <1>2, <1>3, <1>4, <1>5 DEF PortInv

(*************************************************************************)
(* For every network, range and traffic: a rule that forwards names a    *)
(* port with a neighbour, in the table and on the way, so that no RELAY  *)
(* is written to the dummy connection of a missing neighbour             *)
(* (makeFlowEntry, isNullSwitchID).                                      *)
(*************************************************************************)
THEOREM PortsExist == Spec => []ForwardPortExists
<1>1. Init => PortInv
  BY DEF Init, TransportInit, ControllerInit, SwitchInit, PortInv, OwnMessages,
         RulesOnTheWay, TrueNeighbours, RulesInTable
<1>2. PortInv => ForwardPortExists
  BY DEF PortInv, RulesOnTheWay, RulesInTable, ForwardPortExists
<1> QED BY <1>1, <1>2, PortStep, TypeCorrect, PTL DEF Spec

-----------------------------------------------------------------------------
(* Sums over a sequence of numbers, as the listing adds up the counters. *)

(* The recursive function of a sum exists (see SearchUnfolds).           *)
LEMMA SumUnfolds ==
  ASSUME NEW f \in Seq(Nat)
  PROVE  /\ SumTo(f)[0] = 0
         /\ \A i \in 1 .. Len(f) : SumTo(f)[i] = SumTo(f)[i - 1] + f[i]
<1> DEFINE Adds(n, h) == h = [i \in 0 .. n |-> IF i = 0 THEN 0 ELSE h[i - 1] + f[i]]
           T == {n \in Nat : ~ \E h : Adds(n, h)}
<1>1. ASSUME T # {} PROVE FALSE
  <2>1. PICK x \in T : \A y \in T : x <= y
    <3>1. T \in SUBSET Nat
      OBVIOUS
    <3> HIDE DEF T
    <3> QED BY <1>1, <3>1, LeastNatural
  <2>2. CASE x = 0
    <3> DEFINE g == [i \in 0 .. 0 |-> 0]
    <3>1. Adds(0, g)
      OBVIOUS
    <3> QED BY <2>2, <3>1
  <2>3. CASE x # 0
    <3>1. x - 1 \in Nat /\ ~(x <= x - 1)
      BY <2>3
    <3>2. PICK h : Adds(x - 1, h)
      BY <2>1, <3>1
    <3> DEFINE g == [i \in 0 .. x |-> IF i = 0 THEN 0 ELSE h[i - 1] + f[i]]
    <3>3. \A i \in 1 .. x : i - 1 \in 0 .. x /\ i - 1 \in 0 .. (x - 1)
      BY <3>1
    <3>4. ASSUME NEW i \in 1 .. x PROVE g[i - 1] = h[i - 1]
      BY <3>2, <3>3
    <3>5. \A i \in 0 .. x : i # 0 => i \in 1 .. x
      OBVIOUS
    <3>6. Adds(x, g)
      BY <3>4, <3>5
    <3> QED BY <3>6
  <2> QED BY <2>2, <2>3
<1>2. Len(f) \in Nat
  OBVIOUS
<1>3. \E h : Adds(Len(f), h)
  BY <1>1, <1>2
<1>4. Adds(Len(f), SumTo(f))
  BY <1>3 DEF SumTo
<1> HIDE DEF T
<1> QED BY <1>2, <1>4

(* Sums of natural numbers are natural numbers.                          *)
LEMMA SumType ==
  ASSUME NEW f \in Seq(Nat), NEW n \in 0 .. Len(f)
  PROVE  SumTo(f)[n] \in Nat
<1> DEFINE S == SumTo(f)
           T == {k \in 0 .. Len(f) : S[k] \notin Nat}
<1>1. S[0] = 0 /\ \A i \in 1 .. Len(f) : S[i] = S[i - 1] + f[i]
  BY SumUnfolds
<1> HIDE DEF S
<1>2. ASSUME T # {} PROVE FALSE
  <2>1. PICK x \in T : \A y \in T : x <= y
    <3>1. T \in SUBSET Nat
      OBVIOUS
    <3> HIDE DEF T
    <3> QED BY <1>2, <3>1, LeastNatural
  <2>2. x # 0
    BY <1>1
  <2>3. x \in 1 .. Len(f) /\ x - 1 \in 0 .. Len(f) /\ ~(x <= x - 1)
    BY <2>2
  <2>4. S[x - 1] \in Nat /\ f[x] \in Nat
    BY <2>1, <2>3
  <2> QED BY <1>1, <2>3, <2>4
<1> QED BY <1>2 DEF S

(*************************************************************************)
(* Two sequences that agree up to n, but for one more at position i,     *)
(* have sums that agree before i and differ by one from there on.        *)
(*************************************************************************)
OneMore(f, g, i, n) == \A j \in 1 .. n : g[j] = f[j] + (IF j = i THEN 1 ELSE 0)

LEMMA SumOneMore ==
  ASSUME NEW f \in Seq(Nat), NEW g \in Seq(Nat), NEW i \in Nat, NEW n \in Nat,
         n <= Len(f), n <= Len(g), OneMore(f, g, i, n)
  PROVE  SumTo(g)[n] = SumTo(f)[n] + (IF 1 <= i /\ i <= n THEN 1 ELSE 0)
<1> DEFINE S == SumTo(f)
           R == SumTo(g)
           Holds(k) == R[k] = S[k] + (IF 1 <= i /\ i <= k THEN 1 ELSE 0)
           T == {k \in 0 .. n : ~Holds(k)}
<1>1. PICK lf \in Nat : lf = Len(f) /\ n <= lf
  OBVIOUS
<1>2. PICK lg \in Nat : lg = Len(g) /\ n <= lg
  OBVIOUS
<1>3. /\ S[0] = 0 /\ \A k \in 1 .. lf : S[k] = S[k - 1] + f[k]
      /\ R[0] = 0 /\ \A k \in 1 .. lg : R[k] = R[k - 1] + g[k]
  BY <1>1, <1>2, SumUnfolds
<1>4. /\ \A k \in 0 .. lf : S[k] \in Nat
      /\ \A k \in 1 .. lf : f[k] \in Nat
  BY <1>1, SumType
<1> HIDE DEF S, R
<1>5. ASSUME T # {} PROVE FALSE
  <2>1. PICK x \in T : \A y \in T : x <= y
    <3>1. T \in SUBSET Nat
      OBVIOUS
    <3> HIDE DEF T
    <3> QED BY <1>5, <3>1, LeastNatural
  <2>2. x # 0
    BY <1>3
  <2>3. x \in 1 .. n /\ x - 1 \in 0 .. n /\ ~(x <= x - 1)
    BY <2>2
  <2>4. Holds(x - 1)
    BY <2>1, <2>3
  <2>5. x \in 1 .. lf /\ x \in 1 .. lg /\ x - 1 \in 0 .. lf
    BY <1>1, <1>2, <2>3
  <2>6. PICK a \in Nat : a = S[x - 1]
    BY <1>4, <2>5
  <2>7. PICK b \in Nat : b = f[x]
    BY <1>4, <2>5
  <2>8. /\ S[x] = a + b
        /\ R[x - 1] = a + (IF 1 <= i /\ i <= x - 1 THEN 1 ELSE 0)
        /\ R[x] = R[x - 1] + (b + (IF x = i THEN 1 ELSE 0))
    BY <1>3, <2>3, <2>4, <2>5, <2>6, <2>7 DEF OneMore
  <2>9. Holds(x)
    BY <2>3, <2>8
  <2> QED BY <2>9
<1> QED BY <1>5 DEF S, R

(* The sum of a sequence with one element more, and with one more at a   *)
(* position.                                                             *)
LEMMA TotalAppend ==
  ASSUME NEW f \in Seq(Nat), NEW g \in Seq(Nat), NEW x \in Nat,
         NEW n \in Nat, n = Len(f), Len(g) = n + 1, g[n + 1] = x, OneMore(f, g, 0, n)
  PROVE  Total(g) = Total(f) + x
<1>1. SumTo(g)[n + 1] = SumTo(g)[n] + x
  <2>1. PICK m \in 1 .. Len(g) : m = n + 1
    OBVIOUS
  <2>2. SumTo(g)[m] = SumTo(g)[m - 1] + g[m]
    BY SumUnfolds
  <2> QED BY <2>1, <2>2
<1>2. SumTo(g)[n] = SumTo(f)[n]
  <2>1. PICK i \in Nat : i = 0
    OBVIOUS
  <2>2. n <= Len(f) /\ n <= Len(g) /\ ~(1 <= i)
    BY <2>1
  <2>3. SumTo(g)[n] = SumTo(f)[n] + (IF 1 <= i /\ i <= n THEN 1 ELSE 0)
    BY <2>1, <2>2, SumOneMore
  <2>4. SumTo(f)[n] \in Nat
    BY SumType
  <2> QED BY <2>2, <2>3, <2>4
<1> QED BY <1>1, <1>2 DEF Total

(* The sum of a sequence in which one element has grown by one.          *)
LEMMA TotalBump ==
  ASSUME NEW f \in Seq(Nat), NEW g \in Seq(Nat), NEW i \in Nat, Len(g) = Len(f),
         OneMore(f, g, i, Len(f))
  PROVE  Total(g) = Total(f) + (IF 1 <= i /\ i <= Len(f) THEN 1 ELSE 0)
<1>1. Len(f) \in Nat /\ Len(f) <= Len(f) /\ Len(f) <= Len(g)
  OBVIOUS
<1> QED BY <1>1, SumOneMore DEF Total

(* The sum of a sequence of numbers, and that of the empty one.          *)
LEMMA TotalType ==
  ASSUME NEW f \in Seq(Nat)
  PROVE  Total(f) \in Nat
<1>1. Len(f) \in 0 .. Len(f)
  OBVIOUS
<1> QED BY <1>1, SumType DEF Total

LEMMA TotalEmpty == Total(<<>>) = 0
<1>1. <<>> \in Seq(Nat) /\ Len(<<>>) = 0
  OBVIOUS
<1> QED BY <1>1, SumUnfolds DEF Total


-----------------------------------------------------------------------------
(* The counters of the rules of one kind: what `list' prints under ADMIT *)
(* and RELAYOUT, and the packets handled by any rule.                    *)
Kinds == {"local", "relay", "any"}

Covers(k, r) ==
  \/ k = "any"
  \/ k = "local" /\ IsLocal(r)
  \/ k = "relay" /\ IsRelay(r)

Part(k, q) == [i \in 1 .. Len(q) |-> IF Covers(k, q[i]) THEN q[i].pktCount ELSE 0]

(* A Part is a sequence of numbers, as long as the table.                *)
LEMMA PartType ==
  ASSUME NEW k, NEW q \in Seq(Rule)
  PROVE  /\ Part(k, q) \in Seq(Nat) /\ Len(Part(k, q)) = Len(q)
         /\ \A j \in 1 .. Len(q) :
              Part(k, q)[j] = IF Covers(k, q[j]) THEN q[j].pktCount ELSE 0
<1>1. PICK n \in Nat : n = Len(q)
  OBVIOUS
<1>2. \A j \in 1 .. n : q[j] \in Rule
  BY <1>1
<1>3. \A j \in 1 .. n : (IF Covers(k, q[j]) THEN q[j].pktCount ELSE 0) \in Nat
  BY <1>2 DEF Rule
<1>4. Part(k, q) = [j \in 1 .. n |-> IF Covers(k, q[j]) THEN q[j].pktCount ELSE 0]
  BY <1>1 DEF Part
<1>5. Part(k, q) \in [1 .. n -> Nat]
  BY <1>3, <1>4
<1> QED BY <1>1, <1>4, <1>5

(* A packet counted by rule i adds one to the kinds of that rule.        *)
LEMMA PartCounted ==
  ASSUME NEW k, NEW q \in Seq(Rule), NEW i \in 1 .. Len(q)
  PROVE  Total(Part(k, Counted(q, i))) = Total(Part(k, q)) + One(Covers(k, q[i]))
<1> DEFINE g == Counted(q, i)
           j == IF Covers(k, q[i]) THEN i ELSE 0
<1>1. PICK n \in Nat : n = Len(q)
  OBVIOUS
<1>2. /\ g \in Seq(Rule) /\ Len(g) = Len(q)
      /\ \A l \in 1 .. n : /\ g[l] = [q[l] EXCEPT !.pktCount = g[l].pktCount]
                           /\ g[l].pktCount = IF l = i THEN q[l].pktCount + 1 ELSE q[l].pktCount
  <2>1. g \in Seq(Rule)
    <3>1. PICK c \in Rule : g = [q EXCEPT ![i] = c]
      <4>1. [q[i] EXCEPT !.pktCount = @ + 1] \in Rule
        BY CountedOnce
      <4> QED BY <4>1 DEF Counted
    <3> HIDE DEF g
    <3> QED BY <3>1, ExceptSeq
  <2> QED BY <1>1, <2>1, CountedRule
<1> HIDE DEF g
<1>3. \A l \in 1 .. n : q[l] \in Rule /\ g[l] \in Rule
  BY <1>1, <1>2
<1>4. ASSUME NEW l \in 1 .. n PROVE Covers(k, g[l]) <=> Covers(k, q[l])
  <2>1. g[l].actionType = q[l].actionType /\ g[l].actionVal = q[l].actionVal
    BY <1>2, <1>3 DEF Rule
  <2> QED BY <2>1 DEF Covers, IsLocal, IsRelay
<1>5. OneMore(Part(k, q), Part(k, g), j, n)
  <2>1. ASSUME NEW l \in 1 .. n
        PROVE  Part(k, g)[l] = Part(k, q)[l] + (IF l = j THEN 1 ELSE 0)
    <3>1. PICK a \in Nat : a = q[l].pktCount
      BY <1>3 DEF Rule
    <3>2. Part(k, q)[l] = IF Covers(k, q[l]) THEN a ELSE 0
      BY <1>1, <3>1, PartType
    <3>3. Part(k, g)[l] = IF Covers(k, q[l]) THEN (IF l = i THEN a + 1 ELSE a) ELSE 0
      <4>1. g[l].pktCount = IF l = i THEN a + 1 ELSE a
        BY <1>2, <3>1
      <4>2. Part(k, g)[l] = IF Covers(k, g[l]) THEN g[l].pktCount ELSE 0
        BY <1>1, <1>2, PartType
      <4> QED BY <1>4, <4>1, <4>2
    <3>4. l # 0
      OBVIOUS
    <3> QED BY <3>2, <3>3, <3>4
  <2> QED BY <2>1 DEF OneMore
<1>6. /\ Part(k, q) \in Seq(Nat) /\ Len(Part(k, q)) = n
      /\ Part(k, g) \in Seq(Nat) /\ Len(Part(k, g)) = n
  BY <1>1, <1>2, PartType
<1>7. j \in Nat /\ (1 <= j /\ j <= n <=> Covers(k, q[i]))
  BY <1>1
<1> HIDE DEF j
<1>8. Total(Part(k, g)) = Total(Part(k, q)) + (IF 1 <= j /\ j <= n THEN 1 ELSE 0)
  BY <1>5, <1>6, <1>7, TotalBump
<1> QED BY <1>7, <1>8 DEF One, g

(* A rule that arrives has counted nothing, nor has the initial rule.    *)
LEMMA PartAdded ==
  ASSUME NEW k, NEW q \in Seq(Rule), NEW r \in Rule, r.pktCount = 0
  PROVE  Total(Part(k, AddRule(q, r))) = Total(Part(k, q))
<1> DEFINE g == Append(q, r)
<1>1. PICK n \in Nat : n = Len(q)
  OBVIOUS
<1>2. /\ g \in Seq(Rule) /\ Len(g) = n + 1 /\ g[n + 1] = r
      /\ \A j \in 1 .. n : g[j] = q[j]
  BY <1>1
<1> HIDE DEF g
<1>3. /\ Part(k, q) \in Seq(Nat) /\ Len(Part(k, q)) = n
      /\ \A j \in 1 .. n : Part(k, q)[j] = IF Covers(k, q[j]) THEN q[j].pktCount ELSE 0
  BY <1>1, PartType
<1>4. /\ Part(k, g) \in Seq(Nat) /\ Len(Part(k, g)) = n + 1
      /\ \A j \in 1 .. n + 1 : Part(k, g)[j] = IF Covers(k, g[j]) THEN g[j].pktCount ELSE 0
  BY <1>2, PartType
<1>5. OneMore(Part(k, q), Part(k, g), 0, n)
  <2>1. \A j \in 1 .. n : j \in 1 .. n + 1 /\ j # 0
    OBVIOUS
  <2>2. ASSUME NEW j \in 1 .. n PROVE Part(k, g)[j] = Part(k, q)[j]
    <3>1. Part(k, g)[j] = IF Covers(k, g[j]) THEN g[j].pktCount ELSE 0
      BY <1>4, <2>1
    <3>2. Part(k, q)[j] = IF Covers(k, q[j]) THEN q[j].pktCount ELSE 0
      BY <1>3
    <3>3. g[j] = q[j]
      BY <1>2
    <3> QED BY <3>1, <3>2, <3>3
  <2>3. ASSUME NEW j \in 1 .. n
        PROVE  Part(k, g)[j] = Part(k, q)[j] + (IF j = 0 THEN 1 ELSE 0)
    <3>1. PICK a \in Nat : a = Part(k, q)[j]
      BY <1>3
    <3> QED BY <2>1, <2>2, <3>1
  <2> QED BY <2>3 DEF OneMore
<1>6. Part(k, g)[n + 1] = 0
  BY <1>2, <1>4
<1>7. Total(Part(k, g)) = Total(Part(k, q)) + 0
  BY <1>3, <1>4, <1>5, <1>6, TotalAppend
<1>8. Total(Part(k, q)) \in Nat
  BY <1>3, TotalType
<1>9. AddRule(q, r) = q \/ AddRule(q, r) = g
  BY DEF AddRule, g
<1> QED BY <1>7, <1>8, <1>9

(* An empty table, or one with the initial rule, has counted nothing.    *)
LEMMA PartStart ==
  ASSUME NEW k
  PROVE  /\ Total(Part(k, <<>>)) = 0
         /\ \A range \in IPRange : Total(Part(k, <<InitRule(range)>>)) = 0
<1>1. Total(Part(k, <<>>)) = 0
  <2>1. Part(k, <<>>) = <<>>
    BY DEF Part
  <2> QED BY <2>1, TotalEmpty
<1>2. ASSUME NEW range \in IPRange PROVE Total(Part(k, <<InitRule(range)>>)) = 0
  <2>1. InitRule(range) \in Rule /\ InitRule(range).pktCount = 0
    BY MaxIPAssumption DEF InitRule, NewRule, Rule, IPRange, MIN_IP, FORWARD, PORT_0, PORT_3
  <2>2. AddRule(<<>>, InitRule(range)) = <<InitRule(range)>>
    BY DEF AddRule
  <2>3. <<>> \in Seq(Rule)
    OBVIOUS
  <2> QED BY <1>1, <2>1, <2>2, <2>3, PartAdded
<1> QED BY <1>1, <1>2

-----------------------------------------------------------------------------

(* ListingAddsUp at one switch, with what makes it inductive: a process  *)
(* that starts finds nothing left of an earlier one, and a rule on the   *)
(* way has counted nothing yet.                                          *)
ListedAt(s) ==
  /\ ~alive[s] => table[s] = <<>> /\ unsolved[s] = <<>>
  /\ count[s]["ADMIT"] = Total(Part("local", table[s]))
  /\ count[s]["tRELAY"] = Total(Part("relay", table[s]))
  /\ lines[s] + count[s]["rRELAY"] = Total(Part("any", table[s])) + Len(unsolved[s])

FreshRules(c) == \A i \in 1 .. Len(down[c]) : down[c][i].type = "ADD" => down[c][i].rule.pktCount = 0

ListedInv == (\A s \in Switches : ListedAt(s)) /\ (\A c \in Conn : FreshRules(c))

(* An answer of the controller has its counter at zero.                  *)
LEMMA FreshRulesStep ==
  ASSUME TypeOK, [Next]_vars, NEW c \in Conn, FreshRules(c)
  PROVE  FreshRules(c)'
<1>1. DownStep(c) /\ down[c] \in Seq(ToSwitch)
  BY NextChannels DEF ChannelStep, TypeOK, TransportTypeOK
<1>2. CASE down'[c] = down[c] \/ down'[c] = <<>>
  BY <1>2 DEF FreshRules
<1>3. ASSUME NEW k \in 1 .. Len(down[c]), down'[c] = AfterRecv(down[c], k)
      PROVE  FreshRules(c)'
  BY <1>1, <1>3, TailOfQueue DEF FreshRules
<1>4. ASSUME NEW a, down'[c] = Append(down[c], a), a.type = "ADD" => a.rule.pktCount = 0
      PROVE  FreshRules(c)'
  <2>1. Len(Append(down[c], a)) = Len(down[c]) + 1
    BY <1>1
  <2>2. ASSUME NEW i \in 1 .. Len(down[c]) + 1, Append(down[c], a)[i].type = "ADD"
        PROVE  Append(down[c], a)[i].rule.pktCount = 0
    BY <1>1, <1>4, <2>2 DEF FreshRules
  <2> QED BY <1>4, <2>1, <2>2 DEF FreshRules
<1>5. AckMsg.type # "ADD"
  BY DEF AckMsg
<1>6. ASSUME NEW id, NEW p
      PROVE  AddMsg(MakeFlowEntry(registry, id, p)).rule.pktCount = 0
  BY DEF AddMsg, MakeFlowEntry, DropRule, DeliverRule, ForwardRule, NewRule
<1> QED BY <1>1, <1>2, <1>3, <1>4, <1>5, <1>6 DEF DownStep

(* The rules of each kind explain the listing after a packet was counted.*)
LEMMA ListedCounted ==
  ASSUME TypeOK, NEW s \in Switches, ListedAt(s), NEW i \in 1 .. Len(table[s]),
         table'[s] = Counted(table[s], i), NEW h,
         Listed(s, One(IsLocal(table[s][i])), One(IsRelay(table[s][i])), h)
  PROVE  /\ count'[s]["ADMIT"] = Total(Part("local", table'[s]))
         /\ count'[s]["tRELAY"] = Total(Part("relay", table'[s]))
         /\ Total(Part("any", table'[s])) = Total(Part("any", table[s])) + 1
<1>1. table[s] \in Seq(Rule)
  BY DEF TypeOK, SwitchTypeOK
<1>2. \A k : Total(Part(k, table'[s])) = Total(Part(k, table[s])) + One(Covers(k, table[s][i]))
  BY <1>1, PartCounted
<1>3. /\ One(Covers("local", table[s][i])) = One(IsLocal(table[s][i]))
      /\ One(Covers("relay", table[s][i])) = One(IsRelay(table[s][i]))
      /\ One(Covers("any", table[s][i])) = 1
  BY DEF One, Covers
<1> QED BY <1>2, <1>3 DEF Listed, ListedAt

(* The sums of a table and the numbers of a listing are numbers.         *)
LEMMA ListedTypes ==
  ASSUME TypeOK, NEW s \in Switches
  PROVE  /\ count[s]["ADMIT"] \in Nat /\ count[s]["tRELAY"] \in Nat
         /\ lines[s] + count[s]["rRELAY"] \in Nat
         /\ Len(unsolved[s]) \in Nat
         /\ \A k : Total(Part(k, table[s])) \in Nat
<1>1. "ADMIT" \in Counts /\ "tRELAY" \in Counts /\ "rRELAY" \in Counts
  BY DEF Counts
<1>2. table[s] \in Seq(Rule) /\ unsolved[s] \in Seq(Packet)
  BY DEF TypeOK, SwitchTypeOK
<1>3. PICK h \in Nat : h = count[s]["rRELAY"]
  BY <1>1 DEF TypeOK, SwitchTypeOK
<1>4. PICK l \in Nat : l = lines[s]
  BY MaxLinesAssumption DEF TypeOK, SwitchTypeOK
<1>5. \A k : Total(Part(k, table[s])) \in Nat
  BY <1>2, PartType, TotalType
<1>6. count[s]["ADMIT"] \in Nat /\ count[s]["tRELAY"] \in Nat
  BY <1>1 DEF TypeOK, SwitchTypeOK
<1> QED BY <1>2, <1>3, <1>4, <1>5, <1>6

(* What a step does to one switch keeps its listing adding up.           *)
LEMMA ListedStep ==
  ASSUME TypeOK, NEW s \in Switches, OneOf(s), ListedAt(s),
         \A c \in Conn : FreshRules(c)
  PROVE  ListedAt(s)'
<1>1. /\ table[s] \in Seq(Rule) /\ unsolved[s] \in Seq(Packet)
      /\ iter[s] \in Nat /\ iter[s] <= Len(unsolved[s])
  BY DEF TypeOK, SwitchTypeOK
<1>2. PICK a \in Nat : a = count[s]["ADMIT"]
  BY ListedTypes
<1>3. PICK r \in Nat : r = count[s]["tRELAY"]
  BY ListedTypes
<1>4. PICK h \in Nat : h = lines[s] + count[s]["rRELAY"]
  BY ListedTypes
<1>5. PICK n \in Nat : n = Len(unsolved[s])
  BY ListedTypes
<1>6. PICK any \in Nat : any = Total(Part("any", table[s]))
  BY ListedTypes
<1>7. /\ a = Total(Part("local", table[s])) /\ r = Total(Part("relay", table[s]))
      /\ h = any + n
  BY <1>2, <1>3, <1>4, <1>5, <1>6 DEF ListedAt
<1>8. CASE Gone(s)
  <2>1. /\ count'[s]["ADMIT"] = 0 /\ count'[s]["tRELAY"] = 0 /\ count'[s]["rRELAY"] = 0
    BY <1>8 DEF Gone, Zero, Counts
  <2>2. lines'[s] + count'[s]["rRELAY"] = 0
    BY <1>8, <2>1 DEF Gone
  <2>3. table'[s] = <<>> /\ unsolved'[s] = <<>> /\ Len(<<>>) = 0
    BY <1>8 DEF Gone
  <2>4. \A k : Total(Part(k, table'[s])) = 0
    BY <2>3, PartStart
  <2> QED BY <2>1, <2>2, <2>3, <2>4 DEF ListedAt
<1>9. ASSUME Listed(s, 0, 0, 0), unsolved'[s] = unsolved[s],
             \A k : Total(Part(k, table'[s])) = Total(Part(k, table[s])),
             alive'[s] \/ (~alive[s] /\ table'[s] = table[s])
      PROVE  ListedAt(s)'
  <2>1. /\ count'[s]["ADMIT"] = a /\ count'[s]["tRELAY"] = r
        /\ lines'[s] + count'[s]["rRELAY"] = h
    BY <1>2, <1>3, <1>4, <1>9 DEF Listed
  <2> QED BY <1>5, <1>6, <1>7, <1>9, <2>1 DEF ListedAt
<1>10. CASE Begun(s)
  <2>1. table[s] = <<>>
    BY <1>10 DEF Begun, ListedAt
  <2>2. \A k : Total(Part(k, table'[s])) = Total(Part(k, table[s]))
    BY <1>10, <2>1, PartStart DEF Begun
  <2> QED BY <1>9, <1>10, <2>2 DEF Begun
<1>11. CASE Same(s)
  BY <1>9, <1>11 DEF Same
<1>12. CASE Kept(s)
  BY <1>9, <1>12 DEF Kept
<1>13. CASE Added(s)
  <2>1. PICK q \in Rule : /\ table'[s] = AddRule(table[s], q)
                          /\ down[Current(s)] # <<>>
                          /\ Head(down[Current(s)]) = AddMsg(q)
    BY <1>13 DEF Added
  <2>2. q.pktCount = 0
    <3> DEFINE c == Current(s)
    <3>1. c \in Conn
      BY <1>13, CurrentConn DEF Added, TypeOK
    <3>2. down[c] \in Seq(ToSwitch) /\ FreshRules(c)
      BY <3>1 DEF TypeOK, TransportTypeOK
    <3>3. 1 \in 1 .. Len(down[c]) /\ down[c][1] = AddMsg(q)
      BY <2>1, <3>2
    <3> QED BY <3>2, <3>3 DEF FreshRules, AddMsg
  <2>3. \A k : Total(Part(k, table'[s])) = Total(Part(k, table[s]))
    BY <1>1, <2>1, <2>2, PartAdded
  <2> QED BY <1>9, <1>13, <2>3 DEF Added
<1>14. CASE Asked(s)
  <2>1. PICK p \in Packet : unsolved'[s] = Append(unsolved[s], p)
    BY <1>14 DEF Asked
  <2>2. Len(unsolved'[s]) = n + 1
    BY <1>1, <1>5, <2>1
  <2>3. /\ count'[s]["ADMIT"] = a /\ count'[s]["tRELAY"] = r
        /\ lines'[s] + count'[s]["rRELAY"] = h + 1
    BY <1>2, <1>3, <1>4, <1>14 DEF Asked, Listed
  <2>4. table'[s] = table[s] /\ alive'[s]
    BY <1>14 DEF Asked
  <2>5. h + 1 = any + (n + 1)
    BY <1>7
  <2> QED BY <1>6, <1>7, <2>2, <2>3, <2>4, <2>5 DEF ListedAt
<1>15. CASE Hit(s)
  <2>1. PICK i \in 1 .. Len(table[s]) :
          /\ table'[s] = Counted(table[s], i)
          /\ Listed(s, One(IsLocal(table[s][i])), One(IsRelay(table[s][i])), 1)
    BY <1>15 DEF Hit
  <2>2. /\ count'[s]["ADMIT"] = Total(Part("local", table'[s]))
        /\ count'[s]["tRELAY"] = Total(Part("relay", table'[s]))
        /\ Total(Part("any", table'[s])) = any + 1
    BY <1>6, <2>1, ListedCounted
  <2>3. lines'[s] + count'[s]["rRELAY"] = h + 1
    BY <1>4, <2>1 DEF Listed
  <2>4. Len(unsolved'[s]) = n /\ alive'[s]
    BY <1>5, <1>15 DEF Hit
  <2>5. h + 1 = (any + 1) + n
    BY <1>7
  <2> QED BY <2>2, <2>3, <2>4, <2>5 DEF ListedAt
<1>16. CASE Solved(s)
  <2>1. PICK i \in 1 .. Len(table[s]) :
          /\ table'[s] = Counted(table[s], i)
          /\ Listed(s, One(IsLocal(table[s][i])), One(IsRelay(table[s][i])), 0)
    BY <1>16 DEF Solved
  <2>2. /\ count'[s]["ADMIT"] = Total(Part("local", table'[s]))
        /\ count'[s]["tRELAY"] = Total(Part("relay", table'[s]))
        /\ Total(Part("any", table'[s])) = any + 1
    BY <1>6, <2>1, ListedCounted
  <2>3. lines'[s] + count'[s]["rRELAY"] = h
    BY <1>4, <2>1 DEF Listed
  <2>4. Len(unsolved'[s]) = n - 1 /\ alive'[s]
    <3>1. iter[s] \in 1 .. Len(unsolved[s])
      BY <1>1, <1>16 DEF Solved
    <3> QED BY <1>1, <1>5, <1>16, <3>1, RemoveAtType DEF Solved
  <2>5. h = (any + 1) + (n - 1)
    BY <1>7
  <2> QED BY <2>2, <2>3, <2>4, <2>5 DEF ListedAt
<1> QED BY <1>8, <1>10, <1>11, <1>12, <1>13, <1>14, <1>15, <1>16 DEF OneOf

(* Every step keeps ListedInv.                                           *)
LEMMA ListedInvStep ==
  ASSUME TypeOK, ListedInv, [Next]_vars
  PROVE  ListedInv'
<1>1. ASSUME NEW s \in Switches PROVE ListedAt(s)'
  <2>1. OneOf(s)
    BY SwitchStep
  <2>2. ListedAt(s) /\ \A c \in Conn : FreshRules(c)
    BY DEF ListedInv
  <2> QED BY <2>1, <2>2, ListedStep
<1>2. ASSUME NEW c \in Conn PROVE FreshRules(c)'
  <2>1. FreshRules(c)
    BY DEF ListedInv
  <2> QED BY <2>1, FreshRulesStep
<1> QED BY <1>1, <1>2 DEF ListedInv

(*************************************************************************)
(* For every network, limit and traffic: the counters of the flow rules  *)
(* explain what `list' prints under ADMIT and RELAYOUT, and every header *)
(* that was read from the traffic file or a pipe is counted by one rule  *)
(* or is parked.  None is counted twice, none is forgotten, however many *)
(* rules arrive while packets wait (respondADDPacket,                    *)
(* resolveUnsolvedPackets, list).                                        *)
(*************************************************************************)
THEOREM ListingCorrect == Spec => []ListingAddsUp
<1>1. Init => ListedInv
  <2> SUFFICES ASSUME Init PROVE ListedInv
    OBVIOUS
  <2>1. ASSUME NEW s \in Switches PROVE ListedAt(s)
    <3>1. /\ table[s] = <<>> /\ unsolved[s] = <<>> /\ lines[s] = 0
          /\ count[s]["ADMIT"] = 0 /\ count[s]["tRELAY"] = 0 /\ count[s]["rRELAY"] = 0
      BY DEF Init, SwitchInit, Zero, Counts
    <3>2. \A k : Total(Part(k, table[s])) = 0
      BY <3>1, PartStart
    <3>3. Len(unsolved[s]) = 0
      BY <3>1
    <3> QED BY <3>1, <3>2, <3>3 DEF ListedAt
  <2>2. ASSUME NEW c \in Conn PROVE FreshRules(c)
    BY DEF Init, TransportInit, FreshRules
  <2> QED BY <2>1, <2>2 DEF ListedInv
<1>2. ListedInv => ListingAddsUp
  <2> SUFFICES ASSUME ListedInv, NEW s \in Switches
               PROVE  /\ count[s]["ADMIT"] = PktCount(s, IsLocal)
                      /\ count[s]["tRELAY"] = PktCount(s, IsRelay)
                      /\ lines[s] + count[s]["rRELAY"]
                           = PktCount(s, AnyRule) + Len(unsolved[s])
    BY DEF ListingAddsUp
  <2>1. ListedAt(s)
    BY DEF ListedInv
  <2>2. PktCount(s, IsLocal) = Total(Part("local", table[s]))
    BY DEF PktCount, Part, Covers
  <2>3. PktCount(s, IsRelay) = Total(Part("relay", table[s]))
    BY DEF PktCount, Part, Covers
  <2>4. PktCount(s, AnyRule) = Total(Part("any", table[s]))
    BY DEF PktCount, Part, Covers, AnyRule
  <2> QED BY <2>1, <2>2, <2>3, <2>4 DEF ListedAt
<1> QED BY <1>1, <1>2, ListedInvStep, TypeCorrect, PTL DEF Spec

-----------------------------------------------------------------------------
(*************************************************************************)
(* The switches stand in a line: the ids grow from left to right, with   *)
(* gaps perhaps, and two neighbours do not contradict each other.  A     *)
(* ring has no such numbers.                                             *)
(*************************************************************************)
InLine ==
  \A s \in Switches :
    /\ Left[s] # Null => Left[s] < s /\ Right[Left[s]] \in {Null, s}
    /\ Right[s] # Null => s < Right[s] /\ Left[Right[s]] \in {Null, s}

(*************************************************************************)
(* In a line a search that goes left from a switch comes back with one   *)
(* further left, and one that goes right with one further right: it      *)
(* never turns, since the way back is what lastSwitchID excludes.        *)
(*************************************************************************)
AheadOf(e, t) ==
  /\ e[1] = Left[e[2]] => t <= e[1]
  /\ e[1] = Right[e[2]] => t >= e[1]

LEMMA FoundAhead ==
  ASSUME InLine, registry \in [Switches -> SwitchInfo],
         \A s \in Switches : TrueNeighbours(s),
         NEW dst, NEW k \in 0 .. Fuel, NEW e \in Pairs
  PROVE  \/ Search(registry, dst)[k][e] \in {Loops, Null}
         \/ /\ Search(registry, dst)[k][e] \in Switches
            /\ AheadOf(e, Search(registry, dst)[k][e])
<1> DEFINE Good(c, t) == t \in {Loops, Null} \/ (t \in Switches /\ AheadOf(c, t))
           S == Search(registry, dst)
           T == {i \in 0 .. Fuel : ~ \A c \in Pairs : Good(c, S[i][c])}
<1>1. ASSUME T # {} PROVE FALSE
  <2>1. PICK x \in T : \A y \in T : x <= y
    <3>1. T \in SUBSET Nat
      OBVIOUS
    <3> HIDE DEF T
    <3> QED BY <1>1, <3>1, LeastNatural
  <2>2. CASE x = 0
    BY <2>2, SearchUnfolds
  <2>3. CASE x # 0
    <3>1. /\ x \in 1 .. Fuel /\ x - 1 \in 0 .. Fuel /\ ~(x <= x - 1)
      BY <2>3, FuelType
    <3>2. \A c \in Pairs : Good(c, S[x - 1][c])
      BY <2>1, <3>1
    <3>3. S[x] = Round(registry, dst, S[x - 1])
      BY <3>1, SearchUnfolds
    <3> HIDE DEF S
    <3>4. ASSUME NEW c \in Pairs PROVE Good(c, S[x][c])
      <4>1. PICK n \in Switches, from \in Switches : c = <<n, from>>
        BY DEF Pairs
      <4> DEFINE Via(m) == IF Skipped(m, from) THEN Null ELSE S[x - 1][<<m, n>>]
      <4>2. S[x][c] = IF n \notin Known(registry) THEN Null
                      ELSE IF InRange(registry, n, dst) THEN n
                      ELSE IF Via(registry[n].left) # Null THEN Via(registry[n].left)
                      ELSE Via(registry[n].right)
        BY <3>3, <4>1 DEF Round
      <4>3. Good(c, n)
        BY <4>1, SwitchesAssumption DEF AheadOf
      <4>4. Good(c, Null)
        OBVIOUS
      <4>5. ASSUME n \in Known(registry), NEW m \in {registry[n].left, registry[n].right},
                   ~Skipped(m, from)
            PROVE  Good(c, S[x - 1][<<m, n>>])
        <5>1. m \in Switches /\ m # from /\ m \in {Left[n], Right[n]}
          BY <4>5 DEF Skipped, TrueNeighbours, Known
        <5>2. Good(<<m, n>>, S[x - 1][<<m, n>>])
          BY <3>2, <5>1 DEF Pairs
        <5>3. SUFFICES ASSUME NEW t \in Switches, AheadOf(<<m, n>>, t) PROVE AheadOf(c, t)
          BY <5>2
        <5>4. /\ m = Left[n] => t <= m /\ m < n
              /\ m = Right[n] => t >= m /\ n < m
          BY <5>1, <5>3, SwitchesAssumption DEF AheadOf, InLine, Null
        <5>5. /\ n = Left[from] => Right[n] \in {Null, from}
              /\ n = Right[from] => Left[n] \in {Null, from}
          BY SwitchesAssumption DEF InLine, Null
        <5>6. m # Null
          BY <5>1, SwitchesAssumption DEF Null
        <5>7. /\ n = Left[from] => t <= n
              /\ n = Right[from] => t >= n
          BY <5>1, <5>4, <5>5, <5>6, SwitchesAssumption
        <5> QED BY <4>1, <5>7 DEF AheadOf
      <4>6. n \in Known(registry) => Good(c, Via(registry[n].left))
                                     /\ Good(c, Via(registry[n].right))
        BY <4>4, <4>5
      <4> HIDE DEF Via, Good
      <4> QED BY <4>2, <4>3, <4>4, <4>6
    <3> QED BY <2>1, <3>4
  <2> QED BY <2>2, <2>3
<1> QED BY <1>1

(* A rule that relays covers a range of some switch on the side of its   *)
(* port.                                                                 *)
Toward(s, r) ==
  IsRelay(r) => \E t \in Switches : \E range \in Ranges[t] :
                  /\ r.dstLow = range.low /\ r.dstHigh = range.high
                  /\ r.actionVal = PORT_1 => t <= Left[s]
                  /\ r.actionVal = PORT_2 => t >= Right[s]

(* An OPEN tells, and the controller knows, a range the switch may have. *)
RangesTold(c) ==
  \A i \in 1 .. Len(up[c]) : up[c][i].type = "OPEN" =>
    \E range \in Ranges[c[1]] : up[c][i].low = range.low /\ up[c][i].high = range.high

RangeKnown(s) ==
  registry[s] = NotKnown
  \/ \E range \in Ranges[s] : registry[s].low = range.low /\ registry[s].high = range.high

TowardOnTheWay(c) ==
  \A i \in 1 .. Len(down[c]) : down[c][i].type = "ADD" => Toward(c[1], down[c][i].rule)

TowardInTable(s) == \A i \in 1 .. Len(table[s]) : Toward(s, table[s][i])

(* A switch that may serve p is ahead of it; NoBounce says that all are. *)
Onward(e, p) == \E t \in Switches : MayServe(t, p.dst) /\ Ahead(e, t)

AllOnward(e) == \A i \in 1 .. Len(fifo[e]) : Onward(e, fifo[e][i])

(* The inductive invariant behind NoBounce, on top of PortInv.           *)
OnwardInv ==
  /\ \A c \in Conn : RangesTold(c) /\ TowardOnTheWay(c)
  /\ \A s \in Switches : RangeKnown(s) /\ TowardInTable(s)
  /\ \A e \in Links : AllOnward(e)

(* makeFlowEntry points towards the switch whose range it copies.        *)
LEMMA AnswerToward ==
  ASSUME InLine, registry \in [Switches -> SwitchInfo],
         \A s \in Switches : TrueNeighbours(s) /\ RangeKnown(s),
         NEW s \in Switches, NEW p \in Packet
  PROVE  Toward(s, MakeFlowEntry(registry, s, p))
<1> DEFINE left == LeftServer(registry, s, p.dst)
           right == RightServer(registry, s, p.dst)
<1>1. Known(registry) \subseteq Switches
  BY DEF Known
<1>2. ASSUME NEW n, NEW t \in Known(registry), s \in Known(registry),
             Server(registry, s, n, p.dst) = t, n \in {Left[s], Right[s]}
      PROVE  /\ n = Left[s] => t <= n
             /\ n = Right[s] => t >= n
  <2>1. Fuel \in 0 .. Fuel
    BY FuelType
  <2>2. t \in Switches /\ t # Null /\ t # Loops
    BY <1>1, SwitchesAssumption DEF Null, Loops
  <2>3. ~Skipped(n, s) /\ n \in Switches
    BY <1>2, <2>2 DEF Server, Skipped
  <2>4. <<n, s>> \in Pairs /\ Search(registry, p.dst)[Fuel][<<n, s>>] = t
    BY <1>2, <2>2, <2>3 DEF Server, Found, Pairs
  <2>5. AheadOf(<<n, s>>, t)
    BY <2>1, <2>2, <2>4, FoundAhead
  <2> QED BY <2>5 DEF AheadOf
<1>3. ASSUME NEW t \in Known(registry)
      PROVE  \E range \in Ranges[t] :
               registry[t].low = range.low /\ registry[t].high = range.high
  BY <1>3 DEF Known, RangeKnown
<1>4. s \in Known(registry) => registry[s].left = Left[s] /\ registry[s].right = Right[s]
  BY DEF Known, TrueNeighbours
<1>5. CASE s \in Known(registry) /\ left \in Known(registry)
           /\ MakeFlowEntry(registry, s, p) = ForwardRule(PORT_1, registry[left])
  <2>1. left <= Left[s]
    BY <1>2, <1>4, <1>5 DEF LeftServer
  <2> HIDE DEF left
  <2>2. left \in Switches
    BY <1>1, <1>5
  <2>3. PICK range \in Ranges[left] :
          registry[left].low = range.low /\ registry[left].high = range.high
    BY <1>3, <1>5
  <2> QED BY <1>5, <2>1, <2>2, <2>3 DEF Toward, ForwardRule, NewRule, PORT_1, PORT_2
<1>6. CASE s \in Known(registry) /\ right \in Known(registry)
           /\ MakeFlowEntry(registry, s, p) = ForwardRule(PORT_2, registry[right])
  <2>1. right >= Right[s]
    BY <1>2, <1>4, <1>6 DEF RightServer
  <2> HIDE DEF right
  <2>2. right \in Switches
    BY <1>1, <1>6
  <2>3. PICK range \in Ranges[right] :
          registry[right].low = range.low /\ registry[right].high = range.high
    BY <1>3, <1>6
  <2> QED BY <1>6, <2>1, <2>2, <2>3 DEF Toward, ForwardRule, NewRule, PORT_1, PORT_2
<1>7. CASE MakeFlowEntry(registry, s, p) \in {DropRule(p.dst), DeliverRule(p.dst)}
  BY <1>7 DEF Toward, DropRule, DeliverRule, NewRule, IsRelay, DELIVER, DROP, FORWARD
<1> QED BY <1>5, <1>6, <1>7 DEF MakeFlowEntry

-----------------------------------------------------------------------------
(* q has no packet that is not in pipe e.                                *)
Remains(e, q) ==
  q \in Seq(Packet) /\ \A i \in 1 .. Len(q) : \E j \in 1 .. Len(fifo[e]) : q[i] = fifo[e][j]

(* What a step can do to one pipe: take packets out of it, and append a  *)
(* packet that a relay rule of its writer matches.                       *)
Written(e, q, p) ==
  /\ Remains(e, q) /\ fifo'[e] = Append(q, p)
  /\ \E i \in 1 .. Len(table[e[1]]) :
       /\ IsRelay(table[e[1]][i]) /\ Matches(table[e[1]][i], p)
       /\ e[2] = Neighbour(e[1], table[e[1]][i].actionVal)

PipeStep(e) == Remains(e, fifo'[e]) \/ \E q : \E p \in Packet : Written(e, q, p)

(* Pipes from which some packets were taken.                             *)
Drained(f) == f \in [Links -> Seq(Packet)] /\ \A e \in Links : Remains(e, f[e])

LEMMA RemainsKept ==
  ASSUME TypeOK, NEW e \in Links
  PROVE  Remains(e, fifo[e]) /\ Remains(e, <<>>)
BY DEF Remains, TypeOK, TransportTypeOK

(* A read takes packets out of one pipe.                                 *)
LEMMA ReadDrains ==
  ASSUME TypeOK, NEW e \in Links, NEW k \in Nat
  PROVE  Drained(AfterRead(e, k))
<1>1. fifo[e] \in Seq(Packet) /\ AfterRead(e, k) \in [Links -> Seq(Packet)]
  BY ReadType DEF TypeOK, TransportTypeOK
<1>2. AfterRead(e, k)[e] = AfterRecv(fifo[e], k)
      /\ \A l \in Links \ {e} : AfterRead(e, k)[l] = fifo[l]
  BY DEF AfterRead, TypeOK, TransportTypeOK
<1>3. Remains(e, AfterRecv(fifo[e], k))
  <2>1. CASE k \in 1 .. Len(fifo[e])
    BY <1>1, <2>1, RecvType, TailOfQueue DEF Remains
  <2>2. CASE k = 0
    BY <1>1, <2>2 DEF AfterRecv, Remains
  <2>3. CASE k > Len(fifo[e])
    <3>1. AfterRecv(fifo[e], k) = <<>>
      BY <1>1, <2>3 DEF AfterRecv
    <3> QED BY <3>1, RemainsKept
  <2> QED BY <1>1, <2>1, <2>2, <2>3
<1> QED BY <1>1, <1>2, <1>3, RemainsKept DEF Drained

(* Handling a packet by the rule that matches it writes one packet to    *)
(* the pipe the rule names, or nothing.                                  *)
LEMMA ApplyPipes ==
  ASSUME NEW s \in Switches, NEW p \in Packet, NEW i \in 1 .. Len(table[s]),
         Matches(table[s][i], p), NEW seen, NEW f, Drained(f),
         Apply(s, p, i, seen, f), NEW e \in Links
  PROVE  PipeStep(e)
<1> DEFINE rule == table[s][i]
           to == <<s, Neighbour(s, rule.actionVal)>>
<1>1. CASE fifo' = f
  BY <1>1 DEF Drained, PipeStep
<1>2. CASE IsRelay(rule) /\ to \in Links /\ fifo' = [f EXCEPT ![to] = Append(@, p)]
  <2>1. CASE e # to
    BY <1>2, <2>1 DEF Drained, PipeStep
  <2>2. CASE e = to
    <3>1. fifo'[e] = Append(f[e], p) /\ Remains(e, f[e])
      BY <1>2, <2>2 DEF Drained
    <3>2. e[1] = s /\ e[2] = Neighbour(s, rule.actionVal)
      BY <2>2
    <3>3. Written(e, f[e], p)
      BY <1>2, <3>1, <3>2 DEF Written
    <3> QED BY <3>3 DEF PipeStep
  <2> QED BY <2>1, <2>2
<1>3. HasReader(to) => to \in Links
  BY DEF HasReader, Links
<1> HIDE DEF to
<1>4. fifo' = f \/ (IsRelay(rule) /\ WriteFifo(to, p, f))
  BY DEF Apply, to
<1> QED BY <1>1, <1>2, <1>3, <1>4 DEF WriteFifo

(* So does resolving a packet or asking about it.                        *)
LEMMA ResolveOrAskPipes ==
  ASSUME TypeOK, NEW s \in Switches, NEW p \in Packet, NEW seen, NEW f, Drained(f),
         ResolveOrAsk(s, p, seen, f), NEW e \in Links
  PROVE  PipeStep(e)
<1> DEFINE i == FlowEntryIndex(table[s], p)
<1>1. i \in 0 .. Len(table[s]) /\ (i > 0 => Matches(table[s][i], p))
  BY FirstMatch DEF TypeOK, SwitchTypeOK
<1> HIDE DEF i
<1>2. CASE i > 0 /\ Apply(s, p, i, seen, f)
  <2>1. i \in 1 .. Len(table[s])
    BY <1>1, <1>2
  <2> QED BY <1>1, <1>2, <2>1, ApplyPipes
<1>3. CASE SendQUERY(s, p, seen, f)
  BY <1>3 DEF SendQUERY, Drained, PipeStep
<1> QED BY <1>2, <1>3 DEF ResolveOrAsk, i

(* Every step of the network is a PipeStep for each pipe.                *)
LEMMA NextPipes ==
  ASSUME TypeOK, [Next]_vars, NEW e \in Links
  PROVE  PipeStep(e)
<1>1. fifo \in [Links -> Seq(Packet)] /\ Drained(fifo)
  BY RemainsKept DEF TypeOK, TransportTypeOK, Drained
<1>2. CASE UNCHANGED fifo
  BY <1>2, RemainsKept DEF PipeStep
<1>3. ControllerLoop \/ ControllerExit => UNCHANGED fifo
  BY DEF ControllerLoop, ControllerExit, PollFails, Accept, PollIdle, Serve, VisitIdle,
         Disconnect, RespondOPEN, RespondQUERY, ControllerGone, CloseController,
         transportVars
<1>4. ASSUME NEW s \in Switches, SwitchGone(s) PROVE PipeStep(e)
  <2>1. fifo'[e] \in {fifo[e], <<>>}
    BY <1>4 DEF SwitchGone, CloseSwitch
  <2> QED BY <2>1, RemainsKept DEF PipeStep
<1>5. ASSUME NEW s \in Switches, ResolveStep(s) PROVE PipeStep(e)
  <2> DEFINE p == unsolved[s][iter[s]]
             i == FlowEntryIndex(table[s], p)
  <2>1. /\ table[s] \in Seq(Rule) /\ unsolved[s] \in Seq(Packet)
        /\ iter[s] \in 1 .. Len(unsolved[s])
    BY <1>5 DEF ResolveStep, TypeOK, SwitchTypeOK
  <2>2. p \in Packet
    BY <2>1
  <2>3. i \in 0 .. Len(table[s]) /\ (i > 0 => Matches(table[s][i], p))
    BY <2>1, <2>2, FirstMatch
  <2> HIDE DEF i, p
  <2>4. CASE i > 0 /\ Apply(s, p, i, {}, fifo)
    <3>1. i \in 1 .. Len(table[s])
      BY <2>3, <2>4
    <3> QED BY <1>1, <2>2, <2>3, <2>4, <3>1, ApplyPipes
  <2> QED BY <1>2, <1>5, <2>4 DEF ResolveStep, i, p
<1>6. ASSUME NEW s \in Switches, NEW n \in Switches, RecvRELAY(s, n) PROVE PipeStep(e)
  <2> DEFINE p == Head(fifo[<<n, s>>])
             f == AfterRead(<<n, s>>, RelaysPerRead)
  <2>1. p \in Packet
    <3>1. fifo[<<n, s>>] # <<>> /\ fifo[<<n, s>>] \in Seq(Packet)
      BY <1>1, <1>6 DEF RecvRELAY, CanRead, Links
    <3> QED BY <3>1
  <2>2. Drained(f)
    BY ReadDrains, RelaysPerReadAssumption DEF Links
  <2> HIDE DEF p, f
  <2>3. CASE ResolveOrAsk(s, p, {"rRELAY"}, f)
    BY <2>1, <2>2, <2>3, ResolveOrAskPipes
  <2> QED BY <1>4, <1>6, <2>3 DEF RecvRELAY, p, f
<1>7. ASSUME NEW s \in Switches, ReadTraffic(s) PROVE PipeStep(e)
  <2>1. PICK p \in Packet : ResolveOrAsk(s, p, {}, fifo) \/ SwitchGone(s)
    BY <1>7, TrafficAssumption DEF ReadTraffic
  <2> QED BY <1>1, <1>4, <2>1, ResolveOrAskPipes
<1>10. ASSUME NEW s \in Switches, NEW n \in Switches, RecvTorn(s, n) PROVE PipeStep(e)
  <2>1. PICK k \in {RelaysPerRead, RelaysPerRead + 1} : fifo' = AfterRead(<<n, s>>, k)
    BY <1>10 DEF RecvTorn
  <2>2. k \in Nat /\ <<n, s>> \in Links
    BY RelaysPerReadAssumption DEF Links
  <2> QED BY <2>1, <2>2, ReadDrains DEF Drained, PipeStep
<1>8. ASSUME NEW s \in Switches, SwitchLoop(s) \/ Environment(s) PROVE PipeStep(e)
  <2>1. RecvSock(s) \/ Start(s) \/ SockIdle(s) => UNCHANGED fifo
    BY DEF RecvSock, Start, SockIdle, transportVars
  <2> QED BY <1>2, <1>4, <1>5, <1>6, <1>7, <1>8, <1>10, <2>1
          DEF SwitchLoop, Environment, ControllerLost, Exit, RecvRELAYFails
<1>9. UNCHANGED vars => UNCHANGED fifo
  BY DEF vars, transportVars
<1> QED BY <1>2, <1>3, <1>8, <1>9 DEF Next

(* What arrives at the end of a queue joins what was there.              *)
LEMMA JoinsQueue ==
  ASSUME NEW T, NEW q \in Seq(T), NEW a, NEW i \in 1 .. Len(Append(q, a))
  PROVE  \/ i \in 1 .. Len(q) /\ Append(q, a)[i] = q[i]
         \/ Append(q, a)[i] = a
<1>1. PICK n \in Nat : n = Len(q)
  OBVIOUS
<1>2. Len(Append(q, a)) = n + 1
  BY <1>1
<1>3. i = n + 1 \/ i \in 1 .. n
  BY <1>2
<1> QED BY <1>1, <1>3

(* The OPEN of a process tells the range it was started with.            *)
LEMMA RangesToldStep ==
  ASSUME TypeOK, ChannelStep, NEW c \in Conn, RangesTold(c)
  PROVE  RangesTold(c)'
<1>1. UpStep(c) /\ up[c] \in Seq(ToController)
  BY DEF ChannelStep, TypeOK, TransportTypeOK
<1>2. CASE up'[c] = up[c] \/ up'[c] = <<>>
  BY <1>2 DEF RangesTold
<1>3. ASSUME NEW k \in 1 .. Len(up[c]), up'[c] = AfterRecv(up[c], k)
      PROVE  RangesTold(c)'
  BY <1>1, <1>3, TailOfQueue DEF RangesTold
<1>4. ASSUME NEW p \in Packet, up'[c] = Append(up[c], QueryMsg(c[1], p))
      PROVE  RangesTold(c)'
  <2>1. PICK m : m = QueryMsg(c[1], p)
    OBVIOUS
  <2>2. m.type # "OPEN"
    BY <2>1 DEF QueryMsg
  <2>3. ASSUME NEW i \in 1 .. Len(Append(up[c], m)), Append(up[c], m)[i].type = "OPEN"
        PROVE  \E range \in Ranges[c[1]] :
                 Append(up[c], m)[i].low = range.low /\ Append(up[c], m)[i].high = range.high
    <3>1. i \in 1 .. Len(up[c]) /\ Append(up[c], m)[i] = up[c][i]
      BY <1>1, <2>2, <2>3, JoinsQueue
    <3> QED BY <2>3, <3>1 DEF RangesTold
  <2> QED BY <1>4, <2>1, <2>3 DEF RangesTold
<1>5. ASSUME NEW range \in Ranges[c[1]], up'[c] = <<OpenMsg(c[1], range)>>
      PROVE  RangesTold(c)'
  <2>1. OpenMsg(c[1], range).low = range.low /\ OpenMsg(c[1], range).high = range.high
    BY DEF OpenMsg
  <2> QED BY <1>5, <2>1 DEF RangesTold
<1> QED BY <1>1, <1>2, <1>3, <1>4, <1>5 DEF UpStep

(* What the controller keeps of a switch is what some OPEN of it told.   *)
LEMMA RangeKnownStep ==
  ASSUME TypeOK, ChannelStep, \A c \in Conn : OwnMessages(c) /\ RangesTold(c),
         NEW s \in Switches, RangeKnown(s)
  PROVE  RangeKnown(s)'
<1>1. RegistryStep(s)
  BY DEF ChannelStep
<1>2. CASE registry'[s] = registry[s] \/ registry'[s] = NotKnown
  BY <1>2 DEF RangeKnown
<1>3. ASSUME NEW c \in Conn, up[c] # <<>>, Head(up[c]).type = "OPEN", Head(up[c]).id = s,
             registry'[s] = InfoOf(Head(up[c]))
      PROVE  RangeKnown(s)'
  <2>1. 1 \in 1 .. Len(up[c]) /\ up[c][1] = Head(up[c])
    BY <1>3 DEF TypeOK, TransportTypeOK
  <2>2. c[1] = s
    BY <1>3, <2>1 DEF OwnMessages, SentByOwner
  <2>3. PICK range \in Ranges[s] :
          Head(up[c]).low = range.low /\ Head(up[c]).high = range.high
    BY <1>3, <2>1, <2>2 DEF RangesTold
  <2> QED BY <1>3, <2>3 DEF RangeKnown, InfoOf
<1> QED BY <1>1, <1>2, <1>3 DEF RegistryStep

(* An answer made from such a registry points the right way, and goes on *)
(* doing so while the registry changes under it.                         *)
LEMMA TowardOnTheWayStep ==
  ASSUME InLine, TypeOK, ChannelStep, \A s \in Switches : TrueNeighbours(s) /\ RangeKnown(s),
         NEW c \in Conn, OwnMessages(c), TowardOnTheWay(c)
  PROVE  TowardOnTheWay(c)'
<1>1. DownStep(c) /\ down[c] \in Seq(ToSwitch)
  BY DEF ChannelStep, TypeOK, TransportTypeOK
<1>2. CASE down'[c] = down[c] \/ down'[c] = <<>>
  BY <1>2 DEF TowardOnTheWay
<1>3. ASSUME NEW k \in 1 .. Len(down[c]), down'[c] = AfterRecv(down[c], k)
      PROVE  TowardOnTheWay(c)'
  BY <1>1, <1>3, TailOfQueue DEF TowardOnTheWay
<1>4. ASSUME NEW a, down'[c] = Append(down[c], a), a.type = "ADD" => Toward(c[1], a.rule)
      PROVE  TowardOnTheWay(c)'
  <2>1. ASSUME NEW i \in 1 .. Len(Append(down[c], a)), Append(down[c], a)[i].type = "ADD"
        PROVE  Toward(c[1], Append(down[c], a)[i].rule)
    <3>1. \/ i \in 1 .. Len(down[c]) /\ Append(down[c], a)[i] = down[c][i]
          \/ Append(down[c], a)[i] = a
      BY <1>1, JoinsQueue
    <3> QED BY <1>4, <2>1, <3>1 DEF TowardOnTheWay
  <2> QED BY <1>4, <2>1 DEF TowardOnTheWay
<1>5. AckMsg.type # "ADD"
  BY DEF AckMsg
<1>6. ASSUME up[c] # <<>>, Head(up[c]).type = "QUERY"
      PROVE  Toward(c[1], AddMsg(MakeFlowEntry(registry, Head(up[c]).id, Head(up[c]).pkt)).rule)
  <2> DEFINE m == Head(up[c])
  <2>1. m \in ToController /\ SentByOwner(c, m)
    <3>1. up[c] \in Seq(ToController)
      BY DEF TypeOK, TransportTypeOK
    <3> QED BY <1>6, <3>1 DEF OwnMessages
  <2>2. m.id = c[1] /\ c[1] \in Switches /\ m.pkt \in Packet
    BY <1>6, <2>1 DEF SentByOwner, Conn, ToController
  <2> HIDE DEF m
  <2>3. Toward(c[1], MakeFlowEntry(registry, c[1], m.pkt))
    BY <2>2, AnswerToward DEF TypeOK, ControllerTypeOK
  <2> QED BY <2>2, <2>3 DEF AddMsg, m
<1> QED BY <1>1, <1>2, <1>3, <1>4, <1>5, <1>6 DEF DownStep

(* A table gets its relay rules from such answers only.                  *)
LEMMA TowardInTableStep ==
  ASSUME TypeOK, NEW s \in Switches, OneOf(s), TowardInTable(s),
         \A c \in Conn : TowardOnTheWay(c)
  PROVE  TowardInTable(s)'
<1>1. table[s] \in Seq(Rule)
  BY DEF TypeOK, SwitchTypeOK
<1>2. CASE Gone(s)
  BY <1>2 DEF Gone, TowardInTable
<1>3. CASE Begun(s)
  <2>1. PICK range \in IPRange : table'[s] = <<InitRule(range)>>
    BY <1>3 DEF Begun
  <2>2. ~IsRelay(InitRule(range))
    BY DEF InitRule, NewRule, IsRelay, PORT_1, PORT_2, PORT_3
  <2> QED BY <2>1, <2>2 DEF TowardInTable, Toward
<1>4. CASE Same(s) \/ Asked(s) \/ Kept(s)
  BY <1>4 DEF Same, Asked, Kept, TowardInTable
<1>5. CASE Hit(s) \/ Solved(s)
  <2>1. PICK i \in 1 .. Len(table[s]) : table'[s] = Counted(table[s], i)
    BY <1>5 DEF Hit, Solved
  <2>2. Len(Counted(table[s], i)) = Len(table[s])
    BY <1>1, CountedRule
  <2>3. ASSUME NEW k \in 1 .. Len(table[s])
        PROVE  Toward(s, Counted(table[s], i)[k])
    <3>1. /\ table[s][k] \in Rule /\ Toward(s, table[s][k])
          /\ Counted(table[s], i)[k]
               = [table[s][k] EXCEPT !.pktCount = Counted(table[s], i)[k].pktCount]
      BY <1>1, CountedRule DEF TowardInTable
    <3> QED BY <3>1 DEF Toward, IsRelay, Rule
  <2> QED BY <2>1, <2>2, <2>3 DEF TowardInTable
<1>6. CASE Added(s)
  <2>1. PICK r \in Rule : /\ table'[s] = AddRule(table[s], r)
                          /\ down[Current(s)] # <<>>
                          /\ Head(down[Current(s)]) = AddMsg(r)
    BY <1>6 DEF Added
  <2>2. Toward(s, r)
    <3> DEFINE c == Current(s)
    <3>1. c[1] = s /\ c \in Conn
      BY <1>6, CurrentConn DEF Current, Added, TypeOK
    <3>2. down[c] \in Seq(ToSwitch) /\ TowardOnTheWay(c)
      BY <3>1 DEF TypeOK, TransportTypeOK
    <3>3. 1 \in 1 .. Len(down[c]) /\ down[c][1] = AddMsg(r)
      BY <2>1, <3>2
    <3> QED BY <3>1, <3>2, <3>3 DEF TowardOnTheWay, AddMsg
  <2>3. CASE table'[s] = table[s]
    BY <2>3 DEF TowardInTable
  <2>4. CASE table'[s] = Append(table[s], r)
    <3>1. ASSUME NEW i \in 1 .. Len(Append(table[s], r))
          PROVE  Toward(s, Append(table[s], r)[i])
      <4>1. \/ i \in 1 .. Len(table[s]) /\ Append(table[s], r)[i] = table[s][i]
            \/ Append(table[s], r)[i] = r
        BY <1>1, JoinsQueue
      <4> QED BY <2>2, <4>1 DEF TowardInTable
    <3> QED BY <2>4, <3>1 DEF TowardInTable
  <2> QED BY <2>1, <2>3, <2>4 DEF AddRule
<1> QED BY <1>2, <1>3, <1>4, <1>5, <1>6 DEF OneOf

(* A rule that matches a packet sends it on towards a switch that serves *)
(* it.                                                                   *)
LEMMA AllOnwardStep ==
  ASSUME InLine, TypeOK, NEW e \in Links, PipeStep(e), AllOnward(e),
         \A s \in Switches : TowardInTable(s)
  PROVE  AllOnward(e)'
<1>1. fifo[e] \in Seq(Packet) /\ e[1] \in Switches /\ e[2] \in Switches
  BY DEF TypeOK, TransportTypeOK, Links
<1>2. ASSUME NEW q, Remains(e, q), NEW k \in 1 .. Len(q) PROVE Onward(e, q[k])
  BY <1>2 DEF AllOnward, Remains
<1>4. CASE Remains(e, fifo'[e])
  BY <1>2, <1>4 DEF AllOnward
<1>3. ASSUME NEW q, NEW p \in Packet, Remains(e, q), NEW i \in 1 .. Len(table[e[1]]),
             IsRelay(table[e[1]][i]), Matches(table[e[1]][i], p),
             e[2] = Neighbour(e[1], table[e[1]][i].actionVal), fifo'[e] = Append(q, p)
      PROVE  AllOnward(e)'
  <2> DEFINE r == table[e[1]][i]
             s == e[1]
  <2>1. PICK t \in Switches : \E range \in Ranges[t] :
          /\ r.dstLow = range.low /\ r.dstHigh = range.high
          /\ r.actionVal = PORT_1 => t <= Left[s]
          /\ r.actionVal = PORT_2 => t >= Right[s]
    BY <1>1, <1>3 DEF TowardInTable, Toward
  <2>2. MayServe(t, p.dst)
    BY <1>3, <2>1 DEF MayServe, Matches
  <2>3. r.actionVal \in {PORT_1, PORT_2}
    BY <1>3 DEF IsRelay
  <2>4. IF e[2] = Left[s] THEN t <= e[2] ELSE t >= e[2]
    <3>1. CASE r.actionVal = PORT_1
      BY <1>3, <2>1, <3>1 DEF Neighbour
    <3>2. CASE r.actionVal = PORT_2
      <4>1. e[2] = Right[s] /\ t >= e[2]
        BY <1>3, <2>1, <3>2 DEF Neighbour, PORT_1, PORT_2
      <4>2. Left[s] # Null => Left[s] < s
        BY <1>1 DEF InLine
      <4>3. Right[s] # Null => s < Right[s]
        BY <1>1 DEF InLine
      <4>4. e[2] # Null /\ s \in Nat /\ e[2] \in Nat
        BY <1>1, SwitchesAssumption DEF Null
      <4>5. e[2] # Left[s]
        BY <4>1, <4>2, <4>3, <4>4
      <4> QED BY <4>1, <4>5
    <3> QED BY <2>3, <3>1, <3>2
  <2>5. Onward(e, p)
    BY <2>2, <2>4 DEF Onward, Ahead
  <2>6. ASSUME NEW k \in 1 .. Len(Append(q, p)) PROVE Onward(e, Append(q, p)[k])
    <3>1. \/ k \in 1 .. Len(q) /\ Append(q, p)[k] = q[k]
          \/ Append(q, p)[k] = p
      BY <1>3, JoinsQueue DEF Remains
    <3> QED BY <1>2, <1>3, <2>5, <3>1
  <2> QED BY <1>3, <2>6 DEF AllOnward
<1>5. ASSUME NEW q, NEW p \in Packet, Written(e, q, p) PROVE AllOnward(e)'
  BY <1>3, <1>5 DEF Written
<1> QED BY <1>4, <1>5 DEF PipeStep

(* OnwardInv is inductive, given the types and PortInv.                  *)
LEMMA OnwardStep ==
  ASSUME InLine, TypeOK, PortInv, OnwardInv, [Next]_vars
  PROVE  OnwardInv'
<1>1. ChannelStep
  BY NextChannels
<1>2. ASSUME NEW c \in Conn PROVE OwnMessages(c) /\ RangesTold(c) /\ TowardOnTheWay(c)
  BY DEF PortInv, OnwardInv
<1>3. ASSUME NEW s \in Switches
      PROVE  TrueNeighbours(s) /\ RangeKnown(s) /\ TowardInTable(s)
  BY DEF PortInv, OnwardInv
<1>4. ASSUME NEW c \in Conn PROVE RangesTold(c)' /\ TowardOnTheWay(c)'
  BY <1>1, <1>2, <1>3, RangesToldStep, TowardOnTheWayStep
<1>5. ASSUME NEW s \in Switches PROVE RangeKnown(s)' /\ TowardInTable(s)'
  <2>1. RangeKnown(s)'
    BY <1>1, <1>2, <1>3, RangeKnownStep
  <2>2. OneOf(s)
    BY SwitchStep
  <2>3. TowardInTable(s)'
    BY <1>2, <1>3, <2>2, TowardInTableStep
  <2> QED BY <2>1, <2>3
<1>6. ASSUME NEW e \in Links PROVE AllOnward(e)'
  <2>1. PipeStep(e) /\ AllOnward(e)
    BY NextPipes DEF OnwardInv
  <2> QED BY <1>3, <2>1, AllOnwardStep
<1> QED BY <1>4, <1>5, <1>6 DEF OnwardInv

(* No address may be served by two switches, whichever of its own ranges *)
(* each of them is started with.                                         *)
RangesDisjoint ==
  \A s, t \in Switches : \A dst \in Nat : MayServe(s, dst) /\ MayServe(t, dst) => s = t

(*************************************************************************)
(* For every line of switches whose ranges do not overlap, with whatever *)
(* ids, limits, restarts and traffic: a RELAY in a pipe goes towards the *)
(* one switch that may serve its destination.  A hop the other way would *)
(* have it behind, so no RELAY turns back, no matter when the rules that *)
(* brought it there were made (makeFlowEntry, resolvePacket).            *)
(*************************************************************************)
THEOREM NeverTurnsBack ==
  ASSUME InLine, RangesDisjoint
  PROVE  Spec => []NoBounce
<1>1. Init => PortInv /\ OnwardInv
  <2>1. Init => PortInv
    BY DEF Init, TransportInit, ControllerInit, SwitchInit, PortInv, OwnMessages,
           RulesOnTheWay, TrueNeighbours, RulesInTable
  <2>2. Init => OnwardInv
    BY DEF Init, TransportInit, ControllerInit, SwitchInit, OnwardInv, RangesTold,
           TowardOnTheWay, RangeKnown, TowardInTable, AllOnward
  <2> QED BY <2>1, <2>2
<1>2. TypeOK /\ PortInv /\ OnwardInv /\ [Next]_vars => PortInv' /\ OnwardInv'
  BY PortStep, OnwardStep
<1>3. TypeOK /\ OnwardInv => NoBounce
  <2>1. SUFFICES ASSUME TypeOK, OnwardInv, NEW e \in Links, NEW i \in 1 .. Len(fifo[e])
                 PROVE  LET servers == {t \in Switches : MayServe(t, fifo[e][i].dst)}
                        IN servers # {} /\ \A t \in servers : Ahead(e, t)
    BY Zenon DEF NoBounce
  <2>2. PICK u \in Switches : MayServe(u, fifo[e][i].dst) /\ Ahead(e, u)
    BY <2>1 DEF OnwardInv, AllOnward, Onward
  <2>3. fifo[e][i].dst \in Nat
    <3>1. fifo[e] \in Seq(Packet)
      BY <2>1 DEF TypeOK, TransportTypeOK
    <3>2. fifo[e][i] \in Packet
      BY <3>1
    <3> QED BY <3>2 DEF Packet
  <2>4. ASSUME NEW t \in Switches, MayServe(t, fifo[e][i].dst) PROVE t = u
    BY <2>2, <2>3, <2>4 DEF RangesDisjoint
  <2> QED BY <2>2, <2>4
<1> QED BY <1>1, <1>2, <1>3, TypeCorrect, PTL DEF Spec
=============================================================================
