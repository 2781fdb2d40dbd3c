------------------------- MODULE A3sdnSessionProofs -------------------------
(***************************************************************************)
(* The network implements Session, for every value of the constants, with  *)
(* two safety properties that the argument needs anyway.                   *)
(*                                                                         *)
(* NextEffect lists what a step can do to what a session is made of: the   *)
(* processes, the messages, the registrations and four counters.  The      *)
(* invariant (SessionInv) and the refinement are proved from that list.    *)
(***************************************************************************)
EXTENDS A3sdnProofs, A3sdnSession

(* The counters that record the messages of a session.                     *)
Greetings == {"tOPEN", "tQUERY", "rACK", "rADD"}

(* s counts one more message of a kind; no switch counts another one.      *)
Tallies(s, kind) ==
  \A t \in Switches, n \in Greetings :
    count'[t][n] = IF t = s /\ n = kind THEN count[t][n] + 1 ELSE count[t][n]

SameRules == \A t \in Switches : Len(table'[t]) = Len(table[t])

(* What a step can do to the sessions.                                     *)
Stops ==
  /\ ctrlUp /\ ctrlUp' = FALSE
  /\ up' = [c \in Conn |-> <<>>]
  /\ registry' = [s \in Switches |-> NotKnown]
  /\ switchFDMap' = {}
  /\ UNCHANGED <<alive, starts, down, table, count>>

Opens(s) ==
  /\ ctrlUp /\ ~alive[s] /\ starts[s] < MaxStarts
  /\ alive' = [alive EXCEPT ![s] = TRUE]
  /\ starts' = [starts EXCEPT ![s] = @ + 1]
  /\ \E range \in IPRange :
       /\ up' = [up EXCEPT ![<<s, starts[s] + 1>>] = <<OpenMsg(s, range)>>]
       /\ table' = [table EXCEPT ![s] = <<InitRule(range)>>]
  /\ Tallies(s, "tOPEN")
  /\ UNCHANGED <<ctrlUp, down, registry, switchFDMap>>

Closes(s) ==
  /\ alive[s]
  /\ alive' = [alive EXCEPT ![s] = FALSE]
  /\ down' = [down EXCEPT ![Current(s)] = <<>>]
  /\ table' = [table EXCEPT ![s] = <<>>]
  /\ count' = [count EXCEPT ![s] = Zero]
  /\ UNCHANGED <<ctrlUp, starts, up, registry, switchFDMap>>

Asks(s) ==
  /\ alive[s]
  /\ \/ ctrlUp /\ \E p \in Packet : up' = [up EXCEPT ![Current(s)] = Append(@, QueryMsg(s, p))]
     \/ ~ctrlUp /\ up' = up
  /\ Tallies(s, "tQUERY")
  /\ SameRules
  /\ UNCHANGED <<ctrlUp, alive, starts, down, registry, switchFDMap>>

(* The controller reads the message at the head of c and replies m.        *)
Replies(c, m) ==
  /\ ctrlUp /\ \E k \in 1 .. Len(up[c]) : up' = [up EXCEPT ![c] = AfterRecv(@, k)]
  /\ \/ PeerLive(c) /\ down' = [down EXCEPT ![c] = Append(@, m)]
     \/ ~PeerLive(c) /\ down' = down
  /\ UNCHANGED <<ctrlUp, alive, starts, table, count>>

Welcomes(c) ==
  /\ up[c] # <<>> /\ Head(up[c]).type = "OPEN"
  /\ Replies(c, AckMsg)
  /\ registry' = Register(registry, Head(up[c]))
  /\ switchFDMap' = switchFDMap \cup {c}

Answers(c) ==
  /\ up[c] # <<>> /\ Head(up[c]).type = "QUERY"
  /\ \E r \in Rule : Replies(c, AddMsg(r))
  /\ UNCHANGED <<registry, switchFDMap>>

(* s reads the message at the head of its connection.                      *)
Reads(s) ==
  LET c == Current(s)
  IN /\ alive[s] /\ \E k \in 1 .. Len(down[c]) : down' = [down EXCEPT ![c] = AfterRecv(@, k)]
     /\ \/ Head(down[c]).type = "ACK" /\ Tallies(s, "rACK") /\ SameRules
        \/ /\ Head(down[c]).type = "ADD" /\ Tallies(s, "rADD")
           /\ \E n \in {0, 1} : \A t \in Switches :
                Len(table'[t]) = IF t = s THEN Len(table[t]) + n ELSE Len(table[t])
     /\ UNCHANGED <<ctrlUp, alive, starts, up, registry, switchFDMap>>

(* s throws the message at the head of its connection away.                *)
Refuses(s) ==
  LET c == Current(s)
  IN /\ alive[s] /\ \E k \in 1 .. Len(down[c]) : down' = [down EXCEPT ![c] = AfterRecv(@, k)]
     /\ UNCHANGED <<ctrlUp, alive, starts, up, registry, switchFDMap, table, count>>

Leaves(c) ==
  /\ up[c] = <<>> /\ ~PeerLive(c)
  /\ up' = [up EXCEPT ![c] = <<>>]
  /\ switchFDMap' = switchFDMap \ {c}
  /\ UNCHANGED <<ctrlUp, alive, starts, down, registry, table, count>>

Works ==
  /\ \A t \in Switches, n \in Greetings : count'[t][n] = count[t][n]
  /\ SameRules
  /\ UNCHANGED <<ctrlUp, alive, starts, up, down, registry, switchFDMap>>

Effect ==
  \/ Stops \/ Works
  \/ \E s \in Switches : Opens(s) \/ Closes(s) \/ Asks(s) \/ Reads(s) \/ Refuses(s)
  \/ \E c \in Conn : Welcomes(c) \/ Answers(c) \/ Leaves(c)

-----------------------------------------------------------------------------
(* What Bump does to the counters of a session.                            *)
LEMMA BumpTally ==
  ASSUME TypeOK, NEW s \in Switches, NEW names \in SUBSET Counts, Bump(s, names)
  PROVE  /\ \A kind \in Greetings : names \cap Greetings = {kind} => Tallies(s, kind)
         /\ names \cap Greetings = {} =>
              \A t \in Switches, n \in Greetings : count'[t][n] = count[t][n]
<1>1. Greetings \subseteq Counts
  BY DEF Greetings, Counts
<1>2. ASSUME NEW t \in Switches, NEW n \in Greetings
      PROVE  count'[t][n] = IF t = s /\ n \in names THEN count[t][n] + 1 ELSE count[t][n]
  BY <1>1, <1>2 DEF Bump, TypeOK, SwitchTypeOK
<1> QED BY <1>2 DEF Tallies

(* Counting a packet leaves the number of rules as it is.                  *)
LEMMA SameRulesCounted ==
  ASSUME TypeOK, NEW s \in Switches, NEW i \in 1 .. Len(table[s]),
         table' = [table EXCEPT ![s] = Counted(@, i)]
  PROVE  SameRules
BY CountedRule DEF SameRules, TypeOK, SwitchTypeOK

(* A resolved or parked packet is a Works or an Asks.                      *)
LEMMA ResolveOrAskEffect ==
  ASSUME TypeOK, NEW s \in Switches, alive[s], NEW p \in Packet, NEW seen \in SUBSET {"rRELAY"},
         NEW f, ResolveOrAsk(s, p, seen, f),
         UNCHANGED <<ctrlUp, alive, starts, down, registry, switchFDMap>>
  PROVE  Effect
<1> DEFINE i == FlowEntryIndex(table[s], p)
<1>1. i \in 0 .. Len(table[s])
  BY FirstMatch DEF TypeOK, SwitchTypeOK
<1>2. /\ seen \cup {"ADMIT"} \in SUBSET Counts /\ seen \cup {"tRELAY"} \in SUBSET Counts
      /\ seen \in SUBSET Counts /\ seen \cup {"tQUERY"} \in SUBSET Counts
  BY DEF Counts
<1>3. /\ (seen \cup {"ADMIT"}) \cap Greetings = {} /\ (seen \cup {"tRELAY"}) \cap Greetings = {}
      /\ seen \cap Greetings = {} /\ (seen \cup {"tQUERY"}) \cap Greetings = {"tQUERY"}
  BY DEF Greetings
<1> HIDE DEF i
<1>4. CASE i > 0 /\ Apply(s, p, i, seen, f) /\ UNCHANGED <<unsolved, up, reset>>
  <2>1. SameRules
    <3>1. i \in 1 .. Len(table[s])
      <4>1. table[s] \in Seq(Rule)
        BY DEF TypeOK, SwitchTypeOK
      <4> QED BY <1>1, <1>4, <4>1
    <3>2. table' = [table EXCEPT ![s] = Counted(@, i)]
      BY <1>4 DEF Apply
    <3> QED BY <3>1, <3>2, SameRulesCounted
  <2>2. PICK names \in {seen, seen \cup {"ADMIT"}, seen \cup {"tRELAY"}} : Bump(s, names)
    BY <1>4 DEF Apply
  <2>3. \A t \in Switches, n \in Greetings : count'[t][n] = count[t][n]
    BY <1>2, <1>3, <2>2, BumpTally
  <2> QED BY <1>4, <2>1, <2>3 DEF Works, Effect
<1>5. CASE i = 0 /\ SendQUERY(s, p, seen, f)
  <2>1. Tallies(s, "tQUERY")
    BY <1>2, <1>3, <1>5, BumpTally DEF SendQUERY, Greetings
  <2>2. SameRules
    BY <1>5 DEF SendQUERY, SameRules
  <2>3. \/ ctrlUp /\ up' = [up EXCEPT ![Current(s)] = Append(@, QueryMsg(s, p))]
        \/ ~ctrlUp /\ up' = up
    BY <1>5 DEF SendQUERY, SendToController
  <2> QED BY <2>1, <2>2, <2>3 DEF Asks, Effect
<1> QED BY <1>4, <1>5 DEF ResolveOrAsk, i

(* A switch process that ends is a Closes.                                 *)
LEMMA SwitchGoneEffect ==
  ASSUME NEW s \in Switches, alive[s], SwitchGone(s), UNCHANGED controllerVars
  PROVE  Effect
BY DEF SwitchGone, CloseSwitch, controllerVars, Closes, Effect

(* The end of the controller is a Stops.                                   *)
LEMMA ControllerGoneEffect ==
  ASSUME NEW q, ctrlUp, ControllerGone(q), UNCHANGED switchVars
  PROVE  Effect
BY DEF ControllerGone, CloseController, switchVars, Stops, Effect

(* check_sock of the controller welcomes or answers, or the controller     *)
(* ends.                                                                   *)
LEMMA ServeEffect ==
  ASSUME TypeOK, NEW c \in Conn, Serve(c), UNCHANGED switchVars
  PROVE  Effect
<1> DEFINE m == Head(up[c])
<1>1. PICK k \in 1 .. Len(up[c]) :
        LET rest == [up EXCEPT ![c] = AfterRecv(@, k)]
        IN \/ m.type = "OPEN" /\ RespondOPEN(c, m, rest)
           \/ m.type = "QUERY" /\ RespondQUERY(c, m, rest)
  BY DEF Serve
<1> DEFINE rest == [up EXCEPT ![c] = AfterRecv(@, k)]
<1>2. up[c] \in Seq(ToController) /\ up[c] # <<>> /\ ctrlUp
  BY <1>1 DEF Serve, Visiting, TypeOK, TransportTypeOK
<1>3. m \in ToController
  BY <1>2
<1>4. ASSUME NEW a, Reply(c, a), up' = rest, UNCHANGED <<ctrlUp, alive, starts>>
      PROVE  Replies(c, a)
  BY <1>2, <1>4 DEF Reply, SendToSwitch, Replies, switchVars
<1> HIDE DEF m, rest
<1>5. CASE ControllerGone(rest)
  BY <1>2, <1>5, ControllerGoneEffect
<1>6. CASE /\ m.type = "OPEN" /\ registry' = Register(registry, m)
           /\ switchFDMap' = switchFDMap \cup {c} /\ Reply(c, AckMsg)
           /\ up' = rest /\ UNCHANGED <<alive, starts, ctrlUp>>
  BY <1>2, <1>4, <1>6 DEF Welcomes, Effect, m
<1>7. CASE /\ m.type = "QUERY" /\ Reply(c, AddMsg(MakeFlowEntry(registry, m.id, m.pkt)))
           /\ up' = rest /\ UNCHANGED <<alive, starts, ctrlUp, registry, switchFDMap>>
  <2>1. m.id \in Switches /\ m.pkt \in Packet
    BY <1>3, <1>7 DEF ToController
  <2>2. MakeFlowEntry(registry, m.id, m.pkt) \in Rule
    BY <2>1, MakeFlowEntryType DEF TypeOK, ControllerTypeOK
  <2> QED BY <1>2, <1>4, <1>7, <2>2 DEF Answers, Effect, m
<1> QED BY <1>1, <1>5, <1>6, <1>7 DEF RespondOPEN, RespondQUERY, rest

(* check_sock of a switch reads one message.                               *)
LEMMA RecvSockEffect ==
  ASSUME TypeOK, NEW s \in Switches, RecvSock(s), UNCHANGED controllerVars
  PROVE  Effect
<1> DEFINE c == Current(s)
           m == Head(down[c])
<1>1. c \in Conn /\ alive[s] /\ down[c] \in Seq(ToSwitch)
  BY CurrentConn DEF RecvSock, Polling, TypeOK, TransportTypeOK
<1>2. PICK k \in 1 .. Len(down[c]) :
        /\ down' = [down EXCEPT ![c] = AfterRecv(@, k)]
        /\ \/ m.type = "ADD" /\ RespondADD(s, m)
           \/ m.type = "ACK" /\ RespondACK(s)
           \/ UNCHANGED <<table, iter, count>>
  BY DEF RecvSock
<1>3. UNCHANGED <<ctrlUp, alive, starts, up, registry, switchFDMap>>
  BY DEF RecvSock, controllerVars
<1>4. \A kind \in {"rACK", "rADD"} : Bump(s, {kind}) => Tallies(s, kind)
  <2>1. \A kind \in {"rACK", "rADD"} : {kind} \in SUBSET Counts /\ {kind} \cap Greetings = {kind}
    BY DEF Counts, Greetings
  <2> QED BY <2>1, BumpTally DEF Greetings
<1>5. CASE m.type = "ADD" /\ RespondADD(s, m)
  <2>1. m \in ToSwitch
    BY <1>1, <1>2
  <2>2. m.rule \in Rule
    BY <1>5, <2>1 DEF ToSwitch
  <2>3. table' = [table EXCEPT ![s] = AddRule(@, m.rule)] /\ Bump(s, {"rADD"})
    BY <1>5 DEF RespondADD
  <2>4. PICK n \in {0, 1} : Len(AddRule(table[s], m.rule)) = Len(table[s]) + n
    <3>1. table[s] \in Seq(Rule)
      BY DEF TypeOK, SwitchTypeOK
    <3>2. Len(Append(table[s], m.rule)) = Len(table[s]) + 1 /\ Len(table[s]) = Len(table[s]) + 0
      BY <3>1
    <3> QED BY <3>2 DEF AddRule
  <2>5. \A t \in Switches : Len(table'[t]) = IF t = s THEN Len(table[t]) + n ELSE Len(table[t])
    BY <2>3, <2>4 DEF TypeOK, SwitchTypeOK
  <2>6. Tallies(s, "rADD")
    BY <1>4, <2>3
  <2> QED BY <1>1, <1>2, <1>3, <1>5, <2>5, <2>6 DEF Reads, Effect
<1>6. CASE m.type = "ACK" /\ RespondACK(s)
  BY <1>1, <1>2, <1>3, <1>4, <1>6 DEF RespondACK, SameRules, Reads, Effect
<1>7. CASE UNCHANGED <<table, iter, count>>
  BY <1>1, <1>2, <1>3, <1>7 DEF Refuses, Effect
<1> QED BY <1>2, <1>5, <1>6, <1>7

(* A start opens a session.                                                *)
LEMMA StartEffect ==
  ASSUME TypeOK, NEW s \in Switches, Start(s), UNCHANGED controllerVars
  PROVE  Effect
<1>1. PICK range \in IPRange :
        /\ up' = [up EXCEPT ![<<s, starts[s] + 1>>] = <<OpenMsg(s, range)>>]
        /\ table' = [table EXCEPT ![s] = <<InitRule(range)>>]
        /\ Bump(s, {"tOPEN"})
  BY RangesAssumption DEF Start
<1>2. Tallies(s, "tOPEN")
  <2>1. {"tOPEN"} \in SUBSET Counts /\ {"tOPEN"} \cap Greetings = {"tOPEN"}
    BY DEF Counts, Greetings
  <2> QED BY <1>1, <2>1, BumpTally DEF Greetings
<1> QED BY <1>1, <1>2 DEF Start, controllerVars, Opens, Effect

(* A round of resolveUnsolvedPackets touches no session.                   *)
LEMMA ResolveStepEffect ==
  ASSUME TypeOK, NEW s \in Switches, ResolveStep(s), UNCHANGED controllerVars
  PROVE  Effect
<1> DEFINE i == FlowEntryIndex(table[s], unsolved[s][iter[s]])
<1>1. /\ table[s] \in Seq(Rule) /\ unsolved[s] \in Seq(Packet)
      /\ iter[s] \in 1 .. Len(unsolved[s])
  BY DEF ResolveStep, TypeOK, SwitchTypeOK
<1>2. i \in 0 .. Len(table[s])
  <2>1. unsolved[s][iter[s]] \in Packet
    BY <1>1
  <2> QED BY <1>1, <2>1, FirstMatch
<1> HIDE DEF i
<1>3. UNCHANGED <<ctrlUp, alive, starts, up, down, registry, switchFDMap>>
  BY DEF ResolveStep, controllerVars
<1>4. CASE i > 0 /\ Apply(s, unsolved[s][iter[s]], i, {}, fifo)
  <2>1. i \in 1 .. Len(table[s]) /\ table' = [table EXCEPT ![s] = Counted(@, i)]
    BY <1>1, <1>2, <1>4 DEF Apply
  <2>2. PICK names \in {{}, {"ADMIT"}, {"tRELAY"}} : Bump(s, names)
    BY <1>4 DEF Apply
  <2>3. names \in SUBSET Counts /\ names \cap Greetings = {}
    BY DEF Counts, Greetings
  <2>4. \A t \in Switches, n \in Greetings : count'[t][n] = count[t][n]
    BY <2>2, <2>3, BumpTally
  <2> QED BY <1>3, <2>1, <2>4, SameRulesCounted DEF Works, Effect
<1>5. CASE UNCHANGED <<table, count>>
  BY <1>3, <1>5 DEF SameRules, Works, Effect
<1> QED BY <1>4, <1>5 DEF ResolveStep, i

(* check_connection and check_trafficFile resolve or park a packet, or the *)
(* process ends.                                                           *)
LEMMA PacketEffect ==
  ASSUME TypeOK, NEW s \in Switches, UNCHANGED controllerVars,
         ReadTraffic(s) \/ \E n \in Switches : RecvRELAY(s, n)
  PROVE  Effect
<1>1. CASE ReadTraffic(s)
  <2>1. PICK p \in Packet :
          \/ /\ ResolveOrAsk(s, p, {}, fifo)
             /\ UNCHANGED <<alive, starts, ctrlUp, pending, down, iter>>
          \/ SwitchGone(s)
    BY <1>1, TrafficAssumption DEF ReadTraffic
  <2>2. alive[s] /\ {} \in SUBSET {"rRELAY"} /\ UNCHANGED <<registry, switchFDMap>>
    BY <1>1 DEF ReadTraffic, Polling, controllerVars
  <2> QED BY <2>1, <2>2, ResolveOrAskEffect, SwitchGoneEffect
<1>2. ASSUME NEW n \in Switches, RecvRELAY(s, n) PROVE Effect
  <2> DEFINE p == Head(fifo[<<n, s>>])
             f == AfterRead(<<n, s>>, RelaysPerRead)
  <2>1. p \in Packet
    <3>1. fifo[<<n, s>>] # <<>> /\ fifo[<<n, s>>] \in Seq(Packet)
      BY <1>2 DEF RecvRELAY, CanRead, TypeOK, TransportTypeOK, Links
    <3> QED BY <3>1
  <2> HIDE DEF p, f
  <2>2. \/ /\ ResolveOrAsk(s, p, {"rRELAY"}, f)
           /\ UNCHANGED <<alive, starts, ctrlUp, pending, down, iter, lines>>
        \/ SwitchGone(s)
    BY <1>2 DEF RecvRELAY, p, f
  <2>3. /\ alive[s] /\ {"rRELAY"} \in SUBSET {"rRELAY"}
        /\ UNCHANGED <<registry, switchFDMap>>
    BY <1>2 DEF RecvRELAY, CanRead, Polling, controllerVars
  <2> QED BY <2>1, <2>2, <2>3, ResolveOrAskEffect, SwitchGoneEffect
<1> QED BY <1>1, <1>2

(* Every step of the network has one of the listed effects.                *)
LEMMA NextEffect ==
  ASSUME TypeOK, [Next]_vars
  PROVE  Effect
<1>1. CASE ControllerExit /\ UNCHANGED switchVars
  BY <1>1, ControllerGoneEffect DEF ControllerExit
<1>2. CASE ControllerLoop
  <2>1. UNCHANGED switchVars
    BY <1>2 DEF ControllerLoop
  <2>2. ASSUME UNCHANGED <<ctrlUp, alive, starts, up, down, registry, switchFDMap>>
        PROVE  Effect
    BY <2>1, <2>2 DEF switchVars, SameRules, Works, Effect
  <2>3. CASE PollFails
    BY <2>1, <2>3, ControllerGoneEffect DEF PollFails
  <2>4. CASE Accept \/ PollIdle \/ \E c \in Conn : VisitIdle(c)
    BY <2>2, <2>4 DEF Accept, PollIdle, VisitIdle, transportVars
  <2>5. ASSUME NEW c \in Conn, Disconnect(c) PROVE Effect
    BY <2>1, <2>5 DEF Disconnect, EndOfFile, CloseConnection, RegistryAfter, switchVars,
                      Leaves, Effect
  <2> QED BY <1>2, <2>1, <2>3, <2>4, <2>5, ServeEffect DEF ControllerLoop
<1>3. ASSUME NEW s \in Switches, SwitchLoop(s) \/ Environment(s) PROVE Effect
  <2>1. UNCHANGED controllerVars
    BY <1>3 DEF SwitchLoop, Environment
  <2>2. CASE ControllerLost(s) \/ Exit(s) \/ \E n \in Switches : RecvRELAYFails(s, n)
    BY <2>1, <2>2, SwitchGoneEffect DEF ControllerLost, Exit, RecvRELAYFails, CanRead, Polling
  <2>3. CASE SockIdle(s) \/ \E n \in Switches : RecvTorn(s, n)
    BY <2>1, <2>3 DEF SockIdle, RecvTorn, transportVars, controllerVars, SameRules, Works, Effect
  <2> QED BY <1>3, <2>1, <2>2, <2>3, RecvSockEffect, ResolveStepEffect, PacketEffect, StartEffect
          DEF SwitchLoop, Environment
<1>4. CASE UNCHANGED vars
  BY <1>4 DEF vars, transportVars, controllerVars, switchVars, SameRules, Works, Effect
<1> QED BY <1>1, <1>2, <1>3, <1>4 DEF Next

-----------------------------------------------------------------------------
(* The OPEN of c is not on its way any more.                               *)
Greeted(c) == up[c] = <<>> \/ up[c][1].type = "QUERY"

(* The messages of c: none before its switch is started; none to a switch  *)
(* that is gone; an OPEN only at the head, with a legal range.             *)
Ordered(c) ==
  /\ starts[c[1]] < c[2] => up[c] = <<>>
  /\ ~PeerLive(c) => down[c] = <<>>
  /\ \A i \in 1 .. Len(up[c]) :
       /\ up[c][i].id = c[1]
       /\ up[c][i].type = "OPEN" => i = 1 /\ up[c][i].low <= up[c][i].high

(* Nothing waits for a controller that is gone.                            *)
Silent(c) == ~ctrlUp => up[c] = <<>>

(* Who has been greeted is registered: on this connection, and by id.      *)
Enrolled(c) ==
  /\ ctrlUp /\ Greeted(c) /\ (PeerLive(c) \/ up[c] # <<>>) => c \in switchFDMap
  /\ c \in switchFDMap => registry[c[1]] # NotKnown

(* No more answers than messages sent.                                     *)
Tally(c, n) == count[c[1]][n]

Sums(c) ==
  /\ Tally(c, "tOPEN") = 1
  /\ Tally(c, "rACK") + Tally(c, "rADD") + Len(down[c]) + Len(up[c])
       <= Tally(c, "tOPEN") + Tally(c, "tQUERY")

(* The ACK is the first answer to be sent, and no answer is read before it.*)
AckFirst(c) ==
  /\ ~Greeted(c) => down[c] = <<>> /\ Tally(c, "rACK") = 0 /\ Tally(c, "rADD") = 0
  /\ \A i \in 1 .. Len(down[c]) :
       down[c][i].type = "ACK" => i = 1 /\ Tally(c, "rACK") = 0 /\ Tally(c, "rADD") = 0

(* Nothing but a rule is to come any more, and no more rules than QUERYs,  *)
(* once the ACK has been read or thrown away.                              *)
AckDue(c) == ~Greeted(c) \/ (down[c] # <<>> /\ down[c][1].type = "ACK")

Owed(c) ==
  ~AckDue(c) => Tally(c, "rADD") + Len(down[c]) + Len(up[c]) <= Tally(c, "tQUERY")

Balanced(c) == PeerLive(c) => Sums(c) /\ AckFirst(c) /\ Owed(c)

(* A switch that is down has counted nothing.                              *)
Fresh(s) == ~alive[s] => \A n \in Greetings : count[s][n] = 0

(* The inductive invariant behind the contract.                            *)
SessionInv ==
  /\ \A c \in Conn : Ordered(c) /\ Silent(c) /\ Enrolled(c) /\ Balanced(c)
  /\ \A s \in Switches : Fresh(s)

(* What a recv leaves of a queue.                                          *)
LEMMA RestOfQueue ==
  ASSUME NEW T, NEW q \in Seq(T), NEW k \in 1 .. Len(q)
  PROVE  /\ AfterRecv(q, k) \in Seq(T)
         /\ Len(AfterRecv(q, k)) = Len(q) - k
         /\ \A i \in 1 .. Len(q) - k : AfterRecv(q, k)[i] = q[k + i]
<1>1. k + 1 \in 1 .. Len(q) + 1 /\ Len(q) \in k .. Len(q)
  OBVIOUS
<1> QED BY <1>1 DEF AfterRecv

(* What an append makes of a queue.                                        *)
LEMMA LongerQueue ==
  ASSUME NEW T, NEW q \in Seq(T), NEW m
  PROVE  /\ Len(Append(q, m)) = Len(q) + 1 /\ Append(q, m) # <<>>
         /\ q # <<>> => Append(q, m)[1] = q[1]
         /\ q = <<>> => Append(q, m)[1] = m
<1>1. Len(Append(q, m)) = Len(q) + 1 /\ Append(q, m)[Len(q) + 1] = m
  OBVIOUS
<1>2. \A i \in 1 .. Len(q) : Append(q, m)[i] = q[i]
  OBVIOUS
<1>3. Len(q) + 1 # 0 /\ Len(<<>>) = 0
  OBVIOUS
<1>4. q # <<>> => 1 \in 1 .. Len(q)
  OBVIOUS
<1>5. q = <<>> => Len(q) + 1 = 1
  OBVIOUS
<1>6. Append(q, m) # <<>>
  BY <1>1, <1>3
<1> QED BY <1>1, <1>2, <1>4, <1>5, <1>6

(* What an append leaves in place.                                         *)
LEMMA LastOfQueue ==
  ASSUME NEW T, NEW q \in Seq(T), NEW m, NEW i \in 1 .. Len(Append(q, m))
  PROVE  (i \in 1 .. Len(q) /\ Append(q, m)[i] = q[i]) \/ Append(q, m)[i] = m
<1>1. Len(Append(q, m)) = Len(q) + 1 /\ Append(q, m)[Len(q) + 1] = m
  OBVIOUS
<1>2. \A j \in 1 .. Len(q) : Append(q, m)[j] = q[j]
  OBVIOUS
<1>3. i \in 1 .. Len(q) \/ i = Len(q) + 1
  BY <1>1
<1> QED BY <1>1, <1>2, <1>3

(* A connection is current for its switch exactly when it is the last one. *)
LEMMA WhenCurrent ==
  ASSUME TypeOK, NEW c \in Conn
  PROVE  /\ c[1] \in Switches /\ c[2] \in 1 .. MaxStarts /\ c = <<c[1], c[2]>>
         /\ \A s \in Switches : c = Current(s) <=> s = c[1] /\ starts[s] = c[2]
         /\ up[c] \in Seq(ToController) /\ down[c] \in Seq(ToSwitch)
BY DEF Conn, Current, TypeOK, TransportTypeOK

(* Each effect keeps the order of the messages of a connection.            *)
LEMMA OrderedStep ==
  ASSUME TypeOK, Effect, NEW c \in Conn, Ordered(c)
  PROVE  Ordered(c)'
<1>1. /\ c[1] \in Switches /\ c[2] \in 1 .. MaxStarts /\ c = <<c[1], c[2]>>
      /\ \A s \in Switches : c = Current(s) <=> s = c[1] /\ starts[s] = c[2]
      /\ up[c] \in Seq(ToController) /\ down[c] \in Seq(ToSwitch)
      /\ starts \in [Switches -> Nat] /\ alive \in [Switches -> BOOLEAN]
      /\ up \in [Conn -> Seq(ToController)] /\ down \in [Conn -> Seq(ToSwitch)]
  BY WhenCurrent, MaxStartsAssumption DEF TypeOK, TransportTypeOK
<1>2. CASE Stops
  BY <1>1, <1>2 DEF Stops, Ordered, PeerLive
<1>3. CASE Works
  BY <1>3 DEF Works, Ordered, PeerLive
<1>4. ASSUME NEW s \in Switches, Opens(s) PROVE Ordered(c)'
  <2>1. PICK range \in IPRange : up' = [up EXCEPT ![<<s, starts[s] + 1>>] = <<OpenMsg(s, range)>>]
    BY <1>4 DEF Opens
  <2>2. /\ ~alive[s] /\ down' = down /\ alive' = [alive EXCEPT ![s] = TRUE]
        /\ starts' = [starts EXCEPT ![s] = @ + 1]
    BY <1>4 DEF Opens
  <2>3. CASE c = <<s, starts[s] + 1>>
    <3>1. up'[c] = <<OpenMsg(s, range)>>
      BY <1>1, <2>1, <2>3
    <3>2. OpenMsg(s, range).id = c[1] /\ OpenMsg(s, range).low <= OpenMsg(s, range).high
      BY <2>3 DEF OpenMsg, IPRange
    <3>3. ~PeerLive(c) /\ ~(starts'[c[1]] < c[2])
      BY <1>1, <2>2, <2>3 DEF PeerLive
    <3> HIDE DEF OpenMsg
    <3> QED BY <2>2, <3>1, <3>2, <3>3 DEF Ordered, PeerLive
  <2>4. CASE c # <<s, starts[s] + 1>>
    <3>1. up'[c] = up[c] /\ down'[c] = down[c]
      BY <1>1, <2>1, <2>2, <2>4
    <3>2. (starts'[c[1]] < c[2] => starts[c[1]] < c[2]) /\ (~PeerLive(c)' => ~PeerLive(c))
      BY <1>1, <2>2 DEF PeerLive
    <3> QED BY <3>1, <3>2 DEF Ordered
  <2> QED BY <2>3, <2>4
<1>5. ASSUME NEW s \in Switches, Closes(s) PROVE Ordered(c)'
  BY <1>1, <1>5 DEF Closes, Ordered, PeerLive
<1>6. ASSUME NEW s \in Switches, Asks(s) PROVE Ordered(c)'
  <2>1. UNCHANGED <<starts, alive, down>> /\ alive[s]
    BY <1>6 DEF Asks
  <2>2. CASE up'[c] = up[c]
    BY <2>1, <2>2 DEF Ordered, PeerLive
  <2>3. ASSUME NEW p \in Packet, c = Current(s), up'[c] = Append(up[c], QueryMsg(s, p))
        PROVE  Ordered(c)'
    <3> DEFINE m == QueryMsg(s, p)
    <3>1. m.id = c[1] /\ m.type = "QUERY"
      BY <1>1, <2>3 DEF QueryMsg
    <3> HIDE DEF m
    <3>2. /\ Len(Append(up[c], m)) = Len(up[c]) + 1
          /\ \A i \in 1 .. Len(up[c]) + 1 :
               Append(up[c], m)[i] = IF i <= Len(up[c]) THEN up[c][i] ELSE m
      BY <1>1
    <3>3. \A i \in 1 .. Len(up'[c]) :
            /\ up'[c][i].id = c[1]
            /\ up'[c][i].type = "OPEN" => i = 1 /\ up'[c][i].low <= up'[c][i].high
      BY <1>1, <2>3, <3>1, <3>2 DEF Ordered, m
    <3>4. ~(starts[c[1]] < c[2])
      BY <1>1, <2>3
    <3> QED BY <2>1, <3>3, <3>4 DEF Ordered, PeerLive
  <2> QED BY <1>1, <1>6, <2>2, <2>3 DEF Asks
<1>7. ASSUME NEW d \in Conn, NEW m, Replies(d, m) PROVE Ordered(c)'
  <2>1. PICK k \in 1 .. Len(up[d]) : up' = [up EXCEPT ![d] = AfterRecv(@, k)]
    BY <1>7 DEF Replies
  <2>2. UNCHANGED <<starts, alive>> /\ (~PeerLive(c) => down'[c] = down[c])
    BY <1>1, <1>7 DEF Replies
  <2>3. CASE c = d
    <3>1. /\ up'[c] = AfterRecv(up[c], k) /\ Len(up'[c]) = Len(up[c]) - k
          /\ \A i \in 1 .. Len(up[c]) - k : up'[c][i] = up[c][k + i]
      BY <1>1, <2>1, <2>3, RestOfQueue
    <3>2. \A i \in 1 .. Len(up'[c]) : k + i \in 1 .. Len(up[c]) /\ k + i # 1
      BY <1>1, <2>3, <3>1
    <3>3. \A i \in 1 .. Len(up'[c]) : up'[c][i].id = c[1] /\ up'[c][i].type # "OPEN"
      BY <3>1, <3>2 DEF Ordered
    <3>4. starts[c[1]] < c[2] => Len(up[c]) = 0
      BY DEF Ordered
    <3>5. ~(starts[c[1]] < c[2])
      BY <2>1, <2>3, <3>4
    <3> QED BY <2>2, <3>3, <3>5 DEF Ordered, PeerLive
  <2>4. CASE c # d
    BY <1>1, <2>1, <2>2, <2>4 DEF Ordered, PeerLive
  <2> QED BY <2>3, <2>4
<1>8. ASSUME NEW s \in Switches, Reads(s) \/ Refuses(s) PROVE Ordered(c)'
  <2>1. UNCHANGED <<starts, alive, up>> /\ alive[s]
    BY <1>8 DEF Reads, Refuses
  <2>2. ~PeerLive(c) => down'[c] = down[c]
    BY <1>1, <1>8 DEF Reads, Refuses, PeerLive
  <2> QED BY <2>1, <2>2 DEF Ordered, PeerLive
<1>9. ASSUME NEW d \in Conn, Leaves(d) PROVE Ordered(c)'
  <2>1. up'[c] = up[c] /\ UNCHANGED <<starts, alive, down>>
    BY <1>1, <1>9 DEF Leaves
  <2> QED BY <2>1 DEF Ordered, PeerLive
<1> QED BY <1>2, <1>3, <1>4, <1>5, <1>6, <1>7, <1>8, <1>9 DEF Effect, Welcomes, Answers

(* Only a running controller is sent anything.                             *)
LEMMA SilentStep ==
  ASSUME TypeOK, Effect, NEW c \in Conn, Silent(c)
  PROVE  Silent(c)'
<1>1. up \in [Conn -> Seq(ToController)]
  BY DEF TypeOK, TransportTypeOK
<1>2. CASE Stops \/ Works
  BY <1>1, <1>2 DEF Stops, Works, Silent
<1>3. ASSUME NEW s \in Switches, Opens(s) \/ Closes(s) \/ Asks(s) \/ Reads(s) \/ Refuses(s)
      PROVE  Silent(c)'
  BY <1>1, <1>3 DEF Opens, Closes, Asks, Reads, Refuses, Silent
<1>4. ASSUME NEW d \in Conn, Welcomes(d) \/ Answers(d) \/ Leaves(d) PROVE Silent(c)'
  BY <1>1, <1>4 DEF Welcomes, Answers, Leaves, Replies, Silent
<1> QED BY <1>2, <1>3, <1>4 DEF Effect

(* Nothing that is not in the registry stays enrolled, and no reply or     *)
(* disconnection makes a greeted connection unknown.                       *)
LEMMA EnrolledStep ==
  ASSUME TypeOK, Effect, NEW c \in Conn, Ordered(c), Enrolled(c),
         \A d \in Conn : Ordered(d)
  PROVE  Enrolled(c)'
<1>1. /\ c[1] \in Switches /\ c[2] \in 1 .. MaxStarts /\ c = <<c[1], c[2]>>
      /\ \A s \in Switches : c = Current(s) <=> s = c[1] /\ starts[s] = c[2]
      /\ up[c] \in Seq(ToController)
      /\ starts \in [Switches -> Nat] /\ alive \in [Switches -> BOOLEAN]
      /\ up \in [Conn -> Seq(ToController)] /\ registry \in [Switches -> SwitchInfo]
  BY WhenCurrent, MaxStartsAssumption DEF TypeOK, TransportTypeOK, ControllerTypeOK
<1>2. CASE Stops
  BY <1>2 DEF Stops, Enrolled
<1>3. CASE Works
  BY <1>3 DEF Works, Enrolled, Greeted, PeerLive
<1>4. ASSUME NEW s \in Switches, Opens(s) PROVE Enrolled(c)'
  <2>1. PICK range \in IPRange : up' = [up EXCEPT ![<<s, starts[s] + 1>>] = <<OpenMsg(s, range)>>]
    BY <1>4 DEF Opens
  <2>2. /\ ~alive[s] /\ alive' = [alive EXCEPT ![s] = TRUE]
        /\ starts' = [starts EXCEPT ![s] = @ + 1]
        /\ UNCHANGED <<ctrlUp, registry, switchFDMap>>
    BY <1>4 DEF Opens
  <2>3. CASE c = <<s, starts[s] + 1>>
    <3>1. up'[c] = <<OpenMsg(s, range)>>
      BY <1>1, <2>1, <2>3
    <3>2. ~Greeted(c)'
      BY <3>1 DEF Greeted, OpenMsg
    <3> QED BY <2>2, <3>2 DEF Enrolled
  <2>4. CASE c # <<s, starts[s] + 1>>
    <3>1. up'[c] = up[c]
      BY <1>1, <2>1, <2>4
    <3>2. PeerLive(c)' => PeerLive(c)
      BY <1>1, <2>2, <2>4 DEF PeerLive
    <3> QED BY <2>2, <3>1, <3>2 DEF Enrolled, Greeted
  <2> QED BY <2>3, <2>4
<1>5. ASSUME NEW s \in Switches, Closes(s) PROVE Enrolled(c)'
  BY <1>1, <1>5 DEF Closes, Enrolled, Greeted, PeerLive
<1>6. ASSUME NEW s \in Switches, Asks(s) PROVE Enrolled(c)'
  <2>1. UNCHANGED <<starts, alive, ctrlUp, registry, switchFDMap>> /\ alive[s]
    BY <1>6 DEF Asks
  <2>2. CASE up'[c] = up[c]
    BY <2>1, <2>2 DEF Enrolled, Greeted, PeerLive
  <2>3. ASSUME NEW p \in Packet, c = Current(s), up'[c] = Append(up[c], QueryMsg(s, p))
        PROVE  Enrolled(c)'
    <3>1. PeerLive(c)
      BY <1>1, <2>1, <2>3 DEF PeerLive
    <3>2. Greeted(c)' => Greeted(c)
      <4> DEFINE m == QueryMsg(s, p)
      <4> HIDE DEF m
      <4>1. up[c] # <<>> => Append(up[c], m)[1] = up[c][1]
        BY <1>1, LongerQueue
      <4>2. Append(up[c], m) # <<>>
        BY <1>1, LongerQueue
      <4> QED BY <2>3, <4>1, <4>2 DEF Greeted, m
    <3> QED BY <2>1, <3>1, <3>2 DEF Enrolled
  <2> QED BY <1>1, <1>6, <2>2, <2>3 DEF Asks
<1>7. ASSUME NEW d \in Conn, NEW m, Replies(d, m), up[d] # <<>>,
             Head(up[d]).type = "QUERY" => c \in switchFDMap' \/ c # d \/ ~ctrlUp \/ ~Greeted(c),
             Head(up[d]).type = "OPEN" => c \in switchFDMap' \/ c # d,
             switchFDMap \subseteq switchFDMap',
             c \in switchFDMap' => registry'[c[1]] # NotKnown
      PROVE  Enrolled(c)'
  <2>1. PICK k \in 1 .. Len(up[d]) : up' = [up EXCEPT ![d] = AfterRecv(@, k)]
    BY <1>7 DEF Replies
  <2>2. UNCHANGED <<starts, alive, ctrlUp>>
    BY <1>7 DEF Replies
  <2>3. CASE c = d
    <3>1. Head(up[d]) \in ToController /\ Head(up[d]) = up[c][1]
      BY <1>1, <1>7, <2>3
    <3>2. Head(up[d]).type \in {"OPEN", "QUERY"}
      BY <3>1 DEF ToController
    <3>3. Head(up[d]).type = "QUERY" => Greeted(c)
      BY <3>1 DEF Greeted
    <3> QED BY <1>7, <2>2, <2>3, <3>2, <3>3 DEF Enrolled
  <2>4. CASE c # d
    BY <1>1, <1>7, <2>1, <2>2, <2>4 DEF Enrolled, Greeted, PeerLive
  <2> QED BY <2>3, <2>4
<1>8. ASSUME NEW d \in Conn, Welcomes(d) PROVE Enrolled(c)'
  <2>1. /\ up[d] # <<>> /\ Head(up[d]).type = "OPEN" /\ Replies(d, AckMsg)
        /\ registry' = Register(registry, Head(up[d]))
        /\ switchFDMap' = switchFDMap \cup {d}
    BY <1>8 DEF Welcomes
  <2>2. up[d] \in Seq(ToController) /\ Head(up[d]) = up[d][1] /\ 1 \in 1 .. Len(up[d])
    BY <2>1 DEF TypeOK, TransportTypeOK
  <2>3. Head(up[d]).id = d[1] /\ Head(up[d]).low <= Head(up[d]).high /\ up[d][1] \in ToController
    BY <2>1, <2>2 DEF Ordered
  <2>4. InfoOf(Head(up[d])) # NotKnown
    BY <2>1, <2>2, <2>3 DEF InfoOf, NotKnown, ToController
  <2>5. registry'[d[1]] = InfoOf(Head(up[d]))
    BY <1>1, <2>1, <2>3, WhenCurrent DEF Register
  <2>6. registry'[c[1]] = registry[c[1]] \/ registry'[c[1]] = InfoOf(Head(up[d]))
    BY <1>1, <2>1, <2>3 DEF Register
  <2>7. c \in switchFDMap' => registry'[c[1]] # NotKnown
    BY <2>1, <2>4, <2>5, <2>6 DEF Enrolled
  <2> QED BY <1>7, <2>1, <2>7
<1>9. ASSUME NEW d \in Conn, Answers(d) PROVE Enrolled(c)'
  <2>1. /\ up[d] # <<>> /\ Head(up[d]).type = "QUERY" /\ UNCHANGED <<registry, switchFDMap>>
    BY <1>9 DEF Answers
  <2>2. PICK r \in Rule : Replies(d, AddMsg(r))
    BY <1>9 DEF Answers
  <2>3. c = d => c \in switchFDMap
    <3>1. c = d => Greeted(c) /\ up[c] # <<>> /\ ctrlUp
      BY <1>1, <2>1, <2>2 DEF Greeted, Replies
    <3> QED BY <3>1 DEF Enrolled
  <2> QED BY <1>7, <2>1, <2>2, <2>3 DEF Enrolled
<1>10. ASSUME NEW s \in Switches, Reads(s) \/ Refuses(s) PROVE Enrolled(c)'
  BY <1>10 DEF Reads, Refuses, Enrolled, Greeted, PeerLive
<1>11. ASSUME NEW d \in Conn, Leaves(d) PROVE Enrolled(c)'
  BY <1>1, <1>11 DEF Leaves, Enrolled, Greeted, PeerLive
<1> QED BY <1>2, <1>3, <1>4, <1>5, <1>6, <1>8, <1>9, <1>10, <1>11 DEF Effect

(* A switch that ends has counted nothing when it starts again.            *)
LEMMA FreshStep ==
  ASSUME TypeOK, Effect, NEW s \in Switches, Fresh(s)
  PROVE  Fresh(s)'
<1>1. Greetings \subseteq Counts
  BY DEF Greetings, Counts
<1>2. alive \in [Switches -> BOOLEAN] /\ count \in [Switches -> [Counts -> Nat]]
  BY DEF TypeOK, TransportTypeOK, SwitchTypeOK
<1>3. CASE Stops \/ Works \/ \E t \in Switches : Refuses(t)
  BY <1>3 DEF Stops, Works, Refuses, Fresh
<1>4. ASSUME NEW t \in Switches, Opens(t) \/ Asks(t) \/ Reads(t) PROVE Fresh(s)'
  <2>1. PICK kind \in Greetings : Tallies(t, kind)
    BY <1>4 DEF Opens, Asks, Reads, Greetings
  <2>2. alive'[t] /\ (s # t => alive'[s] = alive[s])
    BY <1>2, <1>4 DEF Opens, Asks, Reads
  <2> QED BY <2>1, <2>2 DEF Fresh, Tallies
<1>5. ASSUME NEW t \in Switches, Closes(t) PROVE Fresh(s)'
  BY <1>1, <1>2, <1>5 DEF Closes, Fresh, Zero
<1>6. ASSUME NEW d \in Conn, Welcomes(d) \/ Answers(d) \/ Leaves(d) PROVE Fresh(s)'
  BY <1>6 DEF Welcomes, Answers, Leaves, Replies, Fresh
<1> QED BY <1>3, <1>4, <1>5, <1>6 DEF Effect

(* Every message sent on a connection is read at most once and answered at *)
(* most once, and the ACK comes first.                                     *)
LEMMA BalancedStep ==
  ASSUME TypeOK, Effect, NEW c \in Conn, Ordered(c), Enrolled(c), Balanced(c), Fresh(c[1])
  PROVE  Balanced(c)'
<1>1. /\ c[1] \in Switches /\ c[2] \in 1 .. MaxStarts /\ c = <<c[1], c[2]>>
      /\ \A t \in Switches : c = Current(t) <=> t = c[1] /\ starts[t] = c[2]
      /\ up[c] \in Seq(ToController) /\ down[c] \in Seq(ToSwitch)
      /\ starts \in [Switches -> Nat] /\ alive \in [Switches -> BOOLEAN]
      /\ up \in [Conn -> Seq(ToController)] /\ down \in [Conn -> Seq(ToSwitch)]
  BY WhenCurrent, MaxStartsAssumption DEF TypeOK, TransportTypeOK
<1>2. count \in [Switches -> [Counts -> Nat]] /\ Greetings \subseteq Counts
  BY DEF TypeOK, SwitchTypeOK, Greetings, Counts
<1>3. /\ Tally(c, "tOPEN") \in Nat /\ Tally(c, "tQUERY") \in Nat
      /\ Tally(c, "rACK") \in Nat /\ Tally(c, "rADD") \in Nat
      /\ Len(up[c]) \in Nat /\ Len(down[c]) \in Nat
  BY <1>1, <1>2 DEF Greetings, Tally
<1> DEFINE o == Tally(c, "tOPEN")
           q == Tally(c, "tQUERY")
           a == Tally(c, "rACK")
           r == Tally(c, "rADD")
           d == Len(down[c])
           u == Len(up[c])
           d2 == Len(down'[c])
           u2 == Len(up'[c])
<1>0. /\ o \in Nat /\ q \in Nat /\ a \in Nat /\ r \in Nat /\ d \in Nat /\ u \in Nat
      /\ Sums(c) => a + r + d + u <= o + q
  BY <1>3 DEF Sums
<1> HIDE DEF o, q, a, r, d, u, d2, u2
<1>4. ASSUME \A n \in Greetings : count'[c[1]][n] = count[c[1]][n]
      PROVE  /\ Tally(c, "tOPEN")' = Tally(c, "tOPEN") /\ Tally(c, "tQUERY")' = Tally(c, "tQUERY")
             /\ Tally(c, "rACK")' = Tally(c, "rACK") /\ Tally(c, "rADD")' = Tally(c, "rADD")
  BY <1>4 DEF Tally, Greetings
<1>5. ASSUME UNCHANGED ctrlUp, PeerLive(c)' => PeerLive(c), up'[c] = up[c], down'[c] = down[c],
             PeerLive(c)' => \A n \in Greetings : count'[c[1]][n] = count[c[1]][n]
      PROVE  Balanced(c)'
  <2>1. Greeted(c)' <=> Greeted(c)
    BY <1>5 DEF Greeted
  <2> QED BY <1>4, <1>5, <2>1 DEF Balanced, Sums, AckFirst, AckDue, Owed
<1>6. CASE Stops
  <2>1. up'[c] = <<>> /\ ~ctrlUp' /\ UNCHANGED <<alive, starts, down, count>>
    BY <1>6 DEF Stops
  <2>2. Len(up'[c]) = 0 /\ Greeted(c)' /\ (PeerLive(c)' <=> PeerLive(c))
    BY <2>1 DEF Greeted, PeerLive
  <2>3. Sums(c) => Sums(c)'
    BY <1>3, <1>4, <2>1, <2>2 DEF Sums
  <2>4. AckFirst(c) => AckFirst(c)'
    BY <1>4, <2>1, <2>2 DEF AckFirst
  <2>5. AckFirst(c) /\ Owed(c) => Owed(c)'
    <3>1. CASE ~Greeted(c)
      <4>1. AckFirst(c) => Tally(c, "rADD") = 0 /\ Len(down[c]) = 0
        BY <3>1 DEF AckFirst
      <4> QED BY <1>3, <1>4, <2>1, <2>2, <4>1 DEF Owed
    <3>2. CASE Greeted(c)
      <4>1. AckDue(c)' <=> AckDue(c)
        BY <2>1, <2>2, <3>2 DEF AckDue
      <4> QED BY <1>3, <1>4, <2>1, <2>2, <4>1 DEF Owed
    <3> QED BY <3>1, <3>2
  <2> QED BY <2>2, <2>3, <2>4, <2>5 DEF Balanced
<1>7. CASE Works
  BY <1>1, <1>5, <1>7 DEF Works, PeerLive
<1>8. ASSUME NEW t \in Switches, Opens(t) PROVE Balanced(c)'
  <2>1. PICK range \in IPRange : up' = [up EXCEPT ![<<t, starts[t] + 1>>] = <<OpenMsg(t, range)>>]
    BY <1>8 DEF Opens
  <2>2. /\ ~alive[t] /\ alive' = [alive EXCEPT ![t] = TRUE]
        /\ starts' = [starts EXCEPT ![t] = @ + 1]
        /\ Tallies(t, "tOPEN") /\ UNCHANGED <<ctrlUp, down>>
    BY <1>8 DEF Opens
  <2>3. CASE c = <<t, starts[t] + 1>>
    <3>1. up'[c] = <<OpenMsg(t, range)>> /\ c[1] = t
      BY <1>1, <2>1, <2>3
    <3>2. down'[c] = <<>>
      BY <1>1, <2>2, <2>3, <3>1 DEF Ordered, PeerLive
    <3>3. ~Greeted(c)' /\ Len(up'[c]) = 1 /\ Len(down'[c]) = 0
      BY <3>1, <3>2 DEF Greeted, OpenMsg
    <3>4. /\ Tally(c, "tOPEN")' = 1 /\ Tally(c, "tQUERY")' = 0
          /\ Tally(c, "rACK")' = 0 /\ Tally(c, "rADD")' = 0
      BY <2>2, <3>1 DEF Fresh, Tallies, Tally, Greetings
    <3>5. Sums(c)' /\ AckFirst(c)' /\ Owed(c)'
      BY <3>2, <3>3, <3>4 DEF Sums, AckFirst, AckDue, Owed
    <3> QED BY <3>5 DEF Balanced
  <2>4. CASE c # <<t, starts[t] + 1>>
    <3>1. up'[c] = up[c] /\ down'[c] = down[c]
      BY <1>1, <2>1, <2>2, <2>4
    <3>2. PeerLive(c)' => PeerLive(c) /\ c[1] # t
      BY <1>1, <2>2, <2>4 DEF PeerLive
    <3>3. c[1] # t => \A n \in Greetings : count'[c[1]][n] = count[c[1]][n]
      BY <1>1, <2>2 DEF Tallies
    <3> QED BY <1>5, <2>2, <3>1, <3>2, <3>3
  <2> QED BY <2>3, <2>4
<1>9. ASSUME NEW t \in Switches, Closes(t) PROVE Balanced(c)'
  <2>1. CASE c[1] = t
    BY <1>1, <1>9, <2>1 DEF Closes, Balanced, PeerLive
  <2>2. CASE c[1] # t
    <3>1. /\ up'[c] = up[c] /\ down'[c] = down[c] /\ alive'[c[1]] = alive[c[1]]
          /\ count'[c[1]] = count[c[1]] /\ UNCHANGED <<ctrlUp, starts>>
      BY <1>1, <1>2, <1>9, <2>2 DEF Closes
    <3> QED BY <1>5, <3>1 DEF PeerLive
  <2> QED BY <2>1, <2>2
<1>10. ASSUME NEW t \in Switches, Asks(t) PROVE Balanced(c)'
  <2>1. /\ UNCHANGED <<starts, alive, down, ctrlUp>> /\ alive[t] /\ Tallies(t, "tQUERY")
        /\ \/ ctrlUp /\ \E p \in Packet :
                up' = [up EXCEPT ![Current(t)] = Append(@, QueryMsg(t, p))]
           \/ ~ctrlUp /\ up' = up
    BY <1>10 DEF Asks
  <2>2. CASE c # Current(t)
    <3>1. up'[c] = up[c] /\ (PeerLive(c)' => PeerLive(c) /\ c[1] # t)
      BY <1>1, <2>1, <2>2 DEF PeerLive
    <3> QED BY <1>1, <1>5, <2>1, <3>1 DEF Tallies
  <2>3. CASE c = Current(t)
    <3>1. c[1] = t /\ PeerLive(c) /\ (PeerLive(c)' <=> PeerLive(c))
      BY <1>1, <2>1, <2>3 DEF PeerLive
    <3>2. /\ Tally(c, "tOPEN")' = Tally(c, "tOPEN") /\ Tally(c, "rACK")' = Tally(c, "rACK")
          /\ Tally(c, "rADD")' = Tally(c, "rADD")
          /\ Tally(c, "tQUERY")' = Tally(c, "tQUERY") + 1
      BY <1>1, <2>1, <3>1 DEF Tallies, Tally, Greetings
    <3>3. Sums(c) /\ AckFirst(c) /\ Owed(c)
      BY <3>1 DEF Balanced
    <3>4. CASE ~ctrlUp /\ up' = up
      <4>1. (Greeted(c)' <=> Greeted(c)) /\ up'[c] = up[c]
        BY <3>4 DEF Greeted
      <4>2. Sums(c)'
        BY <1>3, <2>1, <3>2, <3>3, <4>1 DEF Sums
      <4>3. AckFirst(c)'
        BY <2>1, <3>2, <3>3, <4>1 DEF AckFirst
      <4>4. Owed(c)'
        BY <1>3, <2>1, <3>2, <3>3, <4>1 DEF AckDue, Owed
      <4> QED BY <4>2, <4>3, <4>4 DEF Balanced
    <3>5. ASSUME NEW p \in Packet, ctrlUp, up'[c] = Append(up[c], QueryMsg(t, p))
          PROVE  Balanced(c)'
      <4> DEFINE m == QueryMsg(t, p)
      <4>1. m.type = "QUERY"
        BY DEF QueryMsg
      <4> HIDE DEF m
      <4>2. /\ Len(Append(up[c], m)) = Len(up[c]) + 1 /\ Append(up[c], m) # <<>>
            /\ up[c] # <<>> => Append(up[c], m)[1] = up[c][1]
            /\ up[c] = <<>> => Append(up[c], m)[1] = m
        BY <1>1, LongerQueue
      <4>3. Greeted(c)' <=> Greeted(c)
        BY <3>5, <4>1, <4>2 DEF Greeted, m
      <4>4. Len(up'[c]) = Len(up[c]) + 1
        BY <1>1, <3>5, <4>2 DEF m
      <4>5. Sums(c)'
        BY <1>3, <2>1, <3>2, <3>3, <4>4 DEF Sums
      <4>6. AckFirst(c)'
        BY <2>1, <3>2, <3>3, <4>3 DEF AckFirst
      <4>7. Owed(c)'
        BY <1>3, <2>1, <3>2, <3>3, <4>3, <4>4 DEF AckDue, Owed
      <4> QED BY <4>5, <4>6, <4>7 DEF Balanced
    <3> QED BY <1>1, <2>1, <2>3, <3>4, <3>5
  <2> QED BY <2>2, <2>3
<1>11. ASSUME NEW e \in Conn, NEW m, Replies(e, m), up[e] # <<>>,
              \/ Head(up[e]).type = "OPEN" /\ m.type = "ACK"
              \/ Head(up[e]).type = "QUERY" /\ m.type = "ADD"
       PROVE  Balanced(c)'
  <2>1. PICK k \in 1 .. Len(up[e]) : up' = [up EXCEPT ![e] = AfterRecv(@, k)]
    BY <1>11 DEF Replies
  <2>2. /\ UNCHANGED <<starts, alive, ctrlUp, count>> /\ ctrlUp
        /\ \/ PeerLive(e) /\ down' = [down EXCEPT ![e] = Append(@, m)]
           \/ ~PeerLive(e) /\ down' = down
    BY <1>11 DEF Replies
  <2>3. PeerLive(c)' <=> PeerLive(c)
    BY <2>2 DEF PeerLive
  <2>4. CASE c # e
    BY <1>1, <1>5, <2>1, <2>2, <2>3, <2>4
  <2>5. CASE ~PeerLive(c)
    BY <2>3, <2>5 DEF Balanced
  <2>6. CASE c = e /\ PeerLive(c)
    <3>1. /\ up'[c] = AfterRecv(up[c], k) /\ Len(up'[c]) = Len(up[c]) - k
          /\ up'[c] \in Seq(ToController)
          /\ \A i \in 1 .. Len(up[c]) - k : up'[c][i] = up[c][k + i]
      BY <1>1, <2>1, <2>6, RestOfQueue
    <3>2. Greeted(c)'
      <4>1. SUFFICES ASSUME up'[c] # <<>> PROVE up'[c][1].type = "QUERY"
        BY DEF Greeted
      <4>2. 1 \in 1 .. Len(up'[c])
        BY <3>1, <4>1
      <4>3. k + 1 \in 1 .. Len(up[c]) /\ k + 1 # 1 /\ up'[c][1] = up[c][k + 1]
        BY <1>1, <2>1, <2>6, <3>1, <4>2
      <4>4. up[c][k + 1] \in ToController /\ up[c][k + 1].type # "OPEN"
        BY <1>1, <4>3 DEF Ordered
      <4> QED BY <4>3, <4>4 DEF ToController
    <3>3. /\ Len(Append(down[c], m)) = Len(down[c]) + 1 /\ Append(down[c], m) # <<>>
          /\ down[c] # <<>> => Append(down[c], m)[1] = down[c][1]
          /\ down[c] = <<>> => Append(down[c], m)[1] = m
      BY <1>1, LongerQueue
    <3>4. down'[c] = Append(down[c], m)
      BY <1>1, <2>2, <2>6
    <3>5. Sums(c) /\ AckFirst(c) /\ Owed(c)
      BY <2>6 DEF Balanced
    <3>6. /\ Head(up[e]).type = "OPEN" => ~Greeted(c)
          /\ Head(up[e]).type = "QUERY" => Greeted(c)
      <4>1. Head(up[e]) = up[c][1]
        BY <1>1, <1>11, <2>6
      <4> QED BY <1>11, <2>6, <4>1 DEF Greeted
    <3>7. Len(down'[c]) + Len(up'[c]) <= Len(down[c]) + Len(up[c])
      BY <1>1, <2>1, <2>6, <3>1, <3>3, <3>4
    <3>8. Len(down'[c]) \in Nat /\ Len(up'[c]) \in Nat
      BY <1>3, <3>1, <3>3, <3>4
    <3>9. /\ Tally(c, "tOPEN")' = Tally(c, "tOPEN") /\ Tally(c, "tQUERY")' = Tally(c, "tQUERY")
          /\ Tally(c, "rACK")' = Tally(c, "rACK") /\ Tally(c, "rADD")' = Tally(c, "rADD")
      BY <1>4, <2>2
    <3>10. Sums(c)'
      <4>1. d2 \in Nat /\ u2 \in Nat /\ d2 + u2 <= d + u
        BY <3>7, <3>8 DEF d, u, d2, u2
      <4>2. a + r + d2 + u2 <= o + q
        BY <1>0, <3>5, <4>1
      <4> QED BY <3>5, <3>9, <4>2 DEF Sums, o, q, a, r, d2, u2
    <3>11. CASE Head(up[e]).type = "OPEN" /\ m.type = "ACK"
      <4>1. down[c] = <<>> /\ Tally(c, "rACK") = 0 /\ Tally(c, "rADD") = 0
        BY <3>5, <3>6, <3>11 DEF AckFirst
      <4>2. Len(down[c]) = 0
        BY <4>1
      <4>3. Len(down'[c]) = 1 /\ down'[c][1] = m /\ down'[c] # <<>>
        BY <3>3, <3>4, <4>1, <4>2
      <4>4. AckFirst(c)'
        BY <3>2, <3>9, <4>1, <4>3 DEF AckFirst
      <4>5. Owed(c)'
        BY <3>11, <4>3 DEF AckDue, Owed
      <4> QED BY <3>10, <4>4, <4>5 DEF Balanced
    <3>12. CASE Head(up[e]).type = "QUERY" /\ m.type = "ADD"
      <4>1. Greeted(c)
        BY <3>6, <3>12
      <4>2. \A i \in 1 .. Len(down'[c]) :
              down'[c][i].type = "ACK" => i \in 1 .. Len(down[c]) /\ down'[c][i] = down[c][i]
        BY <1>1, <3>3, <3>4, <3>12, LastOfQueue
      <4>3. AckFirst(c)'
        BY <3>2, <3>5, <3>9, <4>2 DEF AckFirst
      <4>4. AckDue(c)' <=> AckDue(c)
        BY <3>2, <3>3, <3>4, <3>12, <4>1 DEF AckDue
      <4>5. Owed(c)'
        <5>1. d2 \in Nat /\ u2 \in Nat /\ d2 + u2 <= d + u
          BY <3>7, <3>8 DEF d, u, d2, u2
        <5>2. ~AckDue(c) => r + d2 + u2 <= q
          <6>1. ~AckDue(c) => r + d + u <= q
            BY <3>5 DEF Owed, r, d, u, q
          <6> QED BY <1>0, <5>1, <6>1
        <5> QED BY <3>9, <4>4, <5>2 DEF Owed, q, r, d2, u2
      <4> QED BY <3>10, <4>3, <4>5 DEF Balanced
    <3> QED BY <1>11, <3>11, <3>12
  <2> QED BY <2>4, <2>5, <2>6
<1>12. ASSUME NEW e \in Conn, Welcomes(e) \/ Answers(e) PROVE Balanced(c)'
  BY <1>11, <1>12 DEF Welcomes, Answers, AckMsg, AddMsg
<1>13. ASSUME NEW t \in Switches, Reads(t) \/ Refuses(t) PROVE Balanced(c)'
  <2>1. PICK k \in 1 .. Len(down[Current(t)]) :
          down' = [down EXCEPT ![Current(t)] = AfterRecv(@, k)]
    BY <1>13 DEF Reads, Refuses
  <2>2. /\ UNCHANGED <<ctrlUp, starts, alive, up>> /\ alive[t]
        /\ \/ Head(down[Current(t)]).type = "ACK" /\ Tallies(t, "rACK")
           \/ Head(down[Current(t)]).type = "ADD" /\ Tallies(t, "rADD")
           \/ UNCHANGED count
    BY <1>13 DEF Reads, Refuses
  <2>3. PeerLive(c)' <=> PeerLive(c)
    BY <2>2 DEF PeerLive
  <2>4. CASE c # Current(t)
    <3>1. down'[c] = down[c] /\ (PeerLive(c) => c[1] # t)
      BY <1>1, <2>1, <2>2, <2>4 DEF PeerLive
    <3>2. \A n \in Greetings : c[1] # t => count'[c[1]][n] = count[c[1]][n]
      BY <1>1, <2>2 DEF Tallies
    <3> QED BY <1>5, <2>2, <2>3, <3>1, <3>2
  <2>5. CASE c = Current(t)
    <3>1. c[1] = t /\ PeerLive(c)
      BY <1>1, <2>2, <2>5 DEF PeerLive
    <3>2. Sums(c) /\ AckFirst(c) /\ Owed(c)
      BY <3>1 DEF Balanced
    <3>3. /\ Len(down'[c]) = Len(down[c]) - k /\ Head(down[Current(t)]) = down[c][1]
          /\ \A i \in 1 .. Len(down[c]) - k : down'[c][i] = down[c][k + i]
      BY <1>1, <2>1, <2>5, RestOfQueue
    <3>4. /\ Len(down'[c]) <= Len(down[c]) - 1 /\ Len(down'[c]) \in Nat /\ down[c] # <<>>
      BY <1>1, <2>1, <2>5, <3>3
    <3>5. Greeted(c) /\ Greeted(c)'
      <4>1. Greeted(c)
        BY <3>2, <3>4 DEF AckFirst
      <4> QED BY <2>2, <4>1 DEF Greeted
    <3>6. \A i \in 1 .. Len(down'[c]) : down'[c][i].type # "ACK"
      <4>1. SUFFICES ASSUME NEW i \in 1 .. Len(down'[c]) PROVE down'[c][i].type # "ACK"
        OBVIOUS
      <4>2. k + i \in 1 .. Len(down[c]) /\ k + i # 1
        BY <1>1, <2>1, <2>5, <3>3
      <4>3. down'[c][i] = down[c][k + i]
        BY <3>3
      <4> QED BY <3>2, <4>2, <4>3 DEF AckFirst
    <3>7. AckFirst(c)'
      BY <3>5, <3>6 DEF AckFirst
    <3>8. d2 \in Nat /\ d2 <= d - 1 /\ d \in Nat
      BY <1>0, <3>4 DEF d, d2
    <3>9. /\ Tally(c, "tOPEN")' = o /\ Tally(c, "tQUERY")' = q /\ u2 = u
          /\ \/ down[c][1].type = "ACK" /\ Tally(c, "rACK")' = a + 1 /\ Tally(c, "rADD")' = r
             \/ down[c][1].type = "ADD" /\ Tally(c, "rACK")' = a /\ Tally(c, "rADD")' = r + 1
             \/ Tally(c, "rACK")' = a /\ Tally(c, "rADD")' = r
      <4>1. CASE down[c][1].type = "ACK" /\ Tallies(t, "rACK")
        BY <1>1, <2>2, <3>1, <4>1 DEF Tallies, Tally, Greetings, o, q, a, r, u, u2
      <4>2. CASE down[c][1].type = "ADD" /\ Tallies(t, "rADD")
        BY <1>1, <2>2, <3>1, <4>2 DEF Tallies, Tally, Greetings, o, q, a, r, u, u2
      <4>3. CASE UNCHANGED count
        BY <2>2, <4>3 DEF Tally, o, q, a, r, u, u2
      <4> QED BY <2>2, <3>3, <4>1, <4>2, <4>3
    <3>10. PICK a2, r2 :
             /\ Tally(c, "rACK")' = a2 /\ Tally(c, "rADD")' = r2
             /\ \/ down[c][1].type = "ACK" /\ a2 = a + 1 /\ r2 = r
                \/ down[c][1].type = "ADD" /\ a2 = a /\ r2 = r + 1
                \/ a2 = a /\ r2 = r
      BY <3>9
    <3>11. Sums(c)'
      <4>1. a + r + d + u <= o + q /\ o = 1
        BY <1>0, <3>2 DEF Sums, o
      <4>2. a2 + r2 + d2 + u2 <= o + q
        BY <1>0, <3>8, <3>9, <3>10, <4>1
      <4> QED BY <3>9, <3>10, <4>1, <4>2 DEF Sums, d2, u2
    <3>12. Owed(c)'
      <4>1. CASE AckDue(c)
        <5>1. down[c][1].type = "ACK" /\ a = 0 /\ r = 0
          <6>1. down[c][1].type = "ACK"
            BY <3>5, <4>1 DEF AckDue
          <6>2. 1 \in 1 .. Len(down[c])
            BY <1>1, <3>4
          <6> QED BY <3>2, <6>1, <6>2 DEF AckFirst, a, r
        <5>2. a + r + d + u <= o + q /\ o = 1
          BY <1>0, <3>2 DEF Sums, o
        <5>3. r2 = 0
          BY <3>10, <5>1
        <5>4. r2 + d2 + u2 <= q
          BY <1>0, <3>8, <3>9, <5>1, <5>2, <5>3
        <5> QED BY <3>9, <3>10, <5>4 DEF Owed, d2, u2
      <4>2. CASE ~AckDue(c)
        <5>1. r + d + u <= q
          BY <3>2, <4>2 DEF Owed, r, d, u, q
        <5>2. r2 \in {r, r + 1}
          BY <3>10
        <5>3. r2 + d2 + u2 <= q
          BY <1>0, <3>8, <3>9, <5>1, <5>2
        <5> QED BY <3>9, <3>10, <5>3 DEF Owed, d2, u2
      <4> QED BY <4>1, <4>2
    <3> QED BY <3>7, <3>11, <3>12 DEF Balanced
  <2> QED BY <2>4, <2>5
<1>14. ASSUME NEW e \in Conn, Leaves(e) PROVE Balanced(c)'
  <2>1. /\ up'[c] = up[c] /\ down'[c] = down[c] /\ UNCHANGED <<ctrlUp, alive, starts, count>>
    BY <1>1, <1>14 DEF Leaves
  <2> QED BY <1>5, <2>1 DEF PeerLive
<1> QED BY <1>6, <1>7, <1>8, <1>9, <1>10, <1>12, <1>13, <1>14 DEF Effect

-----------------------------------------------------------------------------
(* The invariant behind the contract is inductive.                         *)
LEMMA SessionInit == Init => SessionInv
<1>1. SUFFICES ASSUME Init PROVE SessionInv
  OBVIOUS
<1>2. /\ up = [c \in Conn |-> <<>>] /\ down = [c \in Conn |-> <<>>]
      /\ alive = [s \in Switches |-> FALSE] /\ switchFDMap = {}
      /\ count = [s \in Switches |-> Zero]
  BY <1>1 DEF Init, TransportInit, ControllerInit, SwitchInit
<1>3. ASSUME NEW c \in Conn PROVE Ordered(c) /\ Silent(c) /\ Enrolled(c) /\ Balanced(c)
  <2>1. c[1] \in Switches /\ ~alive[c[1]]
    BY <1>2 DEF Conn
  <2>2. up[c] = <<>> /\ down[c] = <<>>
    BY <1>2
  <2>3. ~PeerLive(c)
    BY <2>1 DEF PeerLive
  <2> QED BY <1>2, <2>2, <2>3 DEF Ordered, Silent, Enrolled, Balanced
<1>4. ASSUME NEW s \in Switches PROVE Fresh(s)
  BY <1>2 DEF Fresh, Zero, Greetings, Counts
<1> QED BY <1>3, <1>4 DEF SessionInv

LEMMA SessionStep == TypeOK /\ SessionInv /\ [Next]_vars => SessionInv'
<1>1. SUFFICES ASSUME TypeOK, SessionInv, [Next]_vars PROVE SessionInv'
  OBVIOUS
<1>2. Effect
  BY <1>1, NextEffect
<1>3. ASSUME NEW c \in Conn PROVE Ordered(c)' /\ Silent(c)' /\ Enrolled(c)' /\ Balanced(c)'
  <2>1. \A d \in Conn : Ordered(d)
    BY <1>1 DEF SessionInv
  <2>2. Silent(c) /\ Enrolled(c) /\ Balanced(c)
    BY <1>1 DEF SessionInv
  <2>3. Fresh(c[1])
    <3>1. c[1] \in Switches
      BY DEF Conn
    <3> QED BY <1>1, <3>1 DEF SessionInv
  <2> QED BY <1>1, <1>2, <2>1, <2>2, <2>3, OrderedStep, SilentStep, EnrolledStep,
           BalancedStep
<1>4. ASSUME NEW s \in Switches PROVE Fresh(s)'
  BY <1>1, <1>2, FreshStep DEF SessionInv
<1> QED BY <1>3, <1>4 DEF SessionInv

LEMMA SessionInvariant == Spec => [](TypeOK /\ SessionInv)
BY SessionInit, SessionStep, TypeCorrect, PTL DEF Spec

(***************************************************************************)
(* The controller never makes a rule for a switch it does not know         *)
(* (respondOPENPacket before respondQUERYPacket on every connection).      *)
(***************************************************************************)
THEOREM QueriesAnswered == Spec => []QueryFromRegistered
<1>1. TypeOK /\ SessionInv => QueryFromRegistered
  <2>1. SUFFICES ASSUME TypeOK, SessionInv, NEW c \in Conn,
                        up[c] # <<>>, Head(up[c]).type = "QUERY"
                 PROVE  registry[c[1]] # NotKnown /\ c \in switchFDMap
    BY DEF QueryFromRegistered
  <2>2. Head(up[c]) = up[c][1]
    BY <2>1 DEF TypeOK, TransportTypeOK
  <2>3. Greeted(c)
    BY <2>1, <2>2 DEF Greeted
  <2>4. ctrlUp
    BY <2>1 DEF SessionInv, Silent
  <2> QED BY <2>1, <2>3, <2>4 DEF SessionInv, Enrolled
<1> QED BY <1>1, SessionInvariant, PTL

(***************************************************************************)
(* A switch never has more answers, read or on their way, than it has sent *)
(* messages (check_sock of both sides, respondQUERYPacket).                *)
(***************************************************************************)
THEOREM NoSpareAnswer == Spec => []AnswersBounded
<1>1. TypeOK /\ SessionInv => AnswersBounded
  <2>1. SUFFICES ASSUME TypeOK, SessionInv, NEW s \in Switches, alive[s]
                 PROVE  count[s]["rACK"] + count[s]["rADD"] + Len(down[Current(s)])
                          + Len(up[Current(s)]) <= count[s]["tOPEN"] + count[s]["tQUERY"]
    BY DEF AnswersBounded
  <2>2. Current(s) \in Conn /\ Current(s)[1] = s /\ PeerLive(Current(s))
    <3>1. Current(s) = <<s, starts[s]>>
      BY DEF Current
    <3>2. Current(s) \in Conn
      BY <2>1, CurrentConn DEF TypeOK
    <3> QED BY <2>1, <3>1, <3>2 DEF PeerLive
  <2>3. Sums(Current(s))
    BY <2>1, <2>2 DEF SessionInv, Balanced
  <2> QED BY <2>2, <2>3 DEF Sums, Tally
<1> QED BY <1>1, SessionInvariant, PTL

-----------------------------------------------------------------------------
(* The variables of the contract as functions of the network.              *)
Phase == [s \in Switches |-> PhaseOf(s)]
Queried == [s \in Switches |-> count[s]["tQUERY"]]
Learned == [s \in Switches |-> count[s]["rADD"]]
Rules == [s \in Switches |-> Len(table[s])]
Opened == {s \in Switches : starts[s] > 0}
Registered == Known(registry)

(* What moves them.                                                        *)
LEMMA PhaseStep ==
  ASSUME NEW s \in Switches, NEW ph,
         \A t \in Switches : PhaseOf(t)' = IF t = s THEN ph ELSE PhaseOf(t)
  PROVE  Phase' = [Phase EXCEPT ![s] = ph]
BY DEF Phase

LEMMA TallyStep ==
  ASSUME TypeOK, NEW s \in Switches, NEW kind \in Greetings, Tallies(s, kind)
  PROVE  /\ Queried' = IF kind = "tQUERY" THEN [Queried EXCEPT ![s] = @ + 1] ELSE Queried
         /\ Learned' = IF kind = "rADD" THEN [Learned EXCEPT ![s] = @ + 1] ELSE Learned
         /\ kind # "rACK" => \A t \in Switches : count'[t]["rACK"] = count[t]["rACK"]
<1>1. \A t \in Switches : count'[t]["tQUERY"] =
        IF t = s /\ kind = "tQUERY" THEN count[t]["tQUERY"] + 1 ELSE count[t]["tQUERY"]
  BY DEF Tallies, Greetings
<1>2. \A t \in Switches : count'[t]["rADD"] =
        IF t = s /\ kind = "rADD" THEN count[t]["rADD"] + 1 ELSE count[t]["rADD"]
  BY DEF Tallies, Greetings
<1>3. kind # "rACK" => \A t \in Switches : count'[t]["rACK"] = count[t]["rACK"]
  BY DEF Tallies, Greetings
<1> QED BY <1>1, <1>2, <1>3 DEF Queried, Learned

(* The network starts as the contract does.                                *)
LEMMA ContractInit == Init => Contract!Init
<1>1. SUFFICES ASSUME Init PROVE Contract!Init
  OBVIOUS
<1>2. /\ ctrlUp = TRUE /\ alive = [s \in Switches |-> FALSE] /\ starts = [s \in Switches |-> 0]
      /\ registry = [s \in Switches |-> NotKnown] /\ count = [s \in Switches |-> Zero]
      /\ table = [s \in Switches |-> <<>>]
  BY <1>1 DEF Init, TransportInit, ControllerInit, SwitchInit
<1>3. \A s \in Switches : /\ PhaseOf(s) = "down" /\ Len(table[s]) = 0 /\ ~(starts[s] > 0)
                          /\ count[s]["tQUERY"] = 0 /\ count[s]["rADD"] = 0
  BY <1>2 DEF PhaseOf, Zero, Counts
<1>4. Known(registry) = {}
  BY <1>2 DEF Known
<1> QED BY <1>2, <1>3, <1>4 DEF Contract!Init

(* Every step of the network is one of the contract, or changes nothing it *)
(* speaks of.                                                              *)
LEMMA ContractStep ==
  ASSUME TypeOK, SessionInv, Effect
  PROVE  [Contract!Next]_(Contract!sessionVars)
<1> DEFINE V == <<ctrlUp, Opened, Registered, Phase, Queried, Learned, Rules>>
<1>1. V = Contract!sessionVars /\ V' = (Contract!sessionVars)'
  BY DEF Contract!sessionVars, Opened, Registered, Phase, Queried, Learned, Rules
<1>2. /\ starts \in [Switches -> Nat] /\ alive \in [Switches -> BOOLEAN]
      /\ count \in [Switches -> [Counts -> Nat]] /\ table \in [Switches -> Seq(Rule)]
      /\ registry \in [Switches -> SwitchInfo]
  BY MaxStartsAssumption DEF TypeOK, TransportTypeOK, SwitchTypeOK, ControllerTypeOK
<1>3. ASSUME \A t \in Switches : count'[t]["rACK"] = count[t]["rACK"], UNCHANGED alive
      PROVE  Phase' = Phase
  BY <1>3 DEF Phase, PhaseOf
<1>4. SameRules => Rules' = Rules
  BY DEF SameRules, Rules
<1>5. CASE Stops
  <2>1. Known(registry)' = {}
    BY <1>5 DEF Stops, Known
  <2>2. UNCHANGED <<Opened, Phase, Queried, Learned, Rules>>
    BY <1>5 DEF Stops, Opened, Phase, PhaseOf, Queried, Learned, Rules
  <2>3. Contract!Stop
    BY <1>5, <2>1, <2>2 DEF Contract!Stop, Stops, Opened, Phase, Queried, Learned, Rules
  <2> QED BY <2>3 DEF Contract!Next
<1>6. CASE Works
  <2>1. \A t \in Switches : /\ count'[t]["rACK"] = count[t]["rACK"]
                            /\ count'[t]["rADD"] = count[t]["rADD"]
                            /\ count'[t]["tQUERY"] = count[t]["tQUERY"]
    BY <1>6 DEF Works, Greetings
  <2>2. V' = V
    BY <1>3, <1>4, <1>6, <2>1 DEF Works, Opened, Registered, Queried, Learned
  <2> QED BY <1>1, <2>2
<1>7. ASSUME NEW s \in Switches, Opens(s) PROVE Contract!Next
  <2>1. /\ ctrlUp /\ ~alive[s] /\ alive' = [alive EXCEPT ![s] = TRUE]
        /\ starts' = [starts EXCEPT ![s] = @ + 1] /\ Tallies(s, "tOPEN")
        /\ \E range \in IPRange : table' = [table EXCEPT ![s] = <<InitRule(range)>>]
        /\ UNCHANGED <<ctrlUp, registry>>
    BY <1>7 DEF Opens
  <2>2. /\ Queried' = Queried /\ Learned' = Learned
        /\ \A t \in Switches : count'[t]["rACK"] = count[t]["rACK"]
    BY <2>1, TallyStep DEF Greetings
  <2>3. Phase' = [Phase EXCEPT ![s] = "opening"]
    <3>1. count'[s]["rACK"] = 0
      BY <2>1, <2>2 DEF SessionInv, Fresh, Greetings
    <3> QED BY <1>2, <2>1, <2>2, <3>1, PhaseStep DEF PhaseOf
  <2>4. Rules' = [Rules EXCEPT ![s] = 1]
    <3>1. \A t \in Switches : Len(table'[t]) = IF t = s THEN 1 ELSE Len(table[t])
      BY <1>2, <2>1
    <3> QED BY <3>1 DEF Rules
  <2>5. Opened' = Opened \cup {s}
    BY <1>2, <2>1 DEF Opened
  <2>6. Registered' = Registered /\ Phase[s] = "down"
    BY <2>1 DEF Registered, Known, Phase, PhaseOf
  <2>7. Contract!Open(s)
    BY <2>1, <2>2, <2>3, <2>4, <2>5, <2>6
       DEF Contract!Open, Opened, Registered, Phase, Queried, Learned, Rules
  <2> QED BY <2>7 DEF Contract!Next
<1>8. ASSUME NEW s \in Switches, Closes(s) PROVE Contract!Next
  <2>1. /\ alive[s] /\ alive' = [alive EXCEPT ![s] = FALSE]
        /\ table' = [table EXCEPT ![s] = <<>>] /\ count' = [count EXCEPT ![s] = Zero]
        /\ UNCHANGED <<ctrlUp, starts, registry>>
    BY <1>8 DEF Closes
  <2>2. Phase' = [Phase EXCEPT ![s] = "down"]
    BY <1>2, <2>1, PhaseStep DEF PhaseOf
  <2>3. Queried' = [Queried EXCEPT ![s] = 0] /\ Learned' = [Learned EXCEPT ![s] = 0]
    <3>1. Zero["tQUERY"] = 0 /\ Zero["rADD"] = 0
      BY DEF Zero, Counts
    <3> QED BY <1>2, <2>1, <3>1 DEF Queried, Learned
  <2>4. Rules' = [Rules EXCEPT ![s] = 0]
    <3>1. \A t \in Switches : Len(table'[t]) = IF t = s THEN 0 ELSE Len(table[t])
      BY <1>2, <2>1
    <3> QED BY <3>1 DEF Rules
  <2>5. UNCHANGED <<Opened, Registered>> /\ Phase[s] # "down"
    BY <2>1 DEF Opened, Registered, Known, Phase, PhaseOf
  <2>6. Contract!Close(s)
    BY <2>1, <2>2, <2>3, <2>4, <2>5
       DEF Contract!Close, Opened, Registered, Phase, Queried, Learned, Rules
  <2> QED BY <2>6 DEF Contract!Next
<1>9. ASSUME NEW s \in Switches, Asks(s) PROVE Contract!Next
  <2>1. alive[s] /\ Tallies(s, "tQUERY") /\ SameRules /\ UNCHANGED <<ctrlUp, alive, starts, registry>>
    BY <1>9 DEF Asks
  <2>2. /\ Queried' = [Queried EXCEPT ![s] = @ + 1] /\ Learned' = Learned /\ Phase' = Phase
    BY <1>3, <2>1, TallyStep DEF Greetings
  <2>3. UNCHANGED <<Opened, Registered>> /\ Phase[s] # "down"
    BY <2>1 DEF Opened, Registered, Known, Phase, PhaseOf
  <2>4. Contract!Ask(s)
    BY <1>4, <2>1, <2>2, <2>3
       DEF Contract!Ask, Opened, Registered, Phase, Queried, Learned, Rules
  <2> QED BY <2>4 DEF Contract!Next
<1>10. ASSUME NEW c \in Conn, NEW m, Replies(c, m),
              registry' = registry \/ Registered' = Registered \cup {c[1]}
       PROVE  Contract!Next \/ V' = V
  <2>1. ctrlUp /\ up[c] # <<>> /\ UNCHANGED <<ctrlUp, alive, starts, table, count>>
    <3>1. PICK k \in 1 .. Len(up[c]) : TRUE
      BY <1>10 DEF Replies
    <3> QED BY <1>10, <3>1 DEF Replies
  <2>2. UNCHANGED <<Opened, Phase, Queried, Learned, Rules>>
    BY <2>1 DEF Opened, Phase, PhaseOf, Queried, Learned, Rules
  <2>3. c[1] \in Opened
    <3>1. c[1] \in Switches /\ c[2] \in 1 .. MaxStarts
      BY WhenCurrent
    <3>2. ~(starts[c[1]] < c[2])
      BY <2>1 DEF SessionInv, Ordered
    <3> QED BY <1>2, <3>1, <3>2, MaxStartsAssumption DEF Opened
  <2>4. CASE registry' = registry
    BY <2>1, <2>2, <2>4 DEF Registered, Known
  <2>5. CASE Registered' = Registered \cup {c[1]}
    <3>1. Contract!Register(c[1])
      BY <2>1, <2>2, <2>3, <2>5
         DEF Contract!Register, Opened, Registered, Phase, Queried, Learned, Rules
    <3>2. c[1] \in Switches
      BY DEF Conn
    <3> QED BY <3>1, <3>2 DEF Contract!Next
  <2> QED BY <1>10, <2>4, <2>5
<1>11. ASSUME NEW c \in Conn, Welcomes(c) PROVE Contract!Next \/ V' = V
  <2> DEFINE m == Head(up[c])
  <2>1. /\ up[c] # <<>> /\ m.type = "OPEN" /\ Replies(c, AckMsg) /\ registry' = Register(registry, m)
    BY <1>11 DEF Welcomes
  <2>2. m = up[c][1] /\ 1 \in 1 .. Len(up[c]) /\ m \in ToController
    BY <2>1 DEF TypeOK, TransportTypeOK
  <2>3. m.id = c[1] /\ m.low <= m.high /\ c[1] \in Switches
    BY <2>1, <2>2, WhenCurrent DEF SessionInv, Ordered
  <2>4. InfoOf(m) # NotKnown
    BY <2>1, <2>2, <2>3 DEF InfoOf, NotKnown, ToController
  <2> HIDE DEF m
  <2>5. \A s \in Switches : registry'[s] = IF s = c[1] THEN InfoOf(m) ELSE registry[s]
    BY <1>2, <2>1, <2>3 DEF Register
  <2>6. Registered' = Registered \cup {c[1]}
    BY <2>3, <2>4, <2>5 DEF Registered, Known
  <2> QED BY <1>10, <2>1, <2>6
<1>12. ASSUME NEW c \in Conn, Answers(c) PROVE Contract!Next \/ V' = V
  BY <1>10, <1>12 DEF Answers
<1>13. ASSUME NEW s \in Switches, Reads(s) PROVE Contract!Next \/ V' = V
  <2> DEFINE c == Current(s)
  <2>1. /\ alive[s] /\ UNCHANGED <<ctrlUp, alive, starts, registry>> /\ down[c] # <<>>
        /\ \/ Head(down[c]).type = "ACK" /\ Tallies(s, "rACK") /\ SameRules
           \/ /\ Head(down[c]).type = "ADD" /\ Tallies(s, "rADD")
              /\ \E n \in {0, 1} : \A t \in Switches :
                   Len(table'[t]) = IF t = s THEN Len(table[t]) + n ELSE Len(table[t])
    <3>1. PICK k \in 1 .. Len(down[c]) : TRUE
      BY <1>13 DEF Reads
    <3> QED BY <1>13, <3>1 DEF Reads
  <2>2. c \in Conn /\ c[1] = s /\ PeerLive(c)
    <3>1. c = <<s, starts[s]>>
      BY DEF Current
    <3>2. c \in Conn
      BY <2>1, CurrentConn DEF TypeOK
    <3> QED BY <2>1, <3>1, <3>2 DEF PeerLive
  <2>3. Head(down[c]) = down[c][1]
    BY <2>1, <2>2 DEF TypeOK, TransportTypeOK
  <2> HIDE DEF c
  <2>4. AckFirst(c) /\ Owed(c) /\ Enrolled(c)
    BY <2>2 DEF SessionInv, Balanced
  <2>8. down[c] # <<>> /\ 1 \in 1 .. Len(down[c]) /\ Head(down[c]) = down[c][1]
    BY <2>1, <2>2, <2>3 DEF TypeOK, TransportTypeOK
  <2>9. s \in Registered \/ ~ctrlUp
    BY <2>2, <2>4, <2>8 DEF AckFirst, Enrolled, Registered, Known
  <2>5. UNCHANGED <<Opened, Registered>>
    BY <2>1 DEF Opened, Registered, Known
  <2>6. CASE Head(down[c]).type = "ACK" /\ Tallies(s, "rACK") /\ SameRules
    <3>1. Queried' = Queried /\ Learned' = Learned /\ Rules' = Rules
      BY <1>4, <2>6, TallyStep DEF Greetings
    <3>2. /\ count'[s]["rACK"] = count[s]["rACK"] + 1 /\ count[s]["rACK"] \in Nat
          /\ \A t \in Switches : t # s => count'[t]["rACK"] = count[t]["rACK"]
      BY <1>2, <2>6 DEF Tallies, Greetings, Counts
    <3>3. count'[s]["rACK"] # 0
      BY <3>2
    <3>4. CASE count[s]["rACK"] # 0
      <4>1. \A t \in Switches : PhaseOf(t)' = PhaseOf(t)
        BY <2>1, <3>2, <3>3, <3>4 DEF PhaseOf
      <4> QED BY <2>1, <2>5, <3>1, <4>1 DEF Phase
    <3>5. CASE count[s]["rACK"] = 0
      <4>1. Phase' = [Phase EXCEPT ![s] = "member"]
        <5>1. PhaseOf(s)' = "member"
          BY <2>1, <3>3 DEF PhaseOf
        <5>2. \A t \in Switches : t # s => PhaseOf(t)' = PhaseOf(t)
          BY <2>1, <3>2 DEF PhaseOf
        <5> QED BY <5>1, <5>2, PhaseStep
      <4>2. Phase[s] = "opening"
        BY <2>1, <3>5 DEF Phase, PhaseOf
      <4>3. Learned[s] = 0
        BY <2>2, <2>4, <2>6, <2>8 DEF AckFirst, Tally, Learned
      <4>4. Contract!Acknowledge(s)
        BY <2>1, <2>5, <2>9, <3>1, <4>1, <4>2, <4>3
           DEF Contract!Acknowledge, Contract!Entitled, Opened, Registered, Phase, Queried, Learned, Rules
      <4> QED BY <4>4 DEF Contract!Next
    <3> QED BY <3>4, <3>5
  <2>7. ASSUME Head(down[c]).type = "ADD", Tallies(s, "rADD"), NEW n \in {0, 1},
               \A t \in Switches :
                 Len(table'[t]) = IF t = s THEN Len(table[t]) + n ELSE Len(table[t])
        PROVE  Contract!Next
    <3>1. Queried' = Queried /\ Learned' = [Learned EXCEPT ![s] = @ + 1] /\ Phase' = Phase
      BY <1>3, <2>1, <2>7, TallyStep DEF Greetings
    <3>2. Rules' = [Rules EXCEPT ![s] = @ + n]
      BY <2>7 DEF Rules
    <3>3. Phase[s] # "down"
      BY <2>1 DEF Phase, PhaseOf
    <3>4. ~AckDue(c)
      BY <2>4, <2>7, <2>8 DEF AckDue, AckFirst
    <3>5. Learned[s] < Queried[s]
      <4> DEFINE q == count[s]["tQUERY"]
                 r == count[s]["rADD"]
                 d == Len(down[c])
                 u == Len(up[c])
      <4>1. q \in Nat /\ r \in Nat
        BY <1>2 DEF Counts
      <4>2. d \in Nat /\ d # 0 /\ u \in Nat
        BY <2>8, <2>2 DEF TypeOK, TransportTypeOK
      <4>3. r + d + u <= q
        BY <2>2, <2>4, <3>4 DEF Owed, Tally
      <4>4. Learned[s] = r /\ Queried[s] = q
        BY DEF Learned, Queried
      <4> HIDE DEF q, r, d, u
      <4> QED BY <4>1, <4>2, <4>3, <4>4
    <3>6. Contract!Learn(s)
      BY <2>1, <2>5, <2>9, <3>1, <3>2, <3>3, <3>5
         DEF Contract!Learn, Contract!Entitled, Opened, Registered, Phase, Queried, Learned, Rules
    <3> QED BY <3>6 DEF Contract!Next
  <2> QED BY <2>1, <2>6, <2>7
<1>14. ASSUME NEW c \in Conn, Leaves(c) PROVE V' = V
  BY <1>14 DEF Leaves, Opened, Registered, Known, Phase, PhaseOf, Queried, Learned, Rules
<1>15. ASSUME NEW s \in Switches, Refuses(s) PROVE V' = V
  BY <1>15 DEF Refuses, Opened, Registered, Known, Phase, PhaseOf, Queried, Learned, Rules
<1> HIDE DEF V
<1> QED BY <1>1, <1>5, <1>6, <1>7, <1>8, <1>9, <1>11, <1>12, <1>13, <1>14, <1>15 DEF Effect

(***************************************************************************)
(* The network implements the contract: whatever is lost, delayed, thrown  *)
(* away or restarted, an acknowledgement and every rule follow a           *)
(* registration, the acknowledgement precedes the rules or is lost, and a  *)
(* rule follows a question (check_sock and the respond... functions).      *)
(***************************************************************************)
THEOREM Implements == Spec => ContractKept
<1>1. TypeOK /\ SessionInv /\ [Next]_vars => [Contract!Next]_(Contract!sessionVars)
  BY NextEffect, ContractStep
<1> QED BY <1>1, ContractInit, SessionInvariant, PTL DEF Spec, ContractKept, Contract!Spec
=============================================================================
