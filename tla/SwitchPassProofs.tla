-------------------------- MODULE SwitchPassProofs --------------------------
(***************************************************************************)
(* What one pass of a switch guarantees, for every traffic file, every     *)
(* number of neighbours and every capacity.                                *)
(***************************************************************************)
EXTENDS SwitchPass, FiniteSetTheorems, SequenceTheorems, TLAPS

(* Where errno may be set, and by what.                                    *)
Clean == errno = 0 \/ overran

ErrnoInv ==
  /\ stage \in {"traffic", "write"} => errno = 0
  /\ stage \in {"poll", "left", "resolve"} => Clean
  /\ stage = "right" /\ PORT_1 \notin Neighbours => Clean
  /\ relay.after \in {"poll", "left", "right", "sock", "resolve"}
  /\ cause # "none" => stage = "dead"

(* The process is killed by openSendFIFO where it may be.                  *)
DiesAsExplained ==
  cause' = "open" /\ cause # "open" =>
    overran \/ (stage = "right" /\ PORT_1 \in Neighbours)

(* What sending a packet on can do to the process.                         *)
Outcome(after) ==
  \/ stage' = after /\ errno' \in {0, errno} /\ UNCHANGED <<cause, relay>>
  \/ stage' = "write" /\ errno = 0 /\ errno' = 0 /\ cause' = cause /\ relay'.after = after
  \/ stage' = "dead" /\ cause' = "EMFILE" /\ UNCHANGED <<errno, relay>>
  \/ stage' = "dead" /\ cause' = "open" /\ errno # 0 /\ UNCHANGED <<errno, relay>>

LEMMA ForwardOutcome ==
  ASSUME NEW p, NEW after, Forward(p, after)
  PROVE  Outcome(after)
BY DEF Forward, OpenSendFIFO, GoOn, Die, Outcome

LEMMA ResolveOutcome ==
  ASSUME NEW p, NEW after, Resolve(p, after)
  PROVE  Outcome(after)
BY ForwardOutcome DEF Resolve, GoOn, Outcome

(* The invariant is kept when a pass goes on from stage to after.          *)
LEMMA OutcomeKeeps ==
  ASSUME ErrnoInv, NEW after \in {"left", "right", "sock", "resolve"}, Outcome(after),
         stage # "dead", UNCHANGED overran,
         Clean \/ (stage = "right" /\ PORT_1 \in Neighbours /\ after = "sock")
  PROVE  ErrnoInv' /\ DiesAsExplained
<1>1. cause = "none"
  BY DEF ErrnoInv
<1>2. CASE stage' = after /\ errno' \in {0, errno} /\ UNCHANGED <<cause, relay>>
  BY <1>1, <1>2 DEF ErrnoInv, Clean, DiesAsExplained
<1>3. CASE stage' = "write" /\ errno = 0 /\ errno' = 0 /\ cause' = cause /\ relay'.after = after
  BY <1>1, <1>3 DEF ErrnoInv, Clean, DiesAsExplained
<1>4. CASE stage' = "dead" /\ cause' = "EMFILE" /\ UNCHANGED <<errno, relay>>
  BY <1>4 DEF ErrnoInv, Clean, DiesAsExplained
<1>5. CASE stage' = "dead" /\ cause' = "open" /\ errno # 0 /\ UNCHANGED <<errno, relay>>
  BY <1>5 DEF ErrnoInv, Clean, DiesAsExplained
<1> QED BY <1>2, <1>3, <1>4, <1>5 DEF Outcome

LEMMA ErrnoStep == ErrnoInv /\ [Next]_vars => ErrnoInv' /\ DiesAsExplained
<1>1. SUFFICES ASSUME ErrnoInv, [Next]_vars PROVE ErrnoInv' /\ DiesAsExplained
  OBVIOUS
<1>2. CASE UNCHANGED <<stage, errno, cause, relay, overran>>
  BY <1>1, <1>2 DEF ErrnoInv, Clean, DiesAsExplained
<1>3. CASE Environment \/ UNCHANGED vars
  BY <1>2, <1>3 DEF Environment, Tick, ControllerSends, NeighbourSends, NeighbourReads,
                    NeighbourEnds, NeighbourStarts, process, vars
<1>4. CASE Poll
  BY <1>1, <1>4 DEF Poll, Die, GoOn, ErrnoInv, Clean, DiesAsExplained
<1>5. CASE CheckTraffic
  <2>1. UNCHANGED overran /\ stage = "traffic"
    BY <1>5 DEF CheckTraffic
  <2>2. Outcome("left")
    BY <1>5, ResolveOutcome DEF CheckTraffic, GoOn, Outcome
  <2> QED BY <1>1, <2>1, <2>2, OutcomeKeeps DEF ErrnoInv, Clean
<1>6. ASSUME NEW n \in Ports, CheckConnection(n) PROVE ErrnoInv' /\ DiesAsExplained
  <2>1. UNCHANGED overran /\ stage = StageOf(n) /\ StageOf(n) \in {"left", "right"}
        /\ AfterPort(n) \in {"right", "sock"}
    BY <1>6 DEF CheckConnection, StageOf, AfterPort
  <2>2. CASE GoOn(AfterPort(n))
    BY <1>1, <2>1, <2>2 DEF GoOn, ErrnoInv, Clean, DiesAsExplained, StageOf, AfterPort
  <2>3. CASE /\ n \in Neighbours /\ stage' = AfterPort(n) /\ UNCHANGED <<cause, relay>>
    BY <1>1, <2>1, <2>3 DEF ErrnoInv, Clean, DiesAsExplained, StageOf, AfterPort, Ports,
                            PORT_1, PORT_2
  <2>4. ASSUME n \in Neighbours, NEW p, Resolve(p, AfterPort(n)) PROVE ErrnoInv' /\ DiesAsExplained
    <3>1. Outcome(AfterPort(n))
      BY <2>4, ResolveOutcome
    <3>2. Clean \/ (stage = "right" /\ PORT_1 \in Neighbours /\ AfterPort(n) = "sock")
      BY <1>1, <2>1, <2>4
         DEF ErrnoInv, StageOf, AfterPort, Ports, PORT_1, PORT_2
    <3> QED BY <1>1, <2>1, <3>1, <3>2, OutcomeKeeps
  <2> QED BY <1>6, <2>2, <2>3, <2>4 DEF CheckConnection
<1>7. CASE CheckSock
  BY <1>1, <1>7 DEF CheckSock, ErrnoAfterSock, ErrnoInv, Clean, DiesAsExplained
<1>8. CASE ResolveUnsolved
  <2>1. UNCHANGED overran /\ stage = "resolve"
    BY <1>8 DEF ResolveUnsolved
  <2>2. CASE GoOn("poll") \/ GoOn("resolve")
    BY <1>1, <2>1, <2>2 DEF GoOn, ErrnoInv, Clean, DiesAsExplained
  <2>3. CASE Forward(unsolved[iter], "resolve")
    <3>1. Outcome("resolve")
      BY <2>3, ForwardOutcome
    <3> QED BY <1>1, <2>1, <3>1, OutcomeKeeps DEF ErrnoInv
  <2> QED BY <1>8, <2>2, <2>3 DEF ResolveUnsolved
<1>9. CASE Write
  <2>1. errno = 0 /\ cause = "none" /\ stage = "write"
    BY <1>1, <1>9 DEF Write, ErrnoInv
  <2>2. CASE Die("SIGPIPE")
    BY <1>1, <2>2 DEF Die, ErrnoInv, DiesAsExplained
  <2>3. CASE /\ stage' = relay.after /\ UNCHANGED <<cause, relay>>
             /\ errno' = errno \/ overran'
    BY <1>1, <2>1, <2>3 DEF ErrnoInv, Clean, DiesAsExplained
  <2> QED BY <1>9, <2>2, <2>3 DEF Write
<1> QED BY <1>1, <1>3, <1>4, <1>5, <1>6, <1>7, <1>8, <1>9 DEF Next, Pass

LEMMA ErrnoInvariant == Spec => []ErrnoInv
<1>1. Init => ErrnoInv
  BY DEF Init, ErrnoInv, Clean
<1> QED BY <1>1, ErrnoStep, PTL DEF Spec

(***************************************************************************)
(* The test of errno after poll ends a switch only after a RELAY that met  *)
(* a full pipe (Switch::start, getMessage, check_sock).                    *)
(***************************************************************************)
THEOREM PollErrno == Spec => []PollErrnoExplained
<1>1. ErrnoInv => PollErrnoExplained
  BY DEF ErrnoInv, Clean, PollErrnoExplained
<1> QED BY <1>1, ErrnoInvariant, PTL

(***************************************************************************)
(* openSendFIFO takes the errno of another call for its own only when a    *)
(* RELAY from the right goes left, or after a full pipe (check_connection, *)
(* openSendFIFO).                                                          *)
(***************************************************************************)
THEOREM StaleErrno == Spec => StaleErrnoFromLeft
<1>1. ErrnoInv /\ [Next]_vars => [DiesAsExplained]_vars
  BY ErrnoStep
<1>2. [DiesAsExplained]_vars =>
        [cause' = "open" /\ cause # "open" =>
           overran \/ (stage = "right" /\ PORT_1 \in Neighbours)]_vars
  BY DEF DiesAsExplained
<1> QED BY <1>1, <1>2, ErrnoInvariant, PTL DEF Spec, StaleErrnoFromLeft

-----------------------------------------------------------------------------
(* The last line that was read, if it is a delay, is not over before       *)
(* endTime.                                                                *)
DelayInv ==
  /\ now \in Nat /\ endTime \in Nat /\ next \in Nat \ {0}
  /\ readAt \in Seq(Nat) /\ Len(readAt) = next - 1 /\ next <= Len(File) + 1
  /\ next > 1 /\ File[next - 1].kind = "delay" =>
       endTime >= readAt[next - 1] + File[next - 1].ms
  /\ DelayRespected

LEMMA DelayStep == DelayInv /\ [Next]_vars => DelayInv'
<1>1. SUFFICES ASSUME DelayInv, [Next]_vars PROVE DelayInv'
  OBVIOUS
<1>2. CASE UNCHANGED clockVars /\ now' \in {now, now + 1}
  BY <1>1, <1>2 DEF clockVars, DelayInv, DelayRespected
<1>3. CASE CheckTraffic /\ next' = next + 1
  <2>1. /\ next <= Len(File) /\ now >= endTime /\ readAt' = Append(readAt, now) /\ now' = now
        /\ \/ File[next].kind # "delay" /\ endTime' = endTime
           \/ File[next].kind = "delay" /\ endTime' = now + File[next].ms
    BY <1>1, <1>3 DEF CheckTraffic, DelayPassed, NewEndTime, DelayInv, clockVars
  <2>2. File[next] \in Lines
    BY <1>1, <2>1, FileAssumption DEF DelayInv
  <2>3. File[next].kind = "delay" => File[next].ms \in Nat
    BY <2>2 DEF Lines
  <2>4. /\ readAt' \in Seq(Nat) /\ Len(readAt') = next
        /\ \A i \in 1 .. next - 1 : readAt'[i] = readAt[i]
        /\ readAt'[next] = now
    BY <1>1, <2>1 DEF DelayInv
  <2>5. ASSUME NEW i \in 1 .. Len(readAt') - 1, File[i].kind = "delay"
        PROVE  readAt'[i + 1] >= readAt'[i] + File[i].ms
    <3>1. CASE i = next - 1
      <4>1. next > 1 /\ File[i] \in Lines /\ i + 1 = next
        BY <1>1, <2>1, <2>4, <2>5, <3>1, FileAssumption DEF DelayInv
      <4>2. File[i].ms \in Nat /\ readAt[i] \in Nat /\ readAt'[i] = readAt[i]
        BY <1>1, <2>4, <2>5, <3>1, <4>1 DEF DelayInv, Lines
      <4>3. endTime >= readAt[i] + File[i].ms
        BY <1>1, <2>5, <3>1, <4>1 DEF DelayInv
      <4>4. readAt'[i + 1] >= endTime /\ endTime \in Nat /\ readAt'[i + 1] \in Nat
        BY <1>1, <2>1, <2>4, <4>1 DEF DelayInv
      <4> QED BY <4>2, <4>3, <4>4
    <3>2. CASE i < next - 1
      <4>1. i \in 1 .. Len(readAt) - 1 /\ i \in 1 .. next - 1 /\ i + 1 \in 1 .. next - 1
        BY <1>1, <2>4, <2>5, <3>2 DEF DelayInv
      <4> QED BY <1>1, <2>4, <2>5, <4>1 DEF DelayInv, DelayRespected
    <3> QED BY <1>1, <2>4, <2>5, <3>1, <3>2 DEF DelayInv
  <2>6. DelayRespected'
    BY <2>5 DEF DelayRespected
  <2>7. endTime' \in Nat
    BY <1>1, <2>1, <2>3 DEF DelayInv
  <2>8. next' = next + 1 /\ next' \in Nat \ {0} /\ next' - 1 = next /\ next' <= Len(File) + 1
    BY <1>1, <1>3, <2>1, FileAssumption DEF DelayInv
  <2>9. File[next].kind = "delay" => endTime' >= readAt'[next] + File[next].ms
    BY <1>1, <2>1, <2>3, <2>4 DEF DelayInv
  <2> QED BY <1>1, <2>1, <2>4, <2>6, <2>7, <2>8, <2>9 DEF DelayInv
<1>4. CASE CheckTraffic
  BY <1>2, <1>3, <1>4 DEF CheckTraffic
<1>5. CASE Poll \/ CheckSock \/ ResolveUnsolved \/ Write \/ \E n \in Ports : CheckConnection(n)
  BY <1>2, <1>5 DEF Poll, CheckSock, ResolveUnsolved, Write, CheckConnection
<1>6. CASE Environment \/ UNCHANGED vars
  BY <1>2, <1>6 DEF Environment, Tick, ControllerSends, NeighbourSends, NeighbourReads,
                    NeighbourEnds, NeighbourStarts, process, vars
<1> QED BY <1>1, <1>4, <1>5, <1>6 DEF Next, Pass

(***************************************************************************)
(* No line is read before the delay in front of it is over (setDelay,      *)
(* delayPassed, check_trafficFile).                                        *)
(***************************************************************************)
THEOREM DelaysPass == Spec => []DelayRespected
<1>1. Init => DelayInv
  BY FileAssumption DEF Init, DelayInv, DelayRespected
<1>2. DelayInv => DelayRespected
  BY DEF DelayInv
<1> QED BY <1>1, <1>2, DelayStep, PTL DEF Spec

-----------------------------------------------------------------------------
(* As long as no RELAY has met another in a pipe, every pipe is empty or   *)
(* holds one RELAY, whole, and nothing has left EINVAL.                    *)
OneRelay(st) == st = Empty \/ \E p : st = [msgs |-> <<p>>, cut |-> 0]

DiscardInv ==
  ~met => /\ DOMAIN in = Ports /\ \A n \in Ports : OneRelay(in[n])
          /\ errno # EINVAL /\ discarded = 0

LEMMA ReadOfOne ==
  ASSUME NEW st, OneRelay(st)
  PROVE  AfterRead(st) = Empty /\ StartsWhole(st)
<1>1. Len(<<>>) = 0 /\ \A p : Len(<<p>>) = 1
  OBVIOUS
<1>2. Len(st.msgs) \in {0, 1} /\ st.cut = 0
  BY <1>1 DEF OneRelay, Empty
<1>3. \A c : \A l \in {0, 1} : c = 0 => l * MessageUnits - c - BufferUnits <= 0
  <2>1. \A l \in {0, 1} : l * MessageUnits \in {0, MessageUnits}
    BY UnitsAssumption
  <2> QED BY <2>1, UnitsAssumption
<1> QED BY <1>2, <1>3 DEF AfterRead, StartsWhole

LEMMA DiscardStep == DiscardInv /\ [Next]_vars => DiscardInv'
<1>1. SUFFICES ASSUME DiscardInv, [Next]_vars PROVE DiscardInv'
  OBVIOUS
<1>2. EINVAL # 0 /\ EINVAL # EAGAIN
  BY DEF EINVAL, EAGAIN
<1>3. ASSUME UNCHANGED <<met, in>>, discarded' = discarded, errno' \in {0, EAGAIN, errno}
      PROVE  DiscardInv'
  BY <1>1, <1>2, <1>3 DEF DiscardInv
<1>4. \A p, after : Forward(p, after) => errno' \in {0, errno}
  BY DEF Forward, OpenSendFIFO, GoOn, Die
<1>5. \A p, after : Resolve(p, after) => errno' \in {0, errno}
  BY <1>4 DEF Resolve, GoOn
<1>6. CASE Poll
  BY <1>3, <1>6 DEF Poll, Die, GoOn, pipeVars, sockVars
<1>7. CASE CheckTraffic
  BY <1>3, <1>5, <1>7 DEF CheckTraffic, GoOn, pipeVars, sockVars
<1>8. ASSUME NEW n \in Ports, CheckConnection(n) PROVE DiscardInv'
  <2>1. discarded' = discarded /\ met' = met
    BY <1>8 DEF CheckConnection, sockVars
  <2>2. CASE in' = in /\ errno' \in {errno, EAGAIN}
    BY <1>3, <2>1, <2>2
  <2>3. CASE n \in Neighbours /\ ~IsEmpty(in[n])
    <3>1. in' = [in EXCEPT ![n] = AfterRead(@)]
      BY <1>8, <2>3 DEF CheckConnection
    <3>2. CASE ~met
      <4>1. OneRelay(in[n]) /\ DOMAIN in = Ports
        BY <1>1, <3>2 DEF DiscardInv
      <4>2. AfterRead(in[n]) = Empty /\ StartsWhole(in[n])
        BY <4>1, ReadOfOne
      <4>3. DOMAIN in' = Ports /\ \A k \in Ports : OneRelay(in'[k])
        BY <1>1, <3>1, <3>2, <4>1, <4>2 DEF DiscardInv, OneRelay
      <4>4. errno' \in {0, errno}
        BY <1>5, <1>8, <2>3, <4>2 DEF CheckConnection
      <4> QED BY <1>1, <1>2, <2>1, <3>2, <4>3, <4>4 DEF DiscardInv
    <3> QED BY <2>1, <3>2 DEF DiscardInv
  <2> QED BY <1>8, <2>2, <2>3 DEF CheckConnection, GoOn
<1>9. CASE CheckSock
  <2>1. errno' = 0 /\ UNCHANGED <<met, in>>
    BY <1>9 DEF CheckSock, ErrnoAfterSock, pipeVars
  <2>2. ~met => discarded' = discarded
    <3>1. CASE NotPacket
      BY <1>1, <3>1 DEF DiscardInv, NotPacket
    <3>2. CASE ~NotPacket /\ (~IsEmpty(sock) /\ StartsWhole(sock))
      BY <1>9, <3>2 DEF CheckSock
    <3>3. CASE ~NotPacket /\ ~(~IsEmpty(sock) /\ StartsWhole(sock))
      <4>1. discarded' = discarded + 0
        BY <1>9, <3>3 DEF CheckSock
      <4> QED BY <1>1, <4>1 DEF DiscardInv
    <3> QED BY <3>1, <3>2, <3>3
  <2> QED BY <1>1, <1>2, <2>1, <2>2 DEF DiscardInv
<1>10. CASE ResolveUnsolved
  BY <1>3, <1>4, <1>10 DEF ResolveUnsolved, GoOn, pipeVars, sockVars
<1>11. CASE Write
  BY <1>3, <1>11 DEF Write, Die, sockVars
<1>12. ASSUME NEW n \in Neighbours, NeighbourSends(n) PROVE DiscardInv'
  <2>1. PICK p : in' = [in EXCEPT ![n] = Put(@, p)]
    BY <1>12 DEF NeighbourSends
  <2>2. errno' = errno /\ discarded' = discarded /\ met' = (met \/ ~IsEmpty(in[n]))
    BY <1>12 DEF NeighbourSends, process
  <2>3. SUFFICES ASSUME ~met, IsEmpty(in[n]) PROVE DOMAIN in' = Ports /\ \A k \in Ports : OneRelay(in'[k])
    BY <1>1, <2>2 DEF DiscardInv
  <2>4. DOMAIN in = Ports /\ n \in Ports /\ \A k \in Ports : OneRelay(in[k])
    BY <1>1, <2>3, NeighboursAssumption DEF DiscardInv
  <2>5. in[n] = Empty
    BY <2>3, <2>4 DEF OneRelay, IsEmpty
  <2>6. Put(Empty, p) = [msgs |-> <<p>>, cut |-> 0]
    BY DEF Put, Empty
  <2> QED BY <2>1, <2>4, <2>5, <2>6 DEF OneRelay
<1>13. CASE \/ Tick \/ ControllerSends \/ UNCHANGED vars
            \/ \E n \in Neighbours : NeighbourReads(n) \/ NeighbourEnds(n) \/ NeighbourStarts(n)
  BY <1>3, <1>13 DEF Tick, ControllerSends, NeighbourReads, NeighbourEnds, NeighbourStarts,
                     process, vars, pipeVars, sockVars
<1> QED BY <1>1, <1>6, <1>7, <1>8, <1>9, <1>10, <1>11, <1>12, <1>13
       DEF Next, Pass, Environment

(***************************************************************************)
(* An ACK or ADD that recv read whole and first is only refused after a    *)
(* RELAY was sent into a pipe of this switch that held another one not yet *)
(* read, whatever the sizes of messages and buffers (check_connection,     *)
(* parseType, getMessage, check_sock).                                     *)
(***************************************************************************)
THEOREM DiscardExplained == Spec => []DiscardNeedsTwoRelays
<1>1. Init => DiscardInv
  BY DEF Init, DiscardInv, OneRelay, EINVAL
<1>2. DiscardInv => DiscardNeedsTwoRelays
  BY DEF DiscardInv, DiscardNeedsTwoRelays
<1> QED BY <1>1, <1>2, DiscardStep, PTL DEF Spec

-----------------------------------------------------------------------------
(* Division rounds down, so that what a read leaves is fewer messages.     *)
LEMMA DivBounds ==
  ASSUME NEW a \in Nat, NEW m \in Nat \ {0}
  PROVE  a \div m \in Nat /\ (a \div m) * m <= a /\ a < (a \div m) * m + m
BY SMT

LEMMA FewerUnits ==
  ASSUME NEW k \in Int, NEW l \in Int, NEW m \in Nat \ {0}, k * m < l * m
  PROVE  k < l
BY SMT

LEMMA KeptUnits ==
  ASSUME NEW l \in Nat, NEW m \in Nat \ {0}, NEW c \in Nat, NEW b \in Nat, b > m,
         NEW left \in Int, left = l * m - c - b, left > 0,
         NEW k, k = (left + m - 1) \div m
  PROVE  k \in Nat /\ k < l /\ k * m - left \in 0 .. m - 1
<1>1. left + m - 1 \in Nat
  OBVIOUS
<1>2. k \in Nat /\ k * m <= left + m - 1 /\ left + m - 1 < k * m + m
  BY <1>1, DivBounds
<1>3. l * m \in Nat /\ k * m \in Nat
  BY <1>2
<1>4. k * m < l * m
  BY <1>2, <1>3
<1>5. k < l
  BY <1>2, <1>4, FewerUnits
<1> QED BY <1>2, <1>3, <1>5

(* A read takes one message at least, if there is one.                     *)
LEMMA AfterReadType ==
  ASSUME NEW M, NEW st \in Streams(M)
  PROVE  /\ AfterRead(st) \in Streams(M)
         /\ Len(AfterRead(st).msgs) <= Len(st.msgs)
         /\ ~IsEmpty(st) => Len(AfterRead(st).msgs) < Len(st.msgs)
<1> DEFINE l == Len(st.msgs)
           left == l * MessageUnits - st.cut - BufferUnits
           keep == (left + MessageUnits - 1) \div MessageUnits
<1>1. st.msgs \in Seq(M) /\ st.cut \in Nat /\ l \in Nat
  BY UnitsAssumption DEF Streams
<1>2. ~IsEmpty(st) => l > 0
  BY <1>1 DEF IsEmpty
<1>3. CASE left <= 0
  <2>1. AfterRead(st) = Empty
    BY <1>3 DEF AfterRead
  <2>2. 0 \in 0 .. MessageUnits - 1
    BY UnitsAssumption
  <2>3. Empty \in Streams(M) /\ Len(Empty.msgs) = 0
    BY <2>2 DEF Empty, Streams
  <2> QED BY <1>1, <1>2, <2>1, <2>3
<1>4. CASE ~(left <= 0)
  <2>1. AfterRead(st) = [msgs |-> SubSeq(st.msgs, l - keep + 1, l),
                         cut |-> keep * MessageUnits - left]
    BY <1>4 DEF AfterRead
  <2>2. left \in Int /\ left > 0
    BY <1>1, <1>4, UnitsAssumption
  <2> HIDE DEF keep
  <2>3. keep = (left + MessageUnits - 1) \div MessageUnits /\ left = l * MessageUnits - st.cut - BufferUnits
    BY DEF keep
  <2> HIDE DEF left, l
  <2>4. keep \in Nat /\ keep < l /\ keep * MessageUnits - left \in 0 .. MessageUnits - 1
    BY <1>1, <2>2, <2>3, UnitsAssumption, KeptUnits
  <2>5. l - keep + 1 \in 1 .. l + 1 /\ l \in l - keep .. l /\ l - (l - keep + 1) + 1 = keep
    BY <1>1, <2>4
  <2>6. /\ SubSeq(st.msgs, l - keep + 1, l) \in Seq(M)
        /\ Len(SubSeq(st.msgs, l - keep + 1, l)) = keep
    BY <1>1, <2>4, <2>5, SubSeqProperties DEF l
  <2> QED BY <1>1, <2>1, <2>4, <2>6 DEF Streams, l
<1> QED BY <1>3, <1>4

LEMMA PutType ==
  ASSUME NEW M, NEW st \in Streams(M), NEW m \in M
  PROVE  Put(st, m) \in Streams(M) /\ Len(Put(st, m).msgs) = Len(st.msgs) + 1
BY DEF Put, Streams

-----------------------------------------------------------------------------
(* The variables of the process that a handler sets.                       *)
ProcessType ==
  /\ stage \in Stages
  /\ errno \in {0, EAGAIN, EINVAL}
  /\ cause \in {"none", "poll", "open", "EMFILE", "SIGPIPE"}
  /\ relay \in [port : Ports, after : Stages] /\ opened \in 0 .. MaxDescriptors

Goals == {"poll", "left", "right", "sock", "resolve"}

LEMMA GoOnType ==
  ASSUME ProcessType, NEW to \in Stages, GoOn(to)
  PROVE  ProcessType' /\ opened' = opened
BY DEF GoOn, ProcessType

LEMMA DieType ==
  ASSUME ProcessType, NEW why \in {"poll", "open", "EMFILE", "SIGPIPE"}, Die(why)
  PROVE  ProcessType' /\ opened' = opened
BY DEF Die, ProcessType, Stages

(* A packet that is sent on costs one descriptor at most.                  *)
LEMMA ForwardType ==
  ASSUME ProcessType, NEW p \in Dest, NEW after \in Goals, Forward(p, after)
  PROVE  ProcessType' /\ opened' <= opened + 1
<1>1. after \in Stages /\ "write" \in Stages
  BY DEF Goals, Stages
<1>2. opened \in Nat
  BY BoundsAssumption DEF ProcessType
<1>3. CASE GoOn(after)
  BY <1>1, <1>2, <1>3, GoOnType
<1>4. CASE p # PORT_3 /\ OpenSendFIFO(p, after)
  <2>1. p \in Ports
    BY <1>4, NeighboursAssumption DEF Dest
  <2>2. CASE Die("EMFILE") \/ Die("open")
    BY <1>2, <2>2, DieType
  <2>3. CASE stage' = after /\ errno' = 0 /\ UNCHANGED <<cause, relay, opened>>
    BY <1>1, <1>2, <2>3 DEF ProcessType
  <2>4. CASE /\ opened < MaxDescriptors
             /\ stage' = "write" /\ relay' = [port |-> p, after |-> after]
             /\ opened' = opened + 1 /\ UNCHANGED <<errno, cause>>
    BY <1>1, <1>2, <2>1, <2>4, BoundsAssumption DEF ProcessType
  <2> QED BY <1>4, <2>2, <2>3, <2>4 DEF OpenSendFIFO
<1> QED BY <1>3, <1>4 DEF Forward

(* It costs a descriptor or a place among the parked packets.              *)
LEMMA ResolveType ==
  ASSUME TypeOK, NEW p \in Dest, NEW after \in Goals, Resolve(p, after), iter' = iter
  PROVE  /\ ProcessType' /\ unsolved' \in Seq(Dest) /\ iter' \in 1 .. Len(unsolved') + 1
         /\ asked' \in SUBSET (Dest \cup {ACK})
         /\ opened' + Len(unsolved') <= opened + Len(unsolved) + 1
<1>1. /\ ProcessType /\ unsolved \in Seq(Dest) /\ iter \in 1 .. Len(unsolved) + 1
      /\ asked \in SUBSET (Dest \cup {ACK}) /\ opened \in Nat
  BY BoundsAssumption DEF TypeOK, ProcessType
<1>2. CASE Forward(p, after) /\ UNCHANGED <<unsolved, asked>>
  <2>1. ProcessType' /\ opened' <= opened + 1 /\ opened' \in Int
    <3>1. ProcessType' /\ opened' <= opened + 1
      BY <1>1, <1>2, ForwardType
    <3> QED BY <3>1, BoundsAssumption DEF ProcessType
  <2>2. PICK n \in Nat : n = Len(unsolved)
    BY <1>1
  <2>3. opened' + n <= opened + n + 1
    <3>1. opened \in Nat /\ opened' \in Int /\ opened' <= opened + 1
      BY <1>1, <2>1
    <3> QED BY <2>2, <3>1
  <2>4. unsolved' = unsolved /\ asked' = asked
    BY <1>2
  <2>5. Len(unsolved') = n /\ Len(unsolved) = n
    BY <2>2, <2>4
  <2>6. unsolved' \in Seq(Dest) /\ iter' \in 1 .. Len(unsolved') + 1
    BY <1>1, <2>4
  <2> QED BY <1>1, <2>1, <2>3, <2>4, <2>5, <2>6
<1>3. CASE /\ GoOn(after) /\ unsolved' = Append(unsolved, p) /\ asked' = asked \cup {p}
  <2>1. ProcessType' /\ opened' = opened
    <3>1. after \in Stages
      BY DEF Goals, Stages
    <3> QED BY <1>1, <1>3, <3>1, GoOnType
  <2>2. PICK n \in Nat : n = Len(unsolved)
    BY <1>1
  <2>3. unsolved' \in Seq(Dest) /\ Len(unsolved') = n + 1
    BY <1>1, <1>3, <2>2
  <2>4. iter' \in 1 .. n + 1 + 1 /\ opened' + (n + 1) <= opened + n + 1
    BY <1>1, <2>1, <2>2
  <2> QED BY <1>1, <1>3, <2>1, <2>2, <2>3, <2>4
<1> QED BY <1>2, <1>3 DEF Resolve

(***************************************************************************)
(* What a step keeps of the accounts: descriptors and parked packets grow  *)
(* with lines read and RELAYs taken from the pipes only.                   *)
(***************************************************************************)
Routes(n) == {i \in 1 .. n - 1 : File[i].kind = "route"}

InPipes == Len(in[PORT_1].msgs) + Len(in[PORT_2].msgs)

TakenInv == opened + Len(unsolved) <= Cardinality(Routes(next)) + sent - InPipes

LEMMA RoutesNumber ==
  ASSUME NEW n \in Nat \ {0}
  PROVE  /\ Cardinality(Routes(n)) \in Nat
         /\ File[n].kind = "route" => Cardinality(Routes(n + 1)) = Cardinality(Routes(n)) + 1
         /\ Cardinality(Routes(n + 1)) >= Cardinality(Routes(n))
<1>1. IsFiniteSet(Routes(n))
  <2>1. IsFiniteSet(1 .. n - 1)
    <3>1. 1 \in Int /\ n - 1 \in Int
      OBVIOUS
    <3> QED BY <3>1, FS_Interval
  <2>2. Routes(n) \subseteq 1 .. n - 1
    BY DEF Routes
  <2> QED BY <2>1, <2>2, FS_Subset
<1>2. Cardinality(Routes(n)) \in Nat
  BY <1>1, FS_CardinalityType
<1>3. CASE File[n].kind = "route"
  <2>1. Routes(n + 1) = Routes(n) \cup {n} /\ n \notin Routes(n)
    BY <1>3 DEF Routes
  <2>2. Cardinality(Routes(n + 1)) = Cardinality(Routes(n)) + 1
    BY <1>1, <2>1, FS_AddElement
  <2> QED BY <1>2, <2>2
<1>4. CASE File[n].kind # "route"
  <2>1. Routes(n + 1) = Routes(n)
    BY <1>4 DEF Routes
  <2> QED BY <1>2, <1>4, <2>1
<1> QED BY <1>2, <1>3, <1>4

PassInv == TypeOK /\ TakenInv

(* Numbers of the accounts.                                                *)
LEMMA AccountNumbers ==
  ASSUME TypeOK
  PROVE  /\ opened \in Nat /\ Len(unsolved) \in Nat /\ sent \in Nat /\ InPipes \in Nat
         /\ next \in Nat \ {0} /\ Cardinality(Routes(next)) \in Nat
<1>1. opened \in Nat /\ sent \in Nat /\ unsolved \in Seq(Dest)
  BY BoundsAssumption DEF TypeOK
<1>2. next \in Nat \ {0}
  BY FileAssumption DEF TypeOK
<1>3. in[PORT_1].msgs \in Seq(Dest) /\ in[PORT_2].msgs \in Seq(Dest)
  BY DEF TypeOK, Ports, Streams
<1>4. Len(in[PORT_1].msgs) \in Nat /\ Len(in[PORT_2].msgs) \in Nat /\ Len(unsolved) \in Nat
  BY <1>1, <1>3
<1>5. InPipes \in Nat
  <2>1. \A a, b \in Nat : a + b \in Nat
    OBVIOUS
  <2> QED BY <1>4, <2>1, Zenon DEF InPipes
<1>6. Cardinality(Routes(next)) \in Nat
  BY <1>2, RoutesNumber
<1> QED BY <1>1, <1>2, <1>4, <1>5, <1>6

(* A step that takes nothing in and gives nothing away.                    *)
LEMMA SameAccount ==
  ASSUME PassInv, opened' = opened, UNCHANGED <<unsolved, next, sent, in>>
  PROVE  TakenInv'
BY DEF PassInv, TakenInv, InPipes

LEMMA PollStep == PassInv /\ Poll => PassInv'
<1>1. SUFFICES ASSUME PassInv, Poll PROVE PassInv'
  OBVIOUS
<1>2. ProcessType' /\ opened' = opened
  BY <1>1, GoOnType, DieType DEF Poll, PassInv, TypeOK, ProcessType, Stages
<1>3. UNCHANGED <<now, clockVars, rulesVars, pipeVars, sockVars>> /\ overran' = FALSE
  BY <1>1 DEF Poll
<1>4. TypeOK'
  BY <1>1, <1>2, <1>3 DEF PassInv, TypeOK, ProcessType, clockVars, rulesVars, pipeVars, sockVars
<1> QED BY <1>1, <1>2, <1>3, <1>4, SameAccount DEF PassInv, clockVars, rulesVars, pipeVars

LEMMA TrafficStep == PassInv /\ CheckTraffic => PassInv'
<1>1. SUFFICES ASSUME PassInv, CheckTraffic PROVE PassInv'
  OBVIOUS
<1>2. TypeOK /\ ProcessType /\ UNCHANGED <<now, pipeVars, sockVars, overran>>
  BY <1>1 DEF PassInv, TypeOK, ProcessType, CheckTraffic
<1>3. CASE GoOn("left") /\ UNCHANGED <<clockVars, rulesVars>>
  <2>1. ProcessType' /\ opened' = opened
    BY <1>2, <1>3, GoOnType DEF Stages
  <2>2. TypeOK'
    BY <1>2, <1>3, <2>1 DEF TypeOK, ProcessType, clockVars, rulesVars, pipeVars, sockVars
  <2> QED BY <1>1, <1>2, <1>3, <2>1, <2>2, SameAccount DEF PassInv, clockVars, rulesVars, pipeVars
<1>4. CASE /\ next <= Len(File) /\ next' = next + 1 /\ readAt' = Append(readAt, now)
           /\ UNCHANGED <<table, iter>>
           /\ \/ GoOn("left") /\ UNCHANGED <<unsolved, asked>>
              \/ File[next].kind = "route" /\ Resolve(File[next].dst, "left")
           /\ \/ endTime' = endTime
              \/ File[next].kind = "delay" /\ endTime' = NewEndTime(File[next].ms)
  <2>1. /\ next \in 1 .. Len(File) /\ next' \in 1 .. Len(File) + 1 /\ File[next] \in Lines
        /\ next \in Nat \ {0}
    BY <1>2, <1>4, FileAssumption DEF TypeOK
  <2>2. /\ File[next].kind = "delay" => File[next].ms \in Nat
        /\ File[next].kind = "route" => File[next].dst \in Dest
    BY <2>1 DEF Lines
  <2>3. readAt' \in Seq(Nat)
    BY <1>2, <1>4 DEF TypeOK
  <2>4. endTime' \in Nat
    <3>1. now \in Nat /\ endTime \in Nat
      BY <1>2 DEF TypeOK
    <3>2. \/ endTime' = endTime
          \/ \E ms \in Nat : endTime' = NewEndTime(ms)
      BY <1>4, <2>2
    <3> QED BY <3>1, <3>2 DEF NewEndTime
  <2>5. CASE GoOn("left") /\ UNCHANGED <<unsolved, asked>>
    <3>1. ProcessType' /\ opened' = opened
      BY <1>2, <2>5, GoOnType DEF Stages
    <3>2. TypeOK'
      BY <1>2, <1>4, <2>1, <2>3, <2>4, <2>5, <3>1
         DEF TypeOK, ProcessType, pipeVars, sockVars
    <3>3. TakenInv'
      <4> DEFINE a == Cardinality(Routes(next))
                 b == Cardinality(Routes(next + 1))
                 n == Len(unsolved)
      <4>1. opened + n <= a + sent - InPipes
        BY <1>1 DEF PassInv, TakenInv
      <4>2. a \in Nat /\ b >= a /\ b \in Nat
        BY <2>1, RoutesNumber
      <4>3. opened \in Nat /\ n \in Nat /\ sent \in Nat /\ InPipes \in Nat
        BY <1>2, AccountNumbers
      <4> HIDE DEF a, b, n
      <4>4. opened + n <= b + sent - InPipes
        BY <4>1, <4>2, <4>3
      <4>5. /\ opened' = opened /\ Len(unsolved') = n /\ Cardinality(Routes(next')) = b
            /\ sent' = sent /\ InPipes' = InPipes
        BY <1>2, <1>4, <2>5, <3>1 DEF pipeVars, InPipes, b, n
      <4> QED BY <4>4, <4>5 DEF TakenInv, Routes
    <3> QED BY <3>2, <3>3 DEF PassInv
  <2>6. CASE File[next].kind = "route" /\ Resolve(File[next].dst, "left")
    <3>1. /\ ProcessType' /\ unsolved' \in Seq(Dest) /\ iter' \in 1 .. Len(unsolved') + 1
          /\ asked' \in SUBSET (Dest \cup {ACK})
          /\ opened' + Len(unsolved') <= opened + Len(unsolved) + 1
      BY <1>2, <1>4, <2>2, <2>6, ResolveType DEF Goals
    <3>2. TypeOK'
      BY <1>2, <1>4, <2>1, <2>3, <2>4, <3>1 DEF TypeOK, ProcessType, pipeVars, sockVars
    <3>3. TakenInv'
      <4> DEFINE a == Cardinality(Routes(next))
                 b == Cardinality(Routes(next + 1))
                 n == Len(unsolved)
                 o == opened' + Len(unsolved')
      <4>1. opened + n <= a + sent - InPipes
        BY <1>1 DEF PassInv, TakenInv
      <4>2. a \in Nat /\ b = a + 1
        BY <2>1, <2>6, RoutesNumber
      <4>3. opened \in Nat /\ n \in Nat /\ sent \in Nat /\ InPipes \in Nat
        BY <1>2, AccountNumbers
      <4>4. o <= opened + n + 1 /\ o \in Int
        <5>1. opened' \in Nat /\ Len(unsolved') \in Nat
          BY <3>1, BoundsAssumption DEF ProcessType
        <5> QED BY <3>1, <5>1
      <4>5. /\ Cardinality(Routes(next')) = b /\ sent' = sent /\ InPipes' = InPipes
        BY <1>2, <1>4 DEF pipeVars, InPipes, b
      <4>6. opened' + Len(unsolved') = o
        OBVIOUS
      <4> HIDE DEF a, b, n, o
      <4>7. o <= b + sent - InPipes
        BY <4>1, <4>2, <4>3, <4>4
      <4> QED BY <4>5, <4>6, <4>7 DEF TakenInv, Routes
    <3> QED BY <3>2, <3>3 DEF PassInv
  <2> QED BY <1>4, <2>5, <2>6
<1> QED BY <1>1, <1>3, <1>4 DEF CheckTraffic

(* The sums of the accounts.                                               *)
LEMMA SumChange ==
  ASSUME NEW a \in Int, NEW b \in Int, NEW d \in Int
  PROVE  d + b = a + b + d - a /\ a + d = a + b + d - b
OBVIOUS

LEMMA TakenOne ==
  ASSUME NEW a \in Int, NEW b \in Int, NEW d \in Int, NEW e \in Int, NEW x \in Int,
         NEW y \in Int, NEW z \in Int, x <= y + 1, y <= a + z - b, d < e
  PROVE  x <= a + z - (b + d - e)
OBVIOUS

(* The pipes after a change of one of them.                                *)
LEMMA PipeChange ==
  ASSUME in \in [Ports -> Streams(Dest)], NEW n \in Ports, NEW q \in Streams(Dest),
         in' = [in EXCEPT ![n] = q]
  PROVE  /\ in' \in [Ports -> Streams(Dest)]
         /\ InPipes' = InPipes + Len(q.msgs) - Len(in[n].msgs)
<1>1. in' \in [Ports -> Streams(Dest)]
  OBVIOUS
<1>2. PORT_1 \in Ports /\ PORT_2 \in Ports /\ PORT_1 # PORT_2 /\ (n = PORT_1 \/ n = PORT_2)
  BY DEF Ports, PORT_1, PORT_2
<1>3. /\ q.msgs \in Seq(Dest) /\ in[PORT_1].msgs \in Seq(Dest) /\ in[PORT_2].msgs \in Seq(Dest)
  BY <1>2 DEF Streams
<1>4. PICK a \in Nat : a = Len(in[PORT_1].msgs)
  BY <1>3
<1>5. PICK b \in Nat : b = Len(in[PORT_2].msgs)
  BY <1>3
<1>6. PICK d \in Nat : d = Len(q.msgs)
  BY <1>3
<1>7. InPipes = a + b
  BY <1>4, <1>5 DEF InPipes
<1>8. CASE n = PORT_1
  <2>1. in'[PORT_1] = q /\ in'[PORT_2] = in[PORT_2]
    BY <1>2, <1>8
  <2>2. InPipes' = d + b
    BY <1>5, <1>6, <2>1 DEF InPipes
  <2>3. d + b = a + b + d - a
    BY SumChange
  <2> QED BY <1>1, <1>4, <1>6, <1>7, <1>8, <2>2, <2>3
<1>9. CASE n = PORT_2
  <2>1. in'[PORT_2] = q /\ in'[PORT_1] = in[PORT_1]
    BY <1>2, <1>9
  <2>2. InPipes' = a + d
    BY <1>4, <1>6, <2>1 DEF InPipes
  <2>3. a + d = a + b + d - b
    BY SumChange
  <2> QED BY <1>1, <1>5, <1>6, <1>7, <1>9, <2>2, <2>3
<1> QED BY <1>2, <1>8, <1>9

LEMMA ConnectionStep == ASSUME NEW n \in Ports PROVE PassInv /\ CheckConnection(n) => PassInv'
<1>1. SUFFICES ASSUME PassInv, CheckConnection(n) PROVE PassInv'
  OBVIOUS
<1>2. /\ TypeOK /\ ProcessType
      /\ UNCHANGED <<now, clockVars, table, iter, held, out, up, sent, met, sockVars, overran>>
  BY <1>1 DEF PassInv, TypeOK, ProcessType, CheckConnection
<1>3. AfterPort(n) \in Goals /\ AfterPort(n) \in Stages
  BY DEF AfterPort, Goals, Stages
<1>4. CASE /\ UNCHANGED <<in, unsolved, asked>>
           /\ \/ GoOn(AfterPort(n))
              \/ stage' = AfterPort(n) /\ errno' = EAGAIN /\ UNCHANGED <<cause, relay, opened>>
  <2>1. ProcessType' /\ opened' = opened
    <3>1. CASE GoOn(AfterPort(n))
      BY <1>2, <1>3, <3>1, GoOnType
    <3>2. CASE stage' = AfterPort(n) /\ errno' = EAGAIN /\ UNCHANGED <<cause, relay, opened>>
      BY <1>2, <1>3, <3>2 DEF ProcessType
    <3> QED BY <1>4, <3>1, <3>2
  <2>2. TypeOK'
    BY <1>2, <1>4, <2>1 DEF TypeOK, ProcessType, clockVars, sockVars
  <2> QED BY <1>1, <1>2, <1>4, <2>1, <2>2, SameAccount DEF PassInv, clockVars
<1>5. CASE /\ ~IsEmpty(in[n]) /\ in' = [in EXCEPT ![n] = AfterRead(in[n])]
           /\ \/ Resolve(Head(in[n].msgs), AfterPort(n))
              \/ stage' = AfterPort(n) /\ errno' = EINVAL
                 /\ UNCHANGED <<cause, relay, opened, unsolved, asked>>
  <2> DEFINE q == AfterRead(in[n])
  <2>1. /\ in \in [Ports -> Streams(Dest)] /\ in[n] \in Streams(Dest) /\ q \in Streams(Dest)
        /\ Len(q.msgs) < Len(in[n].msgs)
    BY <1>2, <1>5, AfterReadType DEF TypeOK
  <2>2. in' \in [Ports -> Streams(Dest)] /\ InPipes' = InPipes + Len(q.msgs) - Len(in[n].msgs)
    BY <1>5, <2>1, PipeChange
  <2>3. in[n].msgs \in Seq(Dest) /\ in[n].msgs # <<>> /\ q.msgs \in Seq(Dest)
    BY <1>5, <2>1 DEF Streams, IsEmpty
  <2>4. /\ ProcessType' /\ unsolved' \in Seq(Dest) /\ iter' \in 1 .. Len(unsolved') + 1
        /\ asked' \in SUBSET (Dest \cup {ACK})
        /\ opened' + Len(unsolved') <= opened + Len(unsolved) + 1
    <3>1. CASE Resolve(Head(in[n].msgs), AfterPort(n))
      <4>1. Head(in[n].msgs) \in Dest
        BY <2>3
      <4> QED BY <1>2, <1>3, <3>1, <4>1, ResolveType
    <3>2. CASE stage' = AfterPort(n) /\ errno' = EINVAL
               /\ UNCHANGED <<cause, relay, opened, unsolved, asked>>
      <4>1. ProcessType'
        BY <1>2, <1>3, <3>2 DEF ProcessType
      <4>2. unsolved' = unsolved /\ opened' = opened /\ asked' = asked /\ iter' = iter
        BY <1>2, <3>2
      <4>3. PICK m \in Nat : m = Len(unsolved)
        BY <1>2, AccountNumbers
      <4>4. PICK o \in Nat : o = opened
        BY <1>2, AccountNumbers
      <4>5. o + m <= o + m + 1
        BY <4>3, <4>4
      <4>6. opened' + Len(unsolved') <= opened + Len(unsolved) + 1
        BY <4>2, <4>3, <4>4, <4>5
      <4>7. unsolved' \in Seq(Dest) /\ iter' \in 1 .. Len(unsolved') + 1
            /\ asked' \in SUBSET (Dest \cup {ACK})
        BY <1>2, <4>2 DEF TypeOK
      <4> QED BY <4>1, <4>6, <4>7
    <3> QED BY <1>5, <3>1, <3>2
  <2>5. TypeOK'
    BY <1>2, <2>2, <2>4 DEF TypeOK, ProcessType, clockVars, sockVars
  <2>6. TakenInv'
    <3>1. opened + Len(unsolved) <= Cardinality(Routes(next)) + sent - InPipes
      BY <1>1 DEF PassInv, TakenInv
    <3>2. PICK a \in Nat : a = Cardinality(Routes(next)) /\ Cardinality(Routes(next'))  = a
      BY <1>2, AccountNumbers DEF clockVars
    <3>3. PICK b \in Nat : b = InPipes
      BY <1>2, AccountNumbers
    <3>4. PICK d \in Nat : d = Len(q.msgs)
      BY <2>3
    <3>5. PICK e \in Nat : e = Len(in[n].msgs)
      BY <2>3
    <3>6. PICK x \in Int : x = opened' + Len(unsolved')
      <4>1. opened' \in Nat /\ Len(unsolved') \in Nat
        BY <2>4, BoundsAssumption DEF ProcessType
      <4> QED BY <4>1
    <3>7. PICK y \in Nat : y = opened + Len(unsolved)
      <4>1. opened \in Nat /\ Len(unsolved) \in Nat
        BY <1>2, AccountNumbers
      <4> QED BY <4>1
    <3>8. PICK z \in Nat : z = sent /\ sent' = z
      BY <1>2, AccountNumbers
    <3>9. x <= y + 1
      BY <2>4, <3>6, <3>7
    <3>10. y <= a + z - b /\ d < e
      BY <2>1, <3>1, <3>2, <3>3, <3>4, <3>5, <3>7, <3>8
    <3>11. x <= a + z - (b + d - e)
      BY <3>9, <3>10, TakenOne
    <3>12. InPipes' = b + d - e
      BY <2>2, <3>3, <3>4, <3>5
    <3> QED BY <3>2, <3>6, <3>8, <3>11, <3>12 DEF TakenInv, Routes
  <2> QED BY <2>5, <2>6 DEF PassInv
<1> QED BY <1>1, <1>4, <1>5 DEF CheckConnection

LEMMA SockStep == PassInv /\ CheckSock => PassInv'
<1>1. SUFFICES ASSUME PassInv, CheckSock PROVE PassInv'
  OBVIOUS
<1>2. /\ TypeOK /\ errno' = 0 /\ sock' = AfterRead(sock)
      /\ UNCHANGED <<cause, relay, opened, now, clockVars, unsolved, asked, pipeVars, overran>>
  BY <1>1 DEF PassInv, CheckSock, ErrnoAfterSock
<1>3. sock \in Streams(Dest \cup {ACK}) /\ sock' \in Streams(Dest \cup {ACK})
  BY <1>2, AfterReadType DEF TypeOK
<1>4. discarded' \in Nat
  <2>1. discarded \in Nat
    BY <1>2 DEF TypeOK
  <2>2. discarded' \in {discarded, discarded + 0, discarded + 1}
    BY <1>1 DEF CheckSock
  <2> QED BY <2>1, <2>2
<1>5. stage' \in Stages /\ table' \in SUBSET Dest /\ (iter' = iter \/ iter' = 1)
  <2>1. ASSUME ~IsEmpty(sock) PROVE Head(sock.msgs) \in Dest \cup {ACK}
    BY <1>3, <2>1 DEF IsEmpty, Streams
  <2>2. table \in SUBSET Dest /\ {"poll", "resolve"} \subseteq Stages
    BY <1>2 DEF TypeOK, Stages
  <2>3. CASE stage' = "poll" /\ UNCHANGED <<table, iter>>
    BY <2>2, <2>3
  <2>4. CASE /\ ~IsEmpty(sock) /\ Head(sock.msgs) # ACK /\ stage' = "resolve"
             /\ table' = table \cup {Head(sock.msgs)} /\ iter' = 1
    BY <2>1, <2>2, <2>4
  <2> QED BY <1>1, <2>3, <2>4 DEF CheckSock
<1>6. iter' \in 1 .. Len(unsolved') + 1
  <2>1. Len(unsolved) \in Nat /\ iter \in 1 .. Len(unsolved) + 1 /\ unsolved' = unsolved
    BY <1>2, AccountNumbers DEF TypeOK
  <2> QED BY <1>5, <2>1
<1>7. TypeOK'
  BY <1>2, <1>3, <1>4, <1>5, <1>6 DEF TypeOK, clockVars, pipeVars
<1> QED BY <1>1, <1>2, <1>7, SameAccount DEF PassInv, clockVars, pipeVars

(* A parked packet that is sent on gives its place for the descriptor.     *)
LEMMA RemoveAtLength ==
  ASSUME NEW M, NEW q \in Seq(M), NEW j \in 1 .. Len(q)
  PROVE  RemoveAt(q, j) \in Seq(M) /\ Len(RemoveAt(q, j)) = Len(q) - 1
<1> DEFINE front == SubSeq(q, 1, j - 1)
           back == SubSeq(q, j + 1, Len(q))
<1>1. front \in Seq(M) /\ Len(front) = j - 1
  BY SubSeqProperties
<1>2. back \in Seq(M) /\ Len(back) = Len(q) - j
  BY SubSeqProperties
<1>3. RemoveAt(q, j) = front \o back
  BY DEF RemoveAt
<1> HIDE DEF front, back
<1>4. RemoveAt(q, j) \in Seq(M) /\ Len(RemoveAt(q, j)) = Len(front) + Len(back)
  BY <1>1, <1>2, <1>3, ConcatProperties
<1>5. (j - 1) + (Len(q) - j) = Len(q) - 1
  OBVIOUS
<1> QED BY <1>1, <1>2, <1>4, <1>5

LEMMA ResolveStep == PassInv /\ ResolveUnsolved => PassInv'
<1>1. SUFFICES ASSUME PassInv, ResolveUnsolved PROVE PassInv'
  OBVIOUS
<1>2. /\ TypeOK /\ ProcessType
      /\ UNCHANGED <<now, clockVars, table, asked, pipeVars, sockVars, overran>>
  BY <1>1 DEF PassInv, TypeOK, ProcessType, ResolveUnsolved
<1>3. /\ unsolved \in Seq(Dest) /\ Len(unsolved) \in Nat /\ iter \in 1 .. Len(unsolved) + 1
      /\ opened \in Nat
  BY <1>2, AccountNumbers DEF TypeOK
<1>4. CASE /\ GoOn("poll") \/ GoOn("resolve")
           /\ unsolved' = unsolved
           /\ iter' = iter \/ (iter <= Len(unsolved) /\ iter' = iter + 1)
  <2>1. ProcessType' /\ opened' = opened
    BY <1>2, <1>4, GoOnType DEF Stages
  <2>2. iter' \in 1 .. Len(unsolved) + 1
    BY <1>3, <1>4
  <2>3. TypeOK'
    BY <1>2, <1>4, <2>1, <2>2 DEF TypeOK, ProcessType, clockVars, pipeVars, sockVars
  <2> QED BY <1>1, <1>2, <1>4, <2>1, <2>3, SameAccount DEF PassInv, clockVars, pipeVars
<1>5. CASE /\ iter <= Len(unsolved) /\ Forward(unsolved[iter], "resolve")
           /\ unsolved' = RemoveAt(unsolved, iter) /\ iter' = iter
  <2>1. iter \in 1 .. Len(unsolved) /\ unsolved[iter] \in Dest
    BY <1>3, <1>5
  <2>2. ProcessType' /\ opened' <= opened + 1
    BY <1>2, <1>5, <2>1, ForwardType DEF Goals
  <2>3. unsolved' \in Seq(Dest) /\ Len(unsolved') = Len(unsolved) - 1
    BY <1>3, <1>5, <2>1, RemoveAtLength
  <2>4. PICK n \in Nat : n = Len(unsolved)
    BY <1>3
  <2>5. iter' \in 1 .. (n - 1) + 1
    BY <1>5, <2>1, <2>4
  <2>6. TypeOK'
    BY <1>2, <2>2, <2>3, <2>4, <2>5 DEF TypeOK, ProcessType, clockVars, pipeVars, sockVars
  <2>7. opened' \in Int
    BY <2>2, BoundsAssumption DEF ProcessType
  <2>8. \A o, p \in Int : o <= p + 1 => o + (n - 1) <= p + n
    BY <2>4
  <2>9. opened' + (n - 1) <= opened + n
    <3>1. opened \in Int
      BY <1>3
    <3> QED BY <2>2, <2>7, <2>8, <3>1, Zenon
  <2>10. TakenInv'
    <3>1. opened + n <= Cardinality(Routes(next)) + sent - InPipes
      BY <1>1, <2>4 DEF PassInv, TakenInv
    <3>2. PICK z \in Int : z = Cardinality(Routes(next)) + sent - InPipes
      <4>1. /\ Cardinality(Routes(next)) \in Nat /\ sent \in Nat /\ InPipes \in Nat
        BY <1>2, AccountNumbers
      <4>2. \A a, b, c \in Nat : a + b - c \in Int
        OBVIOUS
      <4> QED BY <4>1, <4>2, Zenon
    <3>3. /\ Len(unsolved') = n - 1 /\ next' = next /\ sent' = sent /\ InPipes' = InPipes
      BY <1>2, <2>3, <2>4 DEF clockVars, pipeVars, InPipes
    <3>4. Cardinality(Routes(next))' + sent' - InPipes' = z
      BY <3>2, <3>3 DEF Routes
    <3>5. \A o, p \in Int : o <= p /\ p <= z => o <= z
      BY <3>2
    <3>6. opened' + (n - 1) <= z
      <4>1. opened' + (n - 1) \in Int /\ opened + n \in Int
        BY <1>3, <2>4, <2>7
      <4> QED BY <2>9, <3>1, <3>2, <3>5, <4>1, Zenon
    <3> QED BY <3>3, <3>4, <3>6 DEF TakenInv
  <2> QED BY <2>6, <2>10 DEF PassInv
<1> QED BY <1>1, <1>4, <1>5 DEF ResolveUnsolved, Erased, AfterErase

LEMMA WriteStep == PassInv /\ Write => PassInv'
<1>1. SUFFICES ASSUME PassInv, Write PROVE PassInv'
  OBVIOUS
<1>2. /\ TypeOK /\ ProcessType
      /\ UNCHANGED <<now, clockVars, rulesVars, in, held, up, sent, met, sockVars>>
  BY <1>1 DEF PassInv, TypeOK, ProcessType, Write
<1>3. /\ relay.port \in Ports /\ relay.after \in Stages
      /\ out \in [Ports -> 0 .. PipeCapacity] /\ PipeCapacity \in Nat
  BY <1>2, BoundsAssumption DEF TypeOK
<1>4. ProcessType' /\ opened' = opened
  <2>1. CASE Die("SIGPIPE")
    BY <1>2, <2>1, DieType
  <2>2. CASE /\ stage' = relay.after /\ (errno' = errno \/ errno' = EAGAIN)
             /\ UNCHANGED <<cause, relay, opened>>
    BY <1>2, <1>3, <2>2 DEF ProcessType
  <2> QED BY <1>1, <2>1, <2>2 DEF Write
<1>5. out' \in [Ports -> 0 .. PipeCapacity]
  <2>1. \/ out' = out
        \/ out[relay.port] < PipeCapacity
           /\ out' = [out EXCEPT ![relay.port] = out[relay.port] + 1]
    BY <1>1 DEF Write
  <2> QED BY <1>3, <2>1
<1>6. overran' \in BOOLEAN
  BY <1>1 DEF Write
<1>7. TypeOK'
  BY <1>2, <1>4, <1>5, <1>6 DEF TypeOK, ProcessType, clockVars, rulesVars, sockVars
<1> QED BY <1>1, <1>2, <1>4, <1>7, SameAccount DEF PassInv, clockVars, rulesVars

-----------------------------------------------------------------------------
(* The steps of the neighbours, the controller and the clock.              *)
LEMMA SendsStep == ASSUME NEW n \in Neighbours PROVE PassInv /\ NeighbourSends(n) => PassInv'
<1>1. SUFFICES ASSUME PassInv, NeighbourSends(n) PROVE PassInv'
  OBVIOUS
<1>2. /\ TypeOK /\ UNCHANGED <<process, now, asked, out, up, sock>> /\ n \in Ports
      /\ sent \in Nat /\ sent < MaxRelays /\ sent' = sent + 1 /\ held' = held \cup {n}
  BY <1>1, NeighboursAssumption, AccountNumbers DEF PassInv, NeighbourSends
<1>3. PICK p \in Dest : in' = [in EXCEPT ![n] = Put(in[n], p)]
  BY <1>1, RelayedAssumption DEF NeighbourSends
<1>4. in \in [Ports -> Streams(Dest)] /\ in[n] \in Streams(Dest)
  BY <1>2 DEF TypeOK
<1>5. /\ Put(in[n], p) \in Streams(Dest)
      /\ Len(Put(in[n], p).msgs) = Len(in[n].msgs) + 1
  BY <1>3, <1>4, PutType
<1>6. /\ in' \in [Ports -> Streams(Dest)]
      /\ InPipes' = InPipes + Len(Put(in[n], p).msgs) - Len(in[n].msgs)
  BY <1>2, <1>3, <1>4, <1>5, PipeChange
<1>7. PICK e \in Nat : e = Len(in[n].msgs)
  BY <1>4 DEF Streams
<1>8. PICK b \in Nat : b = InPipes
  BY <1>2, AccountNumbers
<1>9. InPipes' = b + 1
  <2>1. InPipes' = b + (e + 1) - e
    BY <1>5, <1>6, <1>7, <1>8
  <2>2. b + (e + 1) - e = b + 1
    BY <1>7, <1>8
  <2> QED BY <2>1, <2>2
<1>10. sent' \in 0 .. MaxRelays /\ held' \in SUBSET Neighbours /\ met' \in BOOLEAN
  BY <1>1, <1>2, BoundsAssumption DEF TypeOK, NeighbourSends
<1>11. TypeOK'
  BY <1>2, <1>6, <1>10 DEF TypeOK, process, clockVars
<1>12. TakenInv'
  <2>1. PICK a \in Nat : a = Cardinality(Routes(next))
    BY <1>2, AccountNumbers
  <2>2. PICK z \in Nat : z = sent
    BY <1>2
  <2>3. opened + Len(unsolved) <= a + z - b
    BY <1>1, <1>8, <2>1, <2>2 DEF PassInv, TakenInv
  <2>4. a + z - b = a + (z + 1) - (b + 1)
    BY <1>8, <2>1, <2>2
  <2>5. /\ opened' = opened /\ unsolved' = unsolved /\ sent' = z + 1
        /\ Cardinality(Routes(next))' = a
    BY <1>2, <2>1, <2>2 DEF process, clockVars, Routes
  <2> QED BY <1>9, <2>3, <2>4, <2>5 DEF TakenInv
<1> QED BY <1>11, <1>12 DEF PassInv

LEMMA EnvironmentStep == PassInv /\ Environment => PassInv'
<1>1. SUFFICES ASSUME PassInv, Environment PROVE PassInv'
  OBVIOUS
<1>2. TypeOK
  BY <1>1 DEF PassInv
<1>3. CASE Tick
  <2>1. now' \in Nat /\ UNCHANGED <<process, asked, pipeVars, sock>>
    BY <1>2, <1>3 DEF TypeOK, Tick
  <2>2. TypeOK'
    BY <1>2, <2>1 DEF TypeOK, process, clockVars, pipeVars
  <2> QED BY <1>1, <2>1, <2>2, SameAccount DEF PassInv, process, clockVars, pipeVars
<1>4. CASE ControllerSends
  <2>1. PICK m \in asked : sock' = Put(sock, m) /\ asked' = asked \ {m}
    BY <1>4 DEF ControllerSends
  <2>2. UNCHANGED <<process, now, pipeVars>>
    BY <1>4 DEF ControllerSends
  <2>3. sock' \in Streams(Dest \cup {ACK}) /\ asked' \in SUBSET (Dest \cup {ACK})
    BY <1>2, <2>1, PutType DEF TypeOK
  <2>4. TypeOK'
    BY <1>2, <2>2, <2>3 DEF TypeOK, process, clockVars, pipeVars
  <2> QED BY <1>1, <2>2, <2>4, SameAccount DEF PassInv, process, clockVars, pipeVars
<1>5. ASSUME NEW n \in Neighbours, NeighbourReads(n) \/ NeighbourEnds(n) \/ NeighbourStarts(n)
      PROVE  PassInv'
  <2>1. UNCHANGED <<process, now, asked, in, sent, met, sock>>
    BY <1>5 DEF NeighbourReads, NeighbourEnds, NeighbourStarts
  <2>2. out' \in [Ports -> 0 .. PipeCapacity]
    <3>1. out \in [Ports -> 0 .. PipeCapacity] /\ 0 \in 0 .. PipeCapacity
      BY <1>2, BoundsAssumption DEF TypeOK
    <3>2. out' = out \/ out' = [out EXCEPT ![n] = 0]
      BY <1>5 DEF NeighbourReads, NeighbourEnds, NeighbourStarts
    <3> QED BY <3>1, <3>2
  <2>3. held' \in SUBSET Neighbours /\ up' \in SUBSET Neighbours
    BY <1>2, <1>5 DEF TypeOK, NeighbourReads, NeighbourEnds, NeighbourStarts
  <2>4. TypeOK'
    BY <1>2, <2>1, <2>2, <2>3 DEF TypeOK, process, clockVars
  <2> QED BY <1>1, <2>1, <2>4, SameAccount DEF PassInv, process, clockVars
<1> QED BY <1>1, <1>3, <1>4, <1>5, SendsStep DEF Environment

-----------------------------------------------------------------------------
LEMMA PassInit == Init => PassInv
<1>1. SUFFICES ASSUME Init PROVE PassInv
  OBVIOUS
<1>2. Empty \in Streams(Dest) /\ Empty \in Streams(Dest \cup {ACK}) /\ Len(Empty.msgs) = 0
  BY UnitsAssumption DEF Empty, Streams
<1>3. in \in [Ports -> Streams(Dest)] /\ sock \in Streams(Dest \cup {ACK})
  BY <1>1, <1>2 DEF Init
<1>4. /\ relay \in [port : Ports, after : Stages] /\ opened \in 0 .. MaxDescriptors
      /\ out \in [Ports -> 0 .. PipeCapacity] /\ sent \in 0 .. MaxRelays
  BY <1>1, BoundsAssumption DEF Init, Ports, Stages
<1>5. /\ unsolved \in Seq(Dest) /\ Len(unsolved) = 0 /\ iter \in 1 .. Len(unsolved) + 1
      /\ readAt \in Seq(Nat) /\ next \in 1 .. Len(File) + 1
  BY <1>1, FileAssumption DEF Init
<1>6. TypeOK
  BY <1>1, <1>3, <1>4, <1>5 DEF Init, TypeOK, Stages, Dest
<1>7. TakenInv
  <2>1. InPipes = 0
    <3>1. Len(in[PORT_1].msgs) = 0 /\ Len(in[PORT_2].msgs) = 0
      BY <1>1, <1>2 DEF Init, Ports
    <3> QED BY <3>1 DEF InPipes
  <2>2. Cardinality(Routes(next)) = 0
    <3>1. Routes(next) = {}
      BY <1>1 DEF Init, Routes
    <3> QED BY <3>1, FS_EmptySet
  <2>3. opened = 0 /\ sent = 0
    BY <1>1 DEF Init
  <2> QED BY <1>5, <2>1, <2>2, <2>3 DEF TakenInv
<1> QED BY <1>6, <1>7 DEF PassInv

LEMMA PassStep == PassInv /\ [Next]_vars => PassInv'
<1>1. SUFFICES ASSUME PassInv, [Next]_vars PROVE PassInv'
  OBVIOUS
<1>2. CASE Pass
  BY <1>1, <1>2, PollStep, TrafficStep, SockStep, ResolveStep, WriteStep, ConnectionStep DEF Pass
<1>3. CASE Environment
  BY <1>1, <1>3, EnvironmentStep
<1>4. CASE UNCHANGED vars
  <2>1. TypeOK'
    BY <1>1, <1>4 DEF PassInv, TypeOK, vars, clockVars, rulesVars, pipeVars, sockVars
  <2> QED BY <1>1, <1>4, <2>1, SameAccount
          DEF PassInv, vars, clockVars, rulesVars, pipeVars, sockVars
<1> QED BY <1>1, <1>2, <1>3, <1>4 DEF Next

(***************************************************************************)
(* Every variable of a switch keeps its type: the place in unsolvedPackets *)
(* stays within the list or just after it, a pipe never holds more than it *)
(* can, and there are never more descriptors than the process may open.    *)
(***************************************************************************)
THEOREM PassTypes == Spec => []TypeOK
<1>1. PassInv => TypeOK
  BY DEF PassInv
<1> QED BY <1>1, PassInit, PassStep, PTL DEF Spec

(***************************************************************************)
(* However often a packet is parked and tried again, it costs one          *)
(* descriptor at most: those that were opened and the packets still parked *)
(* are as many as the packets taken in, or fewer (openSendFIFO,            *)
(* resolveUnsolvedPackets).                                                *)
(***************************************************************************)
THEOREM DescriptorsByPackets == Spec => []OpenedByPackets
<1>1. PassInv => OpenedByPackets
  <2>1. SUFFICES ASSUME PassInv PROVE OpenedByPackets
    OBVIOUS
  <2>2. TypeOK /\ opened + Len(unsolved) <= Cardinality(Routes(next)) + sent - InPipes
    BY <2>1 DEF PassInv, TakenInv
  <2>3. in[PORT_1].msgs \in Seq(Dest) /\ in[PORT_2].msgs \in Seq(Dest)
    BY <2>2 DEF TypeOK, Ports, Streams
  <2>4. PICK a \in Nat : a = Len(in[PORT_1].msgs)
    BY <2>3
  <2>5. PICK b \in Nat : b = Len(in[PORT_2].msgs)
    BY <2>3
  <2>6. PICK c \in Nat : c = Cardinality(Routes(next))
    BY <2>2, AccountNumbers
  <2>7. PICK z \in Nat : z = sent
    BY <2>2, AccountNumbers
  <2>8. InPipes = a + b
    BY <2>4, <2>5 DEF InPipes
  <2>9. opened + Len(unsolved) <= c + z - (a + b)
    BY <2>2, <2>6, <2>7, <2>8
  <2>10. c + z - (a + b) = c + z - a - b
    BY <2>4, <2>5, <2>6, <2>7
  <2>11. PacketsTaken = c + z - a - b
    BY <2>4, <2>5, <2>6, <2>7 DEF PacketsTaken, Routes
  <2> QED BY <2>9, <2>10, <2>11 DEF OpenedByPackets
<1> QED BY <1>1, PassInit, PassStep, PTL DEF Spec
=============================================================================
