------------------------ MODULE A3sdnRegistryProofs ------------------------
(***************************************************************************)
(* What the controller knows of its switches and of their sockets, and     *)
(* what a switch does with traffic for its own range and admits, for every *)
(* value of the constants.                                                 *)
(***************************************************************************)
EXTENDS A3sdnSessionProofs

-----------------------------------------------------------------------------
(* What a step can do to the connections the controller has, or has still  *)
(* to accept: the controller ends, a switch connects, a connection is      *)
(* accepted, a pass begins, a slot is visited, a socket is closed, or      *)
(* nothing of it changes.                                                  *)
doorVars == <<ctrlUp, pending, clients, sweep, index, switchFDMap>>

Shuts ==
  /\ ctrlUp' = FALSE /\ pending' = <<>> /\ clients' = <<>> /\ sweep' = <<>>
  /\ index' = 0 /\ switchFDMap' = {} /\ up' = [c \in Conn |-> <<>>]
  /\ UNCHANGED <<alive, starts>>

Knocks(s) ==
  /\ ~alive[s] /\ alive' = [alive EXCEPT ![s] = TRUE]
  /\ starts[s] < MaxStarts /\ starts' = [starts EXCEPT ![s] = @ + 1]
  /\ pending' = Append(pending, <<s, starts[s] + 1>>)
  /\ UNCHANGED <<ctrlUp, clients, sweep, index, switchFDMap>>

Enters ==
  /\ sweep = <<>> /\ pending # <<>> /\ HasRoom
  /\ pending' = Tail(pending)
  /\ clients' = Append(clients, Head(pending)) /\ sweep' = clients'
  /\ UNCHANGED <<ctrlUp, alive, starts, index, switchFDMap, up>>

Begins ==
  /\ sweep = <<>> /\ sweep' = clients
  /\ UNCHANGED <<ctrlUp, alive, starts, pending, clients, index, switchFDMap, up>>

Looks(c) ==
  /\ sweep # <<>> /\ Head(sweep) = c /\ GoOn(Tail(sweep))
  /\ \/ IsClient(c) /\ switchFDMap' = switchFDMap \cup {c}
     \/ switchFDMap' = switchFDMap
  /\ ~IsClient(c) \/ Greeted(c)'
  /\ UNCHANGED <<ctrlUp, alive, starts, pending, clients>>

Departs(c) ==
  /\ sweep # <<>> /\ Head(sweep) = c /\ GoOn(Shifted(sweep))
  /\ IsClient(c) /\ clients' = Erase(clients, index)
  /\ ~PeerLive(c) /\ switchFDMap' = switchFDMap \ {c} /\ Greeted(c)'
  /\ UNCHANGED <<ctrlUp, alive, starts, pending>>

Elsewhere ==
  /\ UNCHANGED <<doorVars, starts>>
  /\ \A s \in Switches : alive'[s] => alive[s]

DoorStep ==
  \/ Shuts \/ Enters \/ Begins \/ Elsewhere
  \/ \E s \in Switches : Knocks(s)
  \/ \E c \in Conn : Looks(c) \/ Departs(c)

(* A recv that takes an OPEN leaves none: there is one at most.            *)
LEMMA HeadAfterRecv ==
  ASSUME NEW T, NEW q \in Seq(T), NEW k \in 1 .. Len(q), AfterRecv(q, k) # <<>>
  PROVE  \E i \in 1 .. Len(q) : i # 1 /\ AfterRecv(q, k)[1] = q[i]
<1>1. /\ AfterRecv(q, k) \in Seq(T) /\ Len(AfterRecv(q, k)) = Len(q) - k
      /\ \A i \in 1 .. Len(q) - k : AfterRecv(q, k)[i] = q[k + i]
  BY RestOfQueue
<1> DEFINE r == AfterRecv(q, k)
<1> HIDE DEF r
<1>2. r \in Seq(T) /\ r # <<>> => Len(r) \in Nat \ {0}
  OBVIOUS
<1>3. Len(q) - k \in Nat \ {0} /\ Len(q) \in Nat
  BY <1>1, <1>2 DEF r
<1>4. 1 \in 1 .. Len(q) - k /\ k + 1 \in 1 .. Len(q) /\ k + 1 # 1
  BY <1>3
<1>5. AfterRecv(q, k)[1] = q[k + 1]
  BY <1>1, <1>4
<1> QED BY <1>4, <1>5

LEMMA GreetedAfterRecv ==
  ASSUME TypeOK, SessionInv, NEW c \in Conn, NEW k \in 1 .. Len(up[c]),
         up'[c] = AfterRecv(up[c], k)
  PROVE  Greeted(c)'
<1>1. up[c] \in Seq(ToController) /\ Ordered(c)
  BY DEF TypeOK, TransportTypeOK, SessionInv
<1>2. CASE AfterRecv(up[c], k) = <<>>
  BY <1>2 DEF Greeted
<1>3. CASE AfterRecv(up[c], k) # <<>>
  <2>1. PICK i \in 1 .. Len(up[c]) : i # 1 /\ AfterRecv(up[c], k)[1] = up[c][i]
    BY <1>1, <1>3, HeadAfterRecv
  <2>2. up[c][i].type # "OPEN" /\ up[c][i] \in ToController
    BY <1>1, <2>1 DEF Ordered
  <2> QED BY <2>1, <2>2 DEF Greeted, ToController
<1> QED BY <1>2, <1>3

(* The end of a switch process is nothing the controller sees at once.     *)
LEMMA SwitchGoneDoor ==
  ASSUME TypeOK, NEW s \in Switches, SwitchGone(s), UNCHANGED controllerVars
  PROVE  DoorStep
BY DEF SwitchGone, CloseSwitch, controllerVars, Elsewhere, doorVars, DoorStep, TypeOK,
       TransportTypeOK

LEMMA ControllerGoneDoor ==
  ASSUME NEW q, ControllerGone(q)
  PROVE  DoorStep
BY DEF ControllerGone, CloseController, Shuts, DoorStep

(* The visit of a socket with data.                                        *)
LEMMA ServeDoor ==
  ASSUME TypeOK, SessionInv, NEW c \in Conn, Serve(c)
  PROVE  DoorStep
<1> DEFINE m == Head(up[c])
<1>1. PICK k \in 1 .. Len(up[c]) :
        LET rest == [up EXCEPT ![c] = AfterRecv(@, k)]
        IN \/ m.type = "OPEN" /\ RespondOPEN(c, m, rest)
           \/ m.type = "QUERY" /\ RespondQUERY(c, m, rest)
  BY DEF Serve
<1> DEFINE rest == [up EXCEPT ![c] = AfterRecv(@, k)]
<1>2. rest[c] = AfterRecv(up[c], k)
  BY DEF TypeOK, TransportTypeOK
<1> HIDE DEF m, rest
<1>3. CASE ControllerGone(rest)
  BY <1>3, ControllerGoneDoor
<1>4. CASE /\ up' = rest /\ GoOn(Tail(sweep))
           /\ switchFDMap' = switchFDMap \cup {c} \/ switchFDMap' = switchFDMap
           /\ UNCHANGED <<alive, starts, ctrlUp, pending, clients>>
  <2>1. Greeted(c)'
    BY <1>2, <1>4, GreetedAfterRecv
  <2>2. IsClient(c) /\ sweep # <<>> /\ Head(sweep) = c
    BY DEF Serve, Visiting
  <2> QED BY <1>4, <2>1, <2>2 DEF Looks, DoorStep
<1> QED BY <1>1, <1>3, <1>4 DEF RespondOPEN, RespondQUERY, rest

(* Every step of the network is a DoorStep.                                *)
LEMMA NextDoor ==
  ASSUME TypeOK, SessionInv, [Next]_vars
  PROVE  DoorStep
<1>1. CASE ControllerExit
  BY <1>1, ControllerGoneDoor DEF ControllerExit
<1>2. CASE ControllerLoop
  <2>1. CASE PollFails
    BY <2>1, ControllerGoneDoor DEF PollFails
  <2>2. CASE Accept \/ PollIdle
    BY <2>2 DEF Accept, PollIdle, transportVars, Enters, Begins, DoorStep
  <2>3. ASSUME NEW c \in Conn, VisitIdle(c) PROVE DoorStep
    <3>1. ~IsClient(c) \/ Greeted(c)'
      BY <2>3 DEF VisitIdle, NothingToRead, Greeted, transportVars
    <3> QED BY <2>3, <3>1 DEF VisitIdle, Visiting, transportVars, Looks, DoorStep
  <2>4. ASSUME NEW c \in Conn, Disconnect(c) PROVE DoorStep
    <3>1. Greeted(c)'
      BY <2>4 DEF Disconnect, CloseConnection, Greeted, TypeOK, TransportTypeOK
    <3> QED BY <2>4, <3>1 DEF Disconnect, Visiting, EndOfFile, Departs, DoorStep
  <2> QED BY <1>2, <2>1, <2>2, <2>3, <2>4, ServeDoor DEF ControllerLoop
<1>3. ASSUME NEW s \in Switches, SwitchLoop(s) \/ Environment(s) PROVE DoorStep
  <2>1. UNCHANGED controllerVars
    BY <1>3 DEF SwitchLoop, Environment
  <2>2. CASE SwitchGone(s)
    BY <2>1, <2>2, SwitchGoneDoor
  <2>3. CASE Start(s)
    BY <2>1, <2>3 DEF Start, controllerVars, Knocks, DoorStep
  <2>4. CASE UNCHANGED <<alive, starts, ctrlUp, pending>>
    BY <2>1, <2>4 DEF controllerVars, Elsewhere, doorVars, DoorStep
  <2>5. CASE RecvSock(s) \/ ResolveStep(s) \/ SockIdle(s) \/ \E n \in Switches : RecvTorn(s, n)
    BY <2>4, <2>5 DEF RecvSock, ResolveStep, SockIdle, RecvTorn, transportVars
  <2>6. CASE ReadTraffic(s) \/ \E n \in Switches : RecvRELAY(s, n)
    BY <2>2, <2>4, <2>6 DEF ReadTraffic, RecvRELAY
  <2>7. CASE ControllerLost(s) \/ Exit(s) \/ \E n \in Switches : RecvRELAYFails(s, n)
    BY <2>2, <2>7 DEF ControllerLost, Exit, RecvRELAYFails
  <2> QED BY <1>3, <2>3, <2>5, <2>6, <2>7 DEF SwitchLoop, Environment
<1>4. CASE UNCHANGED vars
  BY <1>4 DEF vars, transportVars, controllerVars, Elsewhere, doorVars, DoorStep
<1> QED BY <1>1, <1>2, <1>3, <1>4 DEF Next

(* An OPEN that is on its way after a step was on its way before, or has   *)
(* just been sent by a switch that starts.                                 *)
LEMMA GreetingStep ==
  ASSUME TypeOK, SessionInv, [Next]_vars, NEW c \in Conn, ~Greeted(c)'
  PROVE  \/ ~Greeted(c) /\ up'[c][1] = up[c][1]
         \/ \E s \in Switches, range \in IPRange :
              /\ ~alive[s] /\ starts' = [starts EXCEPT ![s] = @ + 1]
              /\ c = <<s, starts[s] + 1>> /\ up'[c] = <<OpenMsg(s, range)>>
              /\ table'[s] = <<InitRule(range)>>
<1> DEFINE Old == ~Greeted(c) /\ up'[c][1] = up[c][1]
<1>1. Effect /\ up \in [Conn -> Seq(ToController)]
  BY NextEffect DEF TypeOK, TransportTypeOK
<1>2. CASE up'[c] = up[c]
  BY <1>2 DEF Greeted
<1>3. CASE Stops
  BY <1>3 DEF Stops, Greeted
<1>4. ASSUME NEW s \in Switches, Opens(s), up'[c] # up[c]
      PROVE  \E range \in IPRange :
               /\ ~alive[s] /\ starts' = [starts EXCEPT ![s] = @ + 1]
               /\ c = <<s, starts[s] + 1>> /\ up'[c] = <<OpenMsg(s, range)>>
               /\ table'[s] = <<InitRule(range)>>
  BY <1>1, <1>4 DEF Opens, TypeOK, SwitchTypeOK
<1>5. ASSUME NEW s \in Switches, Asks(s) PROVE Old
  <2>1. CASE up'[c] = up[c]
    BY <2>1 DEF Greeted
  <2>2. ASSUME NEW p \in Packet, up'[c] = Append(up[c], QueryMsg(s, p)) PROVE Old
    <3>1. QueryMsg(s, p).type = "QUERY"
      BY DEF QueryMsg
    <3> DEFINE m == QueryMsg(s, p)
    <3> HIDE DEF m
    <3>2. CASE up[c] = <<>>
      <4>1. Append(up[c], m)[1] = m
        BY <3>2
      <4> QED BY <2>2, <3>1, <4>1 DEF Greeted, m
    <3>3. CASE up[c] # <<>>
      <4>1. Append(up[c], m)[1] = up[c][1] /\ Append(up[c], m) # <<>>
        BY <1>1, <3>3
      <4> QED BY <2>2, <3>3, <4>1 DEF Greeted, m
    <3> QED BY <3>2, <3>3
  <2> QED BY <1>1, <1>5, <2>1, <2>2 DEF Asks
<1>6. ASSUME NEW d \in Conn, Welcomes(d) \/ Answers(d), up'[c] # up[c] PROVE FALSE
  <2>1. PICK k \in 1 .. Len(up[c]) : up'[c] = AfterRecv(up[c], k)
    BY <1>1, <1>6 DEF Welcomes, Answers, Replies
  <2> QED BY <2>1, GreetedAfterRecv
<1>7. ASSUME NEW d \in Conn, Leaves(d), up'[c] # up[c] PROVE FALSE
  BY <1>1, <1>7 DEF Leaves, Greeted
<1>8. CASE Works \/ \E s \in Switches : Closes(s) \/ Reads(s) \/ Refuses(s)
  BY <1>2, <1>8 DEF Works, Closes, Reads, Refuses
<1> QED BY <1>1, <1>2, <1>3, <1>4, <1>5, <1>6, <1>7, <1>8 DEF Effect

-----------------------------------------------------------------------------
(* What Append, Tail and erase make of a vector of distinct elements.      *)
Distinct(q) == \A i, j \in 1 .. Len(q) : q[i] = q[j] => i = j

LEMMA AppendElements ==
  ASSUME NEW T, NEW q \in Seq(T), NEW a \in T
  PROVE  /\ Append(q, a) \in Seq(T) /\ Append(q, a) # <<>>
         /\ Len(Append(q, a)) = Len(q) + 1 /\ Len(q) \in Nat
         /\ \A i \in 1 .. Len(q) : Append(q, a)[i] = q[i]
         /\ Append(q, a)[Len(q) + 1] = a
         /\ \A d : Contains(Append(q, a), d) <=> Contains(q, d) \/ d = a
         /\ Distinct(q) /\ ~Contains(q, a) => Distinct(Append(q, a))
<1>1. /\ Append(q, a) \in Seq(T) /\ Append(q, a) # <<>>
      /\ Len(Append(q, a)) = Len(q) + 1 /\ Len(q) \in Nat
      /\ \A i \in 1 .. Len(q) : Append(q, a)[i] = q[i]
      /\ Append(q, a)[Len(q) + 1] = a
  OBVIOUS
<1> DEFINE r == Append(q, a)
           n == Len(q)
<1> HIDE DEF r, n
<1>2. /\ Len(r) = n + 1 /\ n \in Nat /\ (\A i \in 1 .. n : r[i] = q[i]) /\ r[n + 1] = a
  BY <1>1 DEF r, n
<1>3. \A i \in 1 .. n + 1 : i \in 1 .. n \/ i = n + 1
  BY <1>2
<1>4. \A i \in 1 .. n : i \in 1 .. n + 1 /\ i # n + 1
  BY <1>2
<1>5. ASSUME NEW d PROVE Contains(r, d) <=> Contains(q, d) \/ d = a
  <2>1. Contains(r, d) <=> \E i \in 1 .. n + 1 : r[i] = d
    BY <1>2 DEF Contains
  <2>2. Contains(q, d) <=> \E i \in 1 .. n : q[i] = d
    BY DEF Contains, n
  <2>3. n + 1 \in 1 .. n + 1
    BY <1>2
  <2> QED BY <1>2, <1>3, <1>4, <2>1, <2>2, <2>3
<1>6. ASSUME Distinct(q), ~Contains(q, a) PROVE Distinct(r)
  <2>1. \A i, j \in 1 .. n : q[i] = q[j] => i = j
    BY <1>6 DEF Distinct, n
  <2>2. \A i \in 1 .. n : q[i] # a
    BY <1>6 DEF Contains, n
  <2>3. \A i, j \in 1 .. n + 1 : r[i] = r[j] => i = j
    BY <1>2, <1>3, <2>1, <2>2
  <2> QED BY <1>2, <2>3 DEF Distinct
<1> QED BY <1>1, <1>5, <1>6 DEF r

LEMMA TailElements ==
  ASSUME NEW T, NEW q \in Seq(T), q # <<>>
  PROVE  /\ Tail(q) \in Seq(T) /\ Len(Tail(q)) = Len(q) - 1 /\ Len(q) \in Nat \ {0}
         /\ Head(q) = q[1] /\ Head(q) \in T
         /\ \A i \in 1 .. Len(q) - 1 : Tail(q)[i] = q[i + 1] /\ i + 1 \in 2 .. Len(q)
         /\ \A i \in 2 .. Len(q) : i - 1 \in 1 .. Len(q) - 1 /\ Tail(q)[i - 1] = q[i]
<1>1. /\ Tail(q) \in Seq(T) /\ Len(Tail(q)) = Len(q) - 1 /\ Len(q) \in Nat \ {0}
      /\ Head(q) = q[1] /\ Head(q) \in T
      /\ \A i \in 1 .. Len(q) - 1 : Tail(q)[i] = q[i + 1]
  OBVIOUS
<1> DEFINE n == Len(q)
           r == Tail(q)
<1> HIDE DEF n, r
<1>2. n \in Nat /\ \A i \in 1 .. n - 1 : r[i] = q[i + 1]
  BY <1>1 DEF n, r
<1>3. \A i \in 1 .. n - 1 : i + 1 \in 2 .. n
  BY <1>2
<1>4. \A i \in 2 .. n : i - 1 \in 1 .. n - 1 /\ r[i - 1] = q[i]
  BY <1>2
<1> QED BY <1>1, <1>3, <1>4 DEF n, r

(* The position an erase takes out of a vector, when the pass has counted  *)
(* to i: that one, or the last one when there is no such element.          *)
Slot(q, i) == IF i < Len(q) THEN i + 1 ELSE Len(q)

LEMMA ErasedSlot ==
  ASSUME NEW T, NEW q \in Seq(T), q # <<>>, NEW i \in Nat
  PROVE  /\ Slot(q, i) \in 1 .. Len(q)
         /\ Erase(q, i) \in Seq(T) /\ Len(Erase(q, i)) = Len(q) - 1
         /\ \A j \in 1 .. Len(q) - 1 :
              Erase(q, i)[j] = IF j < Slot(q, i) THEN q[j] ELSE q[j + 1]
<1>1. PICK n \in Nat : n = Len(q)
  OBVIOUS
<1>2. n # 0
  BY <1>1, EmptySeq
<1>3. CASE i < n
  <2>1. i + 1 \in 1 .. Len(q)
    BY <1>1, <1>3
  <2>2. Erase(q, i) = RemoveAt(q, i + 1) /\ Slot(q, i) = i + 1
    BY <1>1, <1>3 DEF Erase, Slot
  <2> QED BY <2>1, <2>2, RemoveAtType
<1>4. CASE ~(i < n)
  <2>1. Erase(q, i) = SubSeq(q, 1, n - 1) /\ Slot(q, i) = n
    BY <1>1, <1>4 DEF Erase, Slot, Front
  <2>2. n \in 1 .. n /\ n - 1 \in Nat /\ n - 1 <= n
    BY <1>2
  <2>3. /\ SubSeq(q, 1, n - 1) \in Seq(T) /\ Len(SubSeq(q, 1, n - 1)) = n - 1
        /\ \A j \in 1 .. n - 1 : SubSeq(q, 1, n - 1)[j] = q[j]
    BY <1>1, <2>2, SubSeqProperties
  <2>4. \A j \in 1 .. n - 1 : j < n
    BY <2>2
  <2> QED BY <1>1, <2>1, <2>2, <2>3, <2>4
<1> QED BY <1>1, <1>3, <1>4

LEMMA EraseElements ==
  ASSUME NEW T, NEW q \in Seq(T), q # <<>>, NEW at \in Nat, Distinct(q)
  PROVE  /\ Erase(q, at) \in Seq(T) /\ Len(Erase(q, at)) <= Len(q)
         /\ Distinct(Erase(q, at))
         /\ \A d : Contains(Erase(q, at), d) <=> Contains(q, d) /\ d # q[Slot(q, at)]
<1> DEFINE k == Slot(q, at)
           c == q[k]
           r == Erase(q, at)
           n == Len(q)
<1>3. n \in Nat
  OBVIOUS
<1>4. /\ r \in Seq(T) /\ Len(r) = n - 1 /\ n \in Nat
      /\ \A j \in 1 .. n - 1 : r[j] = IF j < k THEN q[j] ELSE q[j + 1]
  BY <1>3, ErasedSlot, Zenon
<1>5. /\ k \in 1 .. n /\ \A i, j \in 1 .. n : q[i] = q[j] => i = j
  BY ErasedSlot DEF Distinct
<1>1. c = q[k]
  OBVIOUS
<1> HIDE DEF r, n, c, k
<1>6. \A j \in 1 .. n - 1 : j \in 1 .. n /\ j + 1 \in 1 .. n
  BY <1>4
<1>7. ASSUME NEW i \in 1 .. n - 1, NEW j \in 1 .. n - 1, r[i] = r[j]
      PROVE  i = j
  <2>1. CASE i < k /\ j < k
    BY <1>4, <1>5, <1>6, <1>7, <2>1
  <2>2. CASE ~(i < k) /\ ~(j < k)
    <3>1. q[i + 1] = q[j + 1] /\ i + 1 \in 1 .. n /\ j + 1 \in 1 .. n
      BY <1>4, <1>6, <1>7, <2>2
    <3>2. i + 1 = j + 1
      BY <1>5, <3>1
    <3> QED BY <1>4, <3>2
  <2>3. CASE i < k /\ ~(j < k)
    <3>1. q[i] = q[j + 1] /\ i \in 1 .. n /\ j + 1 \in 1 .. n
      BY <1>4, <1>6, <1>7, <2>3
    <3>2. i = j + 1
      BY <1>5, <3>1
    <3> QED BY <1>4, <1>5, <2>3, <3>2
  <2>4. CASE ~(i < k) /\ j < k
    <3>1. q[i + 1] = q[j] /\ i + 1 \in 1 .. n /\ j \in 1 .. n
      BY <1>4, <1>6, <1>7, <2>4
    <3>2. i + 1 = j
      BY <1>5, <3>1
    <3> QED BY <1>4, <1>5, <2>4, <3>2
  <2> QED BY <2>1, <2>2, <2>3, <2>4
<1>8. \A d : (\E j \in 1 .. n - 1 : r[j] = d) <=> (\E i \in 1 .. n : q[i] = d) /\ d # c
  <2>1. ASSUME NEW j \in 1 .. n - 1 PROVE (\E i \in 1 .. n : q[i] = r[j]) /\ r[j] # c
    BY <1>1, <1>4, <1>5, <1>6
  <2>2. ASSUME NEW i \in 1 .. n, q[i] # c PROVE \E j \in 1 .. n - 1 : r[j] = q[i]
    <3>1. CASE i < k
      BY <1>4, <1>5, <3>1
    <3>2. CASE i > k
      <4>1. i - 1 \in 1 .. n - 1 /\ ~(i - 1 < k) /\ i - 1 + 1 = i
        BY <1>4, <1>5, <3>2
      <4> QED BY <1>4, <4>1
    <3> QED BY <1>1, <1>4, <1>5, <2>2, <3>1, <3>2
  <2> QED BY <2>1, <2>2
<1>9. Len(r) <= n
  BY <1>4
<1> QED BY <1>4, <1>7, <1>8, <1>9 DEF Distinct, Contains, r, n, c, k

-----------------------------------------------------------------------------
(* A connection of a process that has been started.                        *)
Dialled(c) == c[2] <= starts[c[1]]

(* The connections of one switch wait in the order of its starts.          *)
Queued ==
  \A i, j \in 1 .. Len(pending) :
    i < j /\ pending[i][1] = pending[j][1] => pending[i][2] < pending[j][2]

Waiting == \A c \in Conn : Contains(pending, c) => Dialled(c) /\ ~IsClient(c)

Sockets ==
  /\ Distinct(clients) /\ Len(clients) <= NSwitches
  /\ \A c \in Conn : IsClient(c) => Dialled(c)
  /\ \A c \in switchFDMap : IsClient(c)

Connected ==
  ctrlUp => \A s \in Switches : alive[s] => IsClient(Current(s)) \/ Contains(pending, Current(s))

(***************************************************************************)
(* An OPEN that has not been read is on a connection that waits, or on the *)
(* one accepted in the current pass, whose visit is the last one of the    *)
(* pass whatever is erased before it.  So the newer connections of the     *)
(* same switch are waiting still.                                          *)
(***************************************************************************)
Due ==
  \A c \in Conn : ~Greeted(c) =>
    \/ Contains(pending, c)
    \/ IsClient(c) /\ sweep # <<>> /\ sweep[Len(sweep)] = c

NewerWait ==
  \A c, d \in Conn :
    ~Greeted(c) /\ c[1] = d[1] /\ c[2] < d[2] /\ Dialled(d) => Contains(pending, d)

(***************************************************************************)
(* The slot the pass has come to holds the client at its position, as long *)
(* as there is one.  Beyond the end of the vector, where the erases of the *)
(* pass have left copies, a slot holds the last client or one that is      *)
(* gone.  So the erase by position hits the client that is visited.        *)
(***************************************************************************)
InPlace ==
  /\ sweep = <<>> => index = 0
  /\ sweep # <<>> => Len(clients) <= index + Len(sweep)
  /\ \A j \in 1 .. Len(sweep) :
       IF index + j <= Len(clients) THEN sweep[j] = clients[index + j]
       ELSE IsClient(sweep[j]) => sweep[j] = clients[Len(clients)]

DoorInv == Queued /\ Waiting /\ Sockets /\ Connected /\ Due /\ NewerWait /\ InPlace

(* Without a start no OPEN is sent.                                        *)
LEMMA NoNewOPEN ==
  ASSUME TypeOK, SessionInv, [Next]_vars, starts' = starts, NEW c \in Conn, ~Greeted(c)'
  PROVE  ~Greeted(c)
<1>1. ASSUME NEW s \in Switches, starts' = [starts EXCEPT ![s] = @ + 1] PROVE FALSE
  <2>1. starts[s] \in Nat /\ starts'[s] = starts[s] + 1
    BY <1>1 DEF TypeOK, TransportTypeOK
  <2> QED BY <2>1
<1> QED BY <1>1, GreetingStep

LEMMA ShutsStep ==
  ASSUME Shuts
  PROVE  DoorInv'
BY NSwitchesAssumption
   DEF Shuts, DoorInv, Queued, Waiting, Sockets, Connected, Due, NewerWait, InPlace, Distinct,
       Contains, IsClient, Greeted

LEMMA ElsewhereStep ==
  ASSUME TypeOK, SessionInv, [Next]_vars, DoorInv, Elsewhere
  PROVE  DoorInv'
<1>1. ASSUME NEW c \in Conn, ~Greeted(c)' PROVE ~Greeted(c)
  BY <1>1, NoNewOPEN DEF Elsewhere
<1>2. Queued' /\ Waiting' /\ Sockets'
  BY DEF Elsewhere, doorVars, DoorInv, Queued, Waiting, Sockets, Dialled, IsClient
<1>3. Connected'
  BY DEF Elsewhere, doorVars, DoorInv, Connected, IsClient, Current
<1>4. Due' /\ NewerWait'
  BY <1>1 DEF Elsewhere, doorVars, DoorInv, Due, NewerWait, Dialled, IsClient
<1>5. InPlace'
  BY DEF Elsewhere, doorVars, DoorInv, InPlace, IsClient
<1> QED BY <1>2, <1>3, <1>4, <1>5 DEF DoorInv

(* A switch connects.                                                      *)
LEMMA KnocksStep ==
  ASSUME TypeOK, SessionInv, [Next]_vars, DoorInv, NEW s \in Switches, Knocks(s)
  PROVE  DoorInv'
<1> DEFINE n == <<s, starts[s] + 1>>
<1>1. /\ n \in Conn /\ n[1] = s /\ n[2] = starts[s] + 1 /\ pending \in Seq(Conn)
      /\ starts \in [Switches -> Nat]
      /\ \A c \in Conn : c[1] \in Switches /\ c[2] \in Nat /\ c = <<c[1], c[2]>>
  BY MaxStartsAssumption DEF Knocks, TypeOK, TransportTypeOK, Conn
<1>2. /\ starts'[s] = starts[s] + 1 /\ \A t \in Switches : t # s => starts'[t] = starts[t]
      /\ alive'[s] /\ \A t \in Switches : t # s => alive'[t] = alive[t]
  BY <1>1 DEF Knocks, TypeOK, TransportTypeOK
<1>3. pending' = Append(pending, n) /\ UNCHANGED <<ctrlUp, clients, sweep, index, switchFDMap>>
  BY DEF Knocks
<1>4. starts' = [starts EXCEPT ![s] = @ + 1]
  BY DEF Knocks
<1> HIDE DEF n
<1>5. ASSUME NEW c \in Conn PROVE Dialled(c)' <=> Dialled(c) \/ c = n
  BY <1>1, <1>2 DEF Dialled, n
<1>6. ~Dialled(n)
  BY <1>1 DEF Dialled
<1>7. \A c \in Conn : Contains(pending, c)' <=> Contains(pending, c) \/ c = n
  BY <1>1, <1>3, AppendElements
<1>8. ASSUME NEW c \in Conn, ~Greeted(c)' PROVE ~Greeted(c) \/ c = n
  <2>1. ASSUME NEW t \in Switches, starts' = [starts EXCEPT ![t] = @ + 1] PROVE t = s
    BY <1>1, <1>2, <2>1
  <2> QED BY <1>8, <2>1, GreetingStep DEF n
<1>9. Queued'
  <2>1. ASSUME NEW i \in 1 .. Len(pending) + 1, NEW j \in 1 .. Len(pending) + 1, i < j,
               Append(pending, n)[i][1] = Append(pending, n)[j][1]
        PROVE  Append(pending, n)[i][2] < Append(pending, n)[j][2]
    <3>1. i \in 1 .. Len(pending) /\ Append(pending, n)[i] = pending[i]
      BY <1>1, <2>1
    <3>2. CASE j \in 1 .. Len(pending)
      <4>1. Append(pending, n)[j] = pending[j]
        BY <1>1, <3>2
      <4> QED BY <2>1, <3>1, <3>2, <4>1 DEF DoorInv, Queued
    <3>3. CASE j = Len(pending) + 1
      <4>1. Append(pending, n)[j] = n /\ pending[i] \in Conn
        BY <1>1, <3>1, <3>3
      <4>2. Dialled(pending[i])
        BY <3>1, <4>1 DEF DoorInv, Waiting, Contains
      <4>3. pending[i][2] <= starts[s] /\ pending[i][2] \in Nat /\ starts[s] \in Nat
        BY <1>1, <2>1, <3>1, <4>1, <4>2 DEF Dialled
      <4> QED BY <1>1, <3>1, <4>1, <4>3
    <3> QED BY <1>1, <3>2, <3>3
  <2>2. Len(Append(pending, n)) = Len(pending) + 1
    BY <1>1
  <2> QED BY <1>3, <2>1, <2>2 DEF Queued
<1>10. Waiting'
  BY <1>1, <1>3, <1>5, <1>6, <1>7 DEF DoorInv, Waiting, Sockets, IsClient
<1>11. Sockets'
  BY <1>3, <1>5 DEF DoorInv, Sockets, IsClient
<1>12. Connected'
  <2>1. SUFFICES ASSUME ctrlUp, NEW t \in Switches, alive'[t]
                 PROVE  IsClient(Current(t))' \/ Contains(pending, Current(t))'
    BY <1>3 DEF Connected
  <2>2. CASE t = s
    <3>1. Current(t)' = n
      BY <1>2, <2>2 DEF Current, n
    <3> QED BY <1>1, <1>7, <3>1
  <2>3. CASE t # s
    <3>1. alive[t] /\ Current(t)' = Current(t) /\ Current(t) \in Conn
      BY <1>2, <2>1, <2>3, CurrentConn DEF Current, TypeOK
    <3> QED BY <1>3, <1>7, <2>1, <3>1 DEF DoorInv, Connected, IsClient
  <2> QED BY <2>2, <2>3
<1>13. Due'
  BY <1>3, <1>7, <1>8 DEF DoorInv, Due, IsClient
<1>14. NewerWait'
  <2>1. SUFFICES ASSUME NEW c \in Conn, NEW d \in Conn, ~Greeted(c)', c[1] = d[1],
                        c[2] < d[2], Dialled(d)'
                 PROVE  Contains(pending, d)'
    BY DEF NewerWait
  <2>2. CASE c = n
    <3>1. d[2] > starts[s] + 1 /\ d[2] <= starts[s] + 1
      BY <1>1, <1>2, <2>1, <2>2 DEF Dialled
    <3> QED BY <1>1, <3>1
  <2>3. CASE c # n
    BY <1>5, <1>7, <1>8, <2>1, <2>3 DEF DoorInv, NewerWait
  <2> QED BY <2>2, <2>3
<1>15. InPlace'
  BY <1>3 DEF DoorInv, InPlace, IsClient
<1> QED BY <1>9, <1>10, <1>11, <1>12, <1>13, <1>14, <1>15 DEF DoorInv

(* At the start of a pass every slot holds its client.                     *)
LEMMA PassBegins ==
  ASSUME NEW q \in Seq(Conn)
  PROVE  /\ Len(q) <= 0 + Len(q)
         /\ \A j \in 1 .. Len(q) : 0 + j <= Len(q) /\ q[j] = q[0 + j]
OBVIOUS

(* A connection is accepted; its socket is the last one of the new pass.   *)
LEMMA EntersStep ==
  ASSUME TypeOK, SessionInv, [Next]_vars, DoorInv, Enters
  PROVE  DoorInv'
<1> DEFINE h == Head(pending)
<1>1. /\ pending \in Seq(Conn) /\ clients \in Seq(Conn) /\ pending # <<>>
      /\ pending' = Tail(pending) /\ clients' = Append(clients, h) /\ sweep' = clients'
      /\ sweep = <<>> /\ HasRoom /\ UNCHANGED <<ctrlUp, alive, starts, index, switchFDMap, up>>
  BY DEF Enters, TypeOK, TransportTypeOK, ControllerTypeOK
<1>2. /\ Len(Tail(pending)) = Len(pending) - 1 /\ Len(pending) \in Nat \ {0}
      /\ h = pending[1] /\ h \in Conn
      /\ \A i \in 1 .. Len(pending) - 1 :
           Tail(pending)[i] = pending[i + 1] /\ i + 1 \in 2 .. Len(pending)
      /\ \A i \in 2 .. Len(pending) :
           i - 1 \in 1 .. Len(pending) - 1 /\ Tail(pending)[i - 1] = pending[i]
  BY <1>1, TailElements
<1> HIDE DEF h
<1>3. Contains(pending, h) /\ ~IsClient(h) /\ Dialled(h)
  BY <1>2 DEF DoorInv, Waiting, Contains
<1>4. /\ \A d : Contains(clients', d) <=> Contains(clients, d) \/ d = h
      /\ clients' \in Seq(Conn) /\ clients' # <<>> /\ clients'[Len(clients')] = h
      /\ Len(clients') = Len(clients) + 1 /\ Distinct(clients')
  BY <1>1, <1>2, <1>3, AppendElements DEF DoorInv, Sockets, IsClient
<1>5. ASSUME NEW i \in 2 .. Len(pending) PROVE pending[i] # h
  <2>1. i \in 1 .. Len(pending) /\ 1 \in 1 .. Len(pending) /\ 1 < i /\ pending[i] \in Conn
    BY <1>1, <1>2
  <2>2. pending[1] = pending[i] => pending[1][2] < pending[i][2]
    BY <2>1 DEF DoorInv, Queued
  <2>3. pending[i][2] \in Nat
    BY <2>1 DEF Conn
  <2> QED BY <1>2, <2>2, <2>3
<1>6. \A d : Contains(pending', d) <=> \E i \in 2 .. Len(pending) : pending[i] = d
  BY <1>1, <1>2 DEF Contains
<1>7. \A d : Contains(pending, d) <=> d = h \/ Contains(pending', d)
  <2>1. \A i \in 1 .. Len(pending) : i = 1 \/ i \in 2 .. Len(pending)
    BY <1>2
  <2>2. \A i \in 2 .. Len(pending) : i \in 1 .. Len(pending)
    BY <1>2
  <2> QED BY <1>2, <1>3, <1>6, <2>1, <2>2 DEF Contains
<1>8. ~Contains(pending', h)
  BY <1>5, <1>6
<1>9. \A c \in Conn : ~Greeted(c)' => ~Greeted(c) /\ Contains(pending, c)
  BY <1>1 DEF Greeted, DoorInv, Due
<1>10. Queued'
  <2>1. ASSUME NEW i \in 1 .. Len(pending) - 1, NEW j \in 1 .. Len(pending) - 1, i < j,
               Tail(pending)[i][1] = Tail(pending)[j][1]
        PROVE  Tail(pending)[i][2] < Tail(pending)[j][2]
    <3>1. i + 1 \in 1 .. Len(pending) /\ j + 1 \in 1 .. Len(pending) /\ i + 1 < j + 1
      BY <1>2, <2>1
    <3> QED BY <1>2, <2>1, <3>1 DEF DoorInv, Queued
  <2> QED BY <1>1, <1>2, <2>1 DEF Queued
<1>11. Waiting'
  BY <1>1, <1>4, <1>7, <1>8 DEF DoorInv, Waiting, IsClient, Dialled
<1>12. Sockets'
  <2>1. Len(clients') <= NSwitches
    BY <1>1, <1>4 DEF HasRoom
  <2> QED BY <1>1, <1>3, <1>4, <2>1 DEF DoorInv, Sockets, IsClient, Dialled
<1>13. Connected'
  BY <1>1, <1>4, <1>7 DEF DoorInv, Connected, IsClient, Current
<1>14. Due'
  BY <1>1, <1>4, <1>7, <1>9 DEF Due, IsClient
<1>15. NewerWait'
  <2>1. SUFFICES ASSUME NEW c \in Conn, NEW d \in Conn, ~Greeted(c)', c[1] = d[1],
                        c[2] < d[2], Dialled(d)'
                 PROVE  Contains(pending, d)'
    BY DEF NewerWait
  <2>2. Contains(pending, d) /\ Contains(pending, c)
    BY <1>1, <1>9, <2>1 DEF DoorInv, NewerWait, Dialled
  <2>3. PICK i \in 1 .. Len(pending), j \in 1 .. Len(pending) : pending[i] = c /\ pending[j] = d
    BY <2>2 DEF Contains
  <2>4. c[2] \in Nat /\ d[2] \in Nat
    BY DEF Conn
  <2>5. j # 1
    <3>1. CASE i = 1
      BY <2>1, <2>3, <2>4, <3>1
    <3>2. CASE i # 1
      <4>1. j = 1 => j < i
        BY <1>2, <2>3, <3>2
      <4>2. j = 1 => d[2] < c[2]
        BY <2>1, <2>3, <4>1 DEF DoorInv, Queued
      <4> QED BY <2>1, <2>4, <4>2
    <3> QED BY <3>1, <3>2
  <2>6. j \in 2 .. Len(pending)
    BY <1>2, <2>3, <2>5
  <2> QED BY <1>6, <2>3, <2>6
<1>16. InPlace'
  <2>1. index' = 0
    BY <1>1 DEF DoorInv, InPlace
  <2> QED BY <1>1, <1>4, <2>1, PassBegins DEF InPlace
<1> QED BY <1>10, <1>11, <1>12, <1>13, <1>14, <1>15, <1>16 DEF DoorInv

(* A pass begins without a new connection.                                 *)
LEMMA BeginsStep ==
  ASSUME TypeOK, DoorInv, Begins
  PROVE  DoorInv'
<1>1. Queued' /\ Waiting' /\ Sockets' /\ Connected' /\ NewerWait'
  BY DEF Begins, DoorInv, Queued, Waiting, Sockets, Connected, NewerWait, Dialled, IsClient,
         Current, Greeted
<1>2. Due'
  BY DEF Begins, DoorInv, Due, Greeted
<1>3. InPlace'
  <2>1. /\ index' = 0 /\ index = 0 /\ sweep' = clients /\ clients' = clients
        /\ clients \in Seq(Conn)
    BY DEF Begins, DoorInv, InPlace, TypeOK, ControllerTypeOK
  <2> QED BY <2>1, PassBegins DEF InPlace
<1> QED BY <1>1, <1>2, <1>3 DEF DoorInv

(* The last element of a vector stays the last one when the first goes.    *)
LEMMA LastOfTail ==
  ASSUME NEW T, NEW q \in Seq(T), Len(q) # 1, q # <<>>
  PROVE  Tail(q) # <<>> /\ Tail(q)[Len(Tail(q))] = q[Len(q)] /\ q[Len(q)] \in T
<1>1. /\ Tail(q) \in Seq(T) /\ Len(Tail(q)) = Len(q) - 1 /\ Len(q) \in Nat \ {0}
      /\ \A i \in 2 .. Len(q) : i - 1 \in 1 .. Len(q) - 1 /\ Tail(q)[i - 1] = q[i]
  BY TailElements
<1>2. Len(q) \in 2 .. Len(q) /\ Len(q) \in 1 .. Len(q) /\ Len(q) - 1 # 0
  BY <1>1
<1>3. Tail(q) # <<>>
  <2>1. Len(<<>>) = 0
    OBVIOUS
  <2> QED BY <1>1, <1>2, <2>1
<1>4. Tail(q)[Len(Tail(q))] = q[Len(q)]
  BY <1>1, <1>2
<1>5. q[Len(q)] \in T
  BY <1>2
<1> QED BY <1>3, <1>4, <1>5

(* A slot is visited that holds no OPEN, or the one there is read.         *)
LEMMA LooksStep ==
  ASSUME TypeOK, SessionInv, [Next]_vars, DoorInv, NEW c \in Conn, Looks(c)
  PROVE  DoorInv'
<1>1. /\ sweep \in Seq(Conn) /\ sweep # <<>> /\ Head(sweep) = c /\ sweep' = Tail(sweep)
      /\ index' = (IF Tail(sweep) = <<>> THEN 0 ELSE index + 1) /\ index \in Nat
      /\ clients \in Seq(Conn)
      /\ ~IsClient(c) \/ Greeted(c)'
      /\ UNCHANGED <<ctrlUp, alive, starts, pending, clients>>
  BY DEF Looks, GoOn, TypeOK, ControllerTypeOK
<1>2. \A d \in Conn : ~Greeted(d)' => ~Greeted(d)
  BY <1>1, NoNewOPEN
<1>3. Queued' /\ Waiting' /\ Connected'
  BY <1>1 DEF DoorInv, Queued, Waiting, Connected, Dialled, IsClient, Current
<1>4. Sockets'
  <2>1. \A d \in switchFDMap' : IsClient(d)
    BY DEF Looks, DoorInv, Sockets
  <2> QED BY <1>1, <2>1 DEF DoorInv, Sockets, Dialled, IsClient
<1>5. NewerWait'
  BY <1>1, <1>2 DEF DoorInv, NewerWait, Dialled
<1>6. Due'
  <2>1. SUFFICES ASSUME NEW d \in Conn, ~Greeted(d)', ~Contains(pending, d)
                 PROVE  IsClient(d) /\ Tail(sweep) # <<>> /\ Tail(sweep)[Len(Tail(sweep))] = d
    BY <1>1 DEF Due, IsClient
  <2>2. IsClient(d) /\ sweep[Len(sweep)] = d
    BY <1>2, <2>1 DEF DoorInv, Due
  <2>3. c # d
    BY <1>1, <2>1, <2>2
  <2>4. Len(sweep) # 1
    BY <1>1, <2>2, <2>3
  <2>5. Tail(sweep) # <<>> /\ Tail(sweep)[Len(Tail(sweep))] = sweep[Len(sweep)]
    BY <1>1, <2>4, LastOfTail
  <2> QED BY <2>2, <2>5
<1>7. InPlace'
  <2>1. CASE Tail(sweep) = <<>>
    <3>1. sweep' = <<>> /\ index' = 0
      BY <1>1, <2>1
    <3>2. Len(<<>>) = 0 /\ \A j \in 1 .. 0 : FALSE
      OBVIOUS
    <3> QED BY <3>1, <3>2 DEF InPlace
  <2>2. CASE Tail(sweep) # <<>>
    <3>1. PICK n \in Nat, k \in Nat : n = Len(sweep) /\ k = Len(clients)
      BY <1>1
    <3>2. /\ Len(Tail(sweep)) = n - 1 /\ n # 0
          /\ \A j \in 1 .. n - 1 : Tail(sweep)[j] = sweep[j + 1]
      BY <1>1, <3>1, TailElements
    <3>3. /\ k <= index + n
          /\ \A j \in 1 .. n : IF index + j <= k THEN sweep[j] = clients[index + j]
                               ELSE IsClient(sweep[j]) => sweep[j] = clients[k]
      BY <1>1, <3>1 DEF DoorInv, InPlace
    <3>4. k <= (index + 1) + (n - 1)
      BY <1>1, <3>2, <3>3
    <3>5. ASSUME NEW j \in 1 .. n - 1
          PROVE  IF (index + 1) + j <= k THEN Tail(sweep)[j] = clients[(index + 1) + j]
                 ELSE IsClient(Tail(sweep)[j]) => Tail(sweep)[j] = clients[k]
      <4>1. j + 1 \in 1 .. n /\ index + (j + 1) = (index + 1) + j
        BY <1>1
      <4> QED BY <3>2, <3>3, <4>1
    <3> QED BY <1>1, <2>2, <3>1, <3>2, <3>4, <3>5 DEF InPlace, IsClient
  <2> QED BY <2>1, <2>2
<1> QED BY <1>3, <1>4, <1>5, <1>6, <1>7 DEF DoorInv

(* A socket is closed.  However the erase shifts the slots, the last slot  *)
(* of the pass stays the last one.                                         *)
LEMMA ShiftedElements ==
  ASSUME NEW T, NEW q \in Seq(T), Len(q) # 1, q # <<>>
  PROVE  /\ Shifted(q) # <<>> /\ Len(Shifted(q)) = Len(q) - 1
         /\ \A j \in 1 .. Len(q) - 2 : Shifted(q)[j] = q[j + 2]
         /\ Shifted(q)[Len(q) - 1] = q[Len(q)]
<1>1. /\ Tail(q) \in Seq(T) /\ Tail(q) # <<>> /\ q[Len(q)] \in T
      /\ Len(Tail(q)) = Len(q) - 1
      /\ \A i \in 1 .. Len(q) - 1 : Tail(q)[i] = q[i + 1]
  BY TailElements, LastOfTail
<1>2. /\ Tail(Tail(q)) \in Seq(T) /\ Len(Tail(Tail(q))) = Len(Tail(q)) - 1
      /\ \A i \in 1 .. Len(Tail(q)) - 1 : Tail(Tail(q))[i] = Tail(q)[i + 1]
  BY <1>1, TailElements
<1>3. PICK n \in Nat : n = Len(q) /\ n - 1 = Len(Tail(q)) /\ n - 2 = Len(Tail(Tail(q)))
  <2>1. PICK n \in Nat : n = Len(q)
    OBVIOUS
  <2>2. Len(Tail(q)) = n - 1
    BY <1>1, <2>1
  <2>3. Len(Tail(Tail(q))) = (n - 1) - 1
    BY <1>2, <2>2
  <2> QED BY <2>1, <2>2, <2>3
<1> DEFINE s == Tail(Tail(q))
           z == q[Len(q)]
<1>4. Shifted(q) = Append(s, z)
  BY DEF Shifted
<1>5. s \in Seq(T) /\ z \in T /\ z = q[n] /\ Len(s) = n - 2
  BY <1>1, <1>2, <1>3
<1>6. ASSUME NEW i \in 1 .. n - 2 PROVE s[i] = q[i + 2]
  <2>1. i \in 1 .. (n - 1) - 1 /\ i + 1 \in 1 .. n - 1 /\ (i + 1) + 1 = i + 2
    BY <1>3
  <2>2. Tail(Tail(q))[i] = Tail(q)[i + 1] /\ Tail(q)[i + 1] = q[(i + 1) + 1]
    BY <1>1, <1>2, <1>3, <2>1
  <2> QED BY <2>1, <2>2
<1> HIDE DEF s, z
<1>7. /\ Append(s, z) # <<>> /\ Len(Append(s, z)) = (n - 2) + 1 /\ Append(s, z)[(n - 2) + 1] = z
      /\ \A i \in 1 .. n - 2 : Append(s, z)[i] = s[i]
  <2>1. /\ Append(s, z) # <<>> /\ Len(Append(s, z)) = Len(s) + 1
        /\ Append(s, z)[Len(s) + 1] = z
        /\ \A i \in 1 .. Len(s) : Append(s, z)[i] = s[i]
    BY <1>5, AppendElements
  <2>2. Len(s) = n - 2
    BY <1>5
  <2> HIDE DEF z
  <2> QED BY <2>1, <2>2, Zenon
<1>8. (n - 2) + 1 = n - 1
  BY <1>3
<1> QED BY <1>3, <1>4, <1>5, <1>6, <1>7, <1>8

LEMMA LastShifted ==
  ASSUME NEW T, NEW q \in Seq(T), Len(q) # 1, q # <<>>
  PROVE  Shifted(q) # <<>> /\ Shifted(q)[Len(Shifted(q))] = q[Len(q)]
BY ShiftedElements

(* What the erase by position does to a vector being walked: it removes    *)
(* the client that is visited.                                             *)
LEMMA ErasesVisited ==
  ASSUME TypeOK, DoorInv, NEW c \in Conn, Departs(c)
  PROVE  clients # <<>> /\ clients[Slot(clients, index)] = c
<1>1. /\ clients \in Seq(Conn) /\ sweep \in Seq(Conn) /\ sweep # <<>> /\ Head(sweep) = c
      /\ IsClient(c) /\ index \in Nat
  BY DEF Departs, TypeOK, ControllerTypeOK
<1>2. PICK n \in Nat, k \in Nat : n = Len(sweep) /\ k = Len(clients) /\ n # 0 /\ c = sweep[1]
  BY <1>1, TailElements
<1>3. clients # <<>>
  <2>1. PICK i \in 1 .. Len(clients) : clients[i] = c
    BY <1>1 DEF IsClient, Contains
  <2>2. Len(<<>>) = 0
    OBVIOUS
  <2> QED BY <2>1, <2>2
<1>4. IF index + 1 <= k THEN c = clients[index + 1] ELSE IsClient(c) => c = clients[k]
  <2>1. 1 \in 1 .. Len(sweep)
    BY <1>2
  <2> QED BY <1>2, <2>1 DEF DoorInv, InPlace
<1>5. index + 1 <= k <=> index < k
  BY <1>1, <1>2
<1> QED BY <1>1, <1>2, <1>3, <1>4, <1>5 DEF Slot

LEMMA DepartsInPlace ==
  ASSUME TypeOK, DoorInv, NEW c \in Conn, Departs(c), \A d : IsClient(d)' <=> IsClient(d) /\ d # c
  PROVE  InPlace'
<1>1. /\ clients \in Seq(Conn) /\ sweep \in Seq(Conn) /\ sweep # <<>> /\ Head(sweep) = c
      /\ index \in Nat /\ clients' = Erase(clients, index) /\ sweep' = Shifted(sweep)
      /\ index' = IF Shifted(sweep) = <<>> THEN 0 ELSE index + 1
  BY DEF Departs, GoOn, TypeOK, ControllerTypeOK
<1>2. PICK n \in Nat, k \in Nat : n = Len(sweep) /\ k = Len(clients)
  BY <1>1
<1>3. clients # <<>> /\ clients[Slot(clients, index)] = c
  BY ErasesVisited
<1>4. /\ n # 0 /\ k # 0
      /\ k <= index + n
      /\ \A j \in 1 .. n : IF index + j <= k THEN sweep[j] = clients[index + j]
                           ELSE IsClient(sweep[j]) => sweep[j] = clients[k]
  BY <1>1, <1>2, <1>3, EmptySeq DEF DoorInv, InPlace
<1>5. CASE n = 1
  BY <1>1, <1>2, <1>5 DEF Shifted, InPlace
<1>6. CASE n # 1
  <2>1. /\ Shifted(sweep) # <<>> /\ Len(Shifted(sweep)) = n - 1
        /\ \A j \in 1 .. n - 2 : Shifted(sweep)[j] = sweep[j + 2]
        /\ Shifted(sweep)[n - 1] = sweep[n]
    BY <1>1, <1>2, <1>6, ShiftedElements
  <2>2. /\ Len(clients') = k - 1
        /\ \A j \in 1 .. k - 1 :
             clients'[j] = IF j < Slot(clients, index) THEN clients[j] ELSE clients[j + 1]
    BY <1>1, <1>2, <1>3, ErasedSlot
  <2>3. k - 1 <= (index + 1) + (n - 1)
    BY <1>1, <1>4
  <2>4. ASSUME NEW j \in 1 .. n - 1
        PROVE  IF (index + 1) + j <= k - 1 THEN Shifted(sweep)[j] = clients'[(index + 1) + j]
               ELSE Contains(clients', Shifted(sweep)[j]) => Shifted(sweep)[j] = clients'[k - 1]
    <3>1. CASE (index + 1) + j <= k - 1
      <4>1. j \in 1 .. n - 2 /\ j + 2 \in 1 .. n /\ index + (j + 2) <= k
        BY <1>1, <1>4, <3>1
      <4>2. Shifted(sweep)[j] = clients[index + (j + 2)]
        BY <1>4, <2>1, <4>1
      <4>3. Slot(clients, index) = index + 1 /\ (index + 1) + j \in 1 .. k - 1
        BY <1>1, <1>2, <3>1 DEF Slot
      <4>4. ~((index + 1) + j < index + 1) /\ ((index + 1) + j) + 1 = index + (j + 2)
        BY <1>1
      <4> QED BY <2>2, <3>1, <4>2, <4>3, <4>4
    <3>2. ASSUME ~((index + 1) + j <= k - 1), Contains(clients', Shifted(sweep)[j])
          PROVE  Shifted(sweep)[j] = clients'[k - 1]
      <4> DEFINE x == Shifted(sweep)[j]
      <4>1. IsClient(x) /\ x # c
        BY <3>2 DEF IsClient
      <4> HIDE DEF x
      <4>2. PICK i \in 2 .. n : x = sweep[i] /\ index + i >= k
        <5>1. CASE j \in 1 .. n - 2
          <6>1. x = sweep[j + 2]
            BY <2>1, <5>1 DEF x
          <6>2. j + 2 \in 2 .. n /\ index + (j + 2) >= k
            BY <1>1, <1>2, <3>2, <5>1
          <6> QED BY <6>1, <6>2
        <5>2. CASE j = n - 1
          <6>1. x = sweep[n] /\ n \in 2 .. n
            BY <1>4, <1>6, <2>1, <5>2 DEF x
          <6> QED BY <1>1, <1>4, <6>1
        <5> QED BY <5>1, <5>2
      <4>3. x = clients[k]
        <5>1. i \in 1 .. n
          OBVIOUS
        <5>2. index + i <= k => index + i = k
          BY <1>1, <4>2
        <5> QED BY <1>4, <4>1, <4>2, <5>1, <5>2
      <4>4. Slot(clients, index) # k /\ Slot(clients, index) \in 1 .. k
        BY <1>1, <1>2, <1>3, <4>1, <4>3, ErasedSlot
      <4>5. k - 1 \in 1 .. k - 1 /\ ~(k - 1 < Slot(clients, index)) /\ (k - 1) + 1 = k
        BY <4>4
      <4> QED BY <2>2, <4>3, <4>5 DEF x
    <3> QED BY <3>1, <3>2
  <2> QED BY <1>1, <2>1, <2>2, <2>3, <2>4 DEF InPlace, IsClient
<1> QED BY <1>5, <1>6

LEMMA DepartsStep ==
  ASSUME TypeOK, SessionInv, [Next]_vars, DoorInv, NEW c \in Conn, Departs(c)
  PROVE  DoorInv'
<1>1. /\ sweep \in Seq(Conn) /\ sweep # <<>> /\ Head(sweep) = c /\ sweep' = Shifted(sweep)
      /\ Greeted(c)' /\ ~PeerLive(c) /\ clients' = Erase(clients, index) /\ index \in Nat
      /\ clients \in Seq(Conn) /\ switchFDMap' = switchFDMap \ {c}
      /\ UNCHANGED <<ctrlUp, alive, starts, pending>>
  BY DEF Departs, GoOn, TypeOK, ControllerTypeOK
<1>2. \A d \in Conn : ~Greeted(d)' => ~Greeted(d)
  BY <1>1, NoNewOPEN
<1>3. /\ Len(clients') <= Len(clients) /\ Distinct(clients') /\ clients' \in Seq(Conn)
      /\ \A d : IsClient(d)' <=> IsClient(d) /\ d # c
  <2>1. Distinct(clients) /\ clients # <<>> /\ clients[Slot(clients, index)] = c
    BY ErasesVisited DEF DoorInv, Sockets
  <2> QED BY <1>1, <2>1, EraseElements DEF IsClient
<1>4. Queued' /\ Waiting'
  BY <1>1, <1>3 DEF DoorInv, Queued, Waiting, Dialled
<1>5. Sockets'
  <2>1. Len(clients') <= NSwitches
    <3>1. Len(clients) \in Nat /\ Len(clients') \in Nat /\ Len(clients) <= NSwitches
      BY <1>1, <1>3 DEF DoorInv, Sockets
    <3> QED BY <1>3, <3>1, NSwitchesAssumption
  <2> QED BY <1>1, <1>3, <2>1 DEF DoorInv, Sockets, Dialled
<1>6. Connected'
  <2>1. ASSUME NEW s \in Switches, alive[s] PROVE Current(s) # c
    BY <1>1, <2>1 DEF PeerLive, Current
  <2> QED BY <1>1, <1>3, <2>1 DEF DoorInv, Connected, Current
<1>7. NewerWait'
  BY <1>1, <1>2 DEF DoorInv, NewerWait, Dialled
<1>8. Due'
  <2>1. SUFFICES ASSUME NEW d \in Conn, ~Greeted(d)', ~Contains(pending, d)
                 PROVE  /\ IsClient(d)' /\ Shifted(sweep) # <<>>
                        /\ Shifted(sweep)[Len(Shifted(sweep))] = d
    BY <1>1 DEF Due
  <2>2. IsClient(d) /\ sweep[Len(sweep)] = d /\ d # c
    BY <1>1, <1>2, <2>1 DEF DoorInv, Due
  <2>3. Len(sweep) # 1
    BY <1>1, <2>2
  <2> QED BY <1>1, <1>3, <2>2, <2>3, LastShifted
<1>9. InPlace'
  BY <1>3, DepartsInPlace
<1> QED BY <1>4, <1>5, <1>6, <1>7, <1>8, <1>9 DEF DoorInv

LEMMA DoorInvStep ==
  ASSUME TypeOK, SessionInv, [Next]_vars, DoorInv
  PROVE  DoorInv'
BY NextDoor, ShutsStep, ElsewhereStep, KnocksStep, EntersStep, BeginsStep, LooksStep,
   DepartsStep DEF DoorStep

LEMMA DoorInit == Init => DoorInv
<1>1. SUFFICES ASSUME Init PROVE DoorInv
  OBVIOUS
<1>2. /\ pending = <<>> /\ clients = <<>> /\ switchFDMap = {} /\ sweep = <<>> /\ index = 0
      /\ \A s \in Switches : ~alive[s]
      /\ up = [c \in Conn |-> <<>>]
  BY <1>1 DEF Init, TransportInit, ControllerInit
<1>3. \A d : ~Contains(pending, d) /\ ~IsClient(d)
  BY <1>2 DEF Contains, IsClient
<1>4. \A c \in Conn : Greeted(c)
  BY <1>2 DEF Greeted
<1>5. Distinct(clients) /\ Len(clients) <= NSwitches /\ Queued
  BY <1>2, NSwitchesAssumption DEF Distinct, Queued
<1> QED BY <1>2, <1>3, <1>4, <1>5
        DEF DoorInv, Waiting, Sockets, Connected, Due, NewerWait, InPlace

LEMMA DoorInvariant == Spec => [](TypeOK /\ SessionInv /\ DoorInv)
<1>1. TypeOK /\ SessionInv /\ DoorInv /\ [Next]_vars => DoorInv'
  BY DoorInvStep
<1> QED BY <1>1, DoorInit, SessionInvariant, PTL DEF Spec

(***************************************************************************)
(* For every network: the erase by position inside the range-for removes   *)
(* the client that is visited, even when the position is beyond the end,   *)
(* given that such an erase drops the last one.  So the sockets are        *)
(* distinct and within the limit, the registered ones are open, and each   *)
(* live switch has its connection either accepted or waiting               *)
(* (Controller::start).                                                    *)
(***************************************************************************)
THEOREM SocketsKept == Spec => []ClientsConsistent
<1>1. TypeOK /\ DoorInv => ClientsConsistent
  <2>1. SUFFICES ASSUME TypeOK, DoorInv PROVE ClientsConsistent
    OBVIOUS
  <2>2. ASSUME ctrlUp, NEW s \in Switches, alive[s]
        PROVE  IsClient(Current(s)) # Contains(pending, Current(s))
    <3>1. Current(s) \in Conn
      BY <2>1, <2>2, CurrentConn DEF TypeOK
    <3> QED BY <2>1, <2>2, <3>1 DEF DoorInv, Connected, Waiting, IsClient, Contains
  <2> QED BY <2>1, <2>2 DEF DoorInv, Sockets, Distinct, ClientsConsistent
<1> QED BY <1>1, DoorInvariant, PTL

-----------------------------------------------------------------------------
(* A live switch keeps its first rule, up to the counter.                  *)
SameTarget(a, b) ==
  /\ a.dstLow = b.dstLow /\ a.dstHigh = b.dstHigh
  /\ a.actionType = b.actionType /\ a.actionVal = b.actionVal

LEMMA FirstRuleKept ==
  ASSUME TypeOK, NEW s \in Switches, OneOf(s), alive[s], alive'[s], table[s] # <<>>
  PROVE  table'[s] # <<>> /\ SameTarget(table'[s][1], table[s][1])
<1>1. table[s] \in Seq(Rule) /\ Len(table[s]) \in Nat \ {0} /\ 1 \in 1 .. Len(table[s])
  BY DEF TypeOK, SwitchTypeOK
<1>2. table[s][1] \in Rule
  BY <1>1
<1>3. ASSUME NEW i \in 1 .. Len(table[s]), table'[s] = Counted(table[s], i)
      PROVE  table'[s] # <<>> /\ SameTarget(table'[s][1], table[s][1])
  <2> DEFINE q == Counted(table[s], i)
  <2>1. Len(q) = Len(table[s]) /\ q[1] = [table[s][1] EXCEPT !.pktCount = q[1].pktCount]
    BY <1>1, CountedRule
  <2> HIDE DEF q
  <2>2. q # <<>>
    <3>1. Len(<<>>) = 0
      OBVIOUS
    <3> QED BY <1>1, <2>1, <3>1
  <2>3. SameTarget(q[1], table[s][1])
    BY <1>2, <2>1 DEF SameTarget, Rule
  <2> QED BY <1>3, <2>2, <2>3 DEF q
<1>4. CASE table'[s] = table[s]
  BY <1>4 DEF SameTarget
<1>5. CASE Added(s)
  <2>1. PICK r \in Rule : table'[s] = AddRule(table[s], r)
    BY <1>5 DEF Added
  <2>2. CASE table'[s] = Append(table[s], r)
    <3>1. Append(table[s], r)[1] = table[s][1] /\ Append(table[s], r) # <<>>
      BY <1>1, AppendElements
    <3> QED BY <2>2, <3>1 DEF SameTarget
  <2> QED BY <1>4, <2>1, <2>2 DEF AddRule
<1> QED BY <1>3, <1>4, <1>5 DEF OneOf, Gone, Begun, Same, Hit, Asked, Solved, Kept

(* A switch that stays alive stays on its connection.  One that starts has *)
(* a new connection with an OPEN on it, which tells its range.             *)
LEMMA ConnectionKept ==
  ASSUME TypeOK, [Next]_vars, NEW s \in Switches, alive'[s]
  PROVE  \/ alive[s] /\ starts'[s] = starts[s]
         \/ /\ ~alive[s] /\ starts'[s] = starts[s] + 1
            /\ UNCHANGED <<ctrlUp, registry, switchFDMap>>
            /\ \E range \in IPRange :
                 /\ up'[Current(s)'] = <<OpenMsg(s, range)>>
                 /\ table'[s] = <<InitRule(range)>>
<1>1. Effect
  BY NextEffect
<1>2. ASSUME NEW t \in Switches, Opens(t)
      PROVE  \/ alive[s] /\ starts'[s] = starts[s]
             \/ /\ t = s /\ ~alive[s] /\ starts'[s] = starts[s] + 1
                /\ UNCHANGED <<ctrlUp, registry, switchFDMap>>
  BY <1>2 DEF Opens, TypeOK, TransportTypeOK
<1>3. ASSUME Opens(s)
      PROVE  \E range \in IPRange : /\ up'[Current(s)'] = <<OpenMsg(s, range)>>
                                    /\ table'[s] = <<InitRule(range)>>
  <2>1. /\ starts'[s] = starts[s] + 1 /\ <<s, starts[s] + 1>> \in Conn
        /\ up \in [Conn -> Seq(ToController)] /\ table \in [Switches -> Seq(Rule)]
    BY <1>3, MaxStartsAssumption DEF Opens, TypeOK, TransportTypeOK, SwitchTypeOK, Conn
  <2>2. Current(s)' = <<s, starts[s] + 1>>
    BY <2>1 DEF Current
  <2> QED BY <1>3, <2>1, <2>2 DEF Opens
<1>4. ASSUME NEW t \in Switches, Closes(t) PROVE alive[s] /\ starts'[s] = starts[s]
  BY <1>4 DEF Closes, TypeOK, TransportTypeOK
<1>5. CASE UNCHANGED <<alive, starts>>
  BY <1>5
<1> QED BY <1>1, <1>2, <1>3, <1>4, <1>5
        DEF Effect, Stops, Works, Asks, Reads, Refuses, Welcomes, Answers, Leaves, Replies

(* OwnTrafficStays at one switch.                                          *)
OwnAt(s) ==
  alive[s] =>
    /\ table[s] # <<>>
    /\ IsLocal(table[s][1])
    /\ \A j \in 1 .. Len(unsolved[s]) : ~Owns(s, unsolved[s][j])
    /\ \A i \in 1 .. Len(up[Current(s)]) :
         up[Current(s)][i].type = "QUERY" => ~Owns(s, up[Current(s)][i].pkt)

(* What no rule matches is not in the range of the first one.              *)
LEMMA NotOwned ==
  ASSUME TypeOK, NEW s \in Switches, NEW p \in Packet, table[s] # <<>>,
         FlowEntryIndex(table[s], p) = 0
  PROVE  ~Owns(s, p)
<1>1. table[s] \in Seq(Rule) /\ 1 \in 1 .. Len(table[s])
  BY DEF TypeOK, SwitchTypeOK
<1>2. ~Matches(table[s][1], p)
  BY <1>1, FirstMatch
<1> QED BY <1>2 DEF Matches, Owns, Packet, MIN_IP

(* The packets of a switch that is alive before and after the step.        *)
LEMMA OwnParked ==
  ASSUME TypeOK, NEW s \in Switches, OneOf(s), alive[s], alive'[s], OwnAt(s),
         NEW j \in 1 .. Len(unsolved'[s])
  PROVE  ~Owns(s, unsolved'[s][j])
<1>1. unsolved[s] \in Seq(Packet) /\ table[s] # <<>>
  BY DEF TypeOK, SwitchTypeOK, OwnAt
<1>2. CASE unsolved'[s] = unsolved[s]
  BY <1>2 DEF OwnAt
<1>3. CASE Asked(s)
  <2>1. PICK p \in Packet : /\ FlowEntryIndex(table[s], p) = 0
                            /\ unsolved'[s] = Append(unsolved[s], p)
    BY <1>3 DEF Asked
  <2>2. ~Owns(s, p)
    BY <1>1, <2>1, NotOwned
  <2>3. j \in 1 .. Len(unsolved[s]) \/ Append(unsolved[s], p)[j] = p
    BY <1>1, <2>1, AppendElements
  <2>4. j \in 1 .. Len(unsolved[s]) => Append(unsolved[s], p)[j] = unsolved[s][j]
    BY <1>1, AppendElements
  <2> QED BY <2>1, <2>2, <2>3, <2>4 DEF OwnAt
<1>4. CASE Solved(s)
  <2>1. iter[s] \in 1 .. Len(unsolved[s])
    BY <1>4 DEF Solved, TypeOK, SwitchTypeOK
  <2> DEFINE q == RemoveAt(unsolved[s], iter[s])
             n == Len(unsolved[s])
  <2>2. /\ Len(q) = n - 1 /\ n \in Nat
        /\ \A k \in 1 .. n - 1 : q[k] = IF k < iter[s] THEN unsolved[s][k] ELSE unsolved[s][k + 1]
    <3>1. Len(unsolved[s]) \in Nat
      BY <1>1
    <3>2. /\ Len(RemoveAt(unsolved[s], iter[s])) = Len(unsolved[s]) - 1
          /\ \A k \in 1 .. Len(unsolved[s]) - 1 :
               RemoveAt(unsolved[s], iter[s])[k]
                 = IF k < iter[s] THEN unsolved[s][k] ELSE unsolved[s][k + 1]
      BY <1>1, <2>1, RemoveAtType, Zenon
    <3> QED BY <3>1, <3>2, Zenon
  <2>3. unsolved'[s] = q
    BY <1>4 DEF Solved
  <2> HIDE DEF q, n
  <2>4. j \in 1 .. n /\ j + 1 \in 1 .. n
    BY <2>2, <2>3
  <2>5. \E k \in 1 .. n : q[j] = unsolved[s][k]
    BY <2>2, <2>3, <2>4
  <2> QED BY <2>3, <2>5 DEF OwnAt, n
<1> QED BY <1>2, <1>3, <1>4 DEF OneOf, Gone, Begun, Same, Hit, Added, Kept

(* Its questions.                                                          *)
LEMMA OwnAsked ==
  ASSUME TypeOK, [Next]_vars, NEW s \in Switches, alive[s], OwnAt(s),
         NEW i \in 1 .. Len(up'[Current(s)]), up'[Current(s)][i].type = "QUERY"
  PROVE  ~Owns(s, up'[Current(s)][i].pkt)
<1> DEFINE c == Current(s)
<1>1. c \in Conn /\ c[1] = s /\ up[c] \in Seq(ToController) /\ table[s] # <<>>
  BY CurrentConn DEF TypeOK, TransportTypeOK, Current, OwnAt
<1>2. UpStep(c)
  BY <1>1, NextChannels DEF ChannelStep
<1>3. \A k \in 1 .. Len(up[c]) : up[c][k].type = "QUERY" => ~Owns(s, up[c][k].pkt)
  BY DEF OwnAt
<1> HIDE DEF c
<1>4. CASE up'[c] = up[c] \/ up'[c] = <<>>
  BY <1>3, <1>4 DEF c
<1>5. ASSUME NEW k \in 1 .. Len(up[c]), up'[c] = AfterRecv(up[c], k)
      PROVE  ~Owns(s, up'[c][i].pkt)
  <2>1. PICK j \in 1 .. Len(up[c]) : up'[c][i] = up[c][j]
    BY <1>1, <1>5, TailOfQueue DEF c
  <2> QED BY <1>3, <2>1 DEF c
<1>6. ASSUME NEW p \in Packet, FlowEntryIndex(table[s], p) = 0,
             up'[c] = Append(up[c], QueryMsg(s, p))
      PROVE  ~Owns(s, up'[c][i].pkt)
  <2>1. ~Owns(s, p)
    BY <1>1, <1>6, NotOwned
  <2> DEFINE m == QueryMsg(s, p)
  <2>2. m \in ToController /\ m.pkt = p
    BY <1>6 DEF QueryMsg, ToController
  <2> HIDE DEF m
  <2>3. /\ Append(up[c], m)[i] = m \/ i \in 1 .. Len(up[c])
        /\ i \in 1 .. Len(up[c]) => Append(up[c], m)[i] = up[c][i]
    BY <1>1, <1>6, <2>2, AppendElements DEF c, m
  <2> QED BY <1>3, <1>6, <2>1, <2>2, <2>3 DEF c, m
<1>7. ASSUME NEW range \in Ranges[s], up'[c] = <<OpenMsg(s, range)>> PROVE FALSE
  <2>1. OpenMsg(s, range).type # "QUERY"
    BY DEF OpenMsg
  <2> QED BY <1>7, <2>1 DEF c
<1> QED BY <1>1, <1>2, <1>4, <1>5, <1>6, <1>7 DEF UpStep, c

Inside(r, p) == p.src <= MAX_IP /\ r.dstLow <= p.dst /\ p.dst <= r.dstHigh

LEMMA OwnStep ==
  ASSUME TypeOK, ParkedInv, [Next]_vars, NEW s \in Switches, OwnAt(s)
  PROVE  OwnAt(s)'
<1>1. SUFFICES ASSUME alive'[s]
               PROVE  /\ table'[s] # <<>> /\ IsLocal(table'[s][1])
                      /\ \A j \in 1 .. Len(unsolved'[s]) : ~Inside(table'[s][1], unsolved'[s][j])
                      /\ \A i \in 1 .. Len(up'[Current(s)']) :
                           up'[Current(s)'][i].type = "QUERY" =>
                             ~Inside(table'[s][1], up'[Current(s)'][i].pkt)
  BY DEF OwnAt, Owns, Inside
<1>2. OneOf(s)
  BY SwitchStep
<1>3. CASE alive[s] /\ starts'[s] = starts[s]
  <2>1. table[s] # <<>> /\ IsLocal(table[s][1]) /\ Current(s)' = Current(s)
    BY <1>3 DEF OwnAt, Current
  <2>2. table'[s] # <<>> /\ SameTarget(table'[s][1], table[s][1])
    BY <1>1, <1>2, <1>3, <2>1, FirstRuleKept
  <2>3. ASSUME NEW p, ~Owns(s, p) PROVE ~Inside(table'[s][1], p)
    BY <2>2, <2>3 DEF Owns, Inside, SameTarget
  <2>4. IsLocal(table'[s][1])
    BY <2>1, <2>2 DEF IsLocal, SameTarget
  <2>5. \A j \in 1 .. Len(unsolved'[s]) : ~Owns(s, unsolved'[s][j])
    BY <1>1, <1>2, <1>3, OwnParked
  <2>6. \A i \in 1 .. Len(up'[Current(s)]) :
          up'[Current(s)][i].type = "QUERY" => ~Owns(s, up'[Current(s)][i].pkt)
    BY <1>3, OwnAsked
  <2> QED BY <2>1, <2>2, <2>3, <2>4, <2>5, <2>6
<1>4. CASE ~alive[s]
  <2>1. PICK range \in IPRange : /\ up'[Current(s)'] = <<OpenMsg(s, range)>>
                                 /\ table'[s] = <<InitRule(range)>>
    BY <1>1, <1>4, ConnectionKept
  <2>2. unsolved'[s] = <<>>
    BY <1>1, <1>2, <1>4
       DEF OneOf, Gone, Begun, Same, Hit, Asked, Added, Solved, Kept, ParkedInv, ParkedAt
  <2>3. table'[s] # <<>> /\ IsLocal(table'[s][1])
    BY <2>1 DEF InitRule, NewRule, IsLocal, PORT_3, FORWARD
  <2>4. OpenMsg(s, range).type # "QUERY"
    BY DEF OpenMsg
  <2> QED BY <2>1, <2>2, <2>3, <2>4
<1> QED BY <1>1, <1>3, <1>4, ConnectionKept

OwnInv == \A s \in Switches : OwnAt(s)

LEMMA OwnInvariant == Spec => [](TypeOK /\ OwnInv)
<1>1. Init => OwnInv
  BY DEF Init, TransportInit, OwnInv, OwnAt
<1>2. TypeOK /\ ParkedInv /\ OwnInv /\ [Next]_vars => OwnInv'
  BY OwnStep DEF OwnInv
<1> QED BY <1>1, <1>2, ParkedInvariant, PTL DEF Spec

(***************************************************************************)
(* For every network, range and traffic: the initial rule stays the first  *)
(* one of a live switch, so that no valid packet for its own range is ever *)
(* parked or asked about (getFlowEntryIndex, respondADDPacket).            *)
(***************************************************************************)
THEOREM OwnTraffic == Spec => []OwnTrafficStays
<1>1. OwnInv => OwnTrafficStays
  BY DEF OwnInv, OwnAt, OwnTrafficStays
<1> QED BY <1>1, OwnInvariant, PTL

-----------------------------------------------------------------------------
(* What an OPEN on its way, or the registry after it, says of the range of *)
(* a live switch is what its first rule says.                              *)
SameRange(i, r) == i.low = r.dstLow /\ i.high = r.dstHigh

RangeAt(s) ==
  alive[s] =>
    /\ ~Greeted(Current(s)) => SameRange(up[Current(s)][1], table[s][1])
    /\ ctrlUp /\ Current(s) \in switchFDMap => SameRange(registry[s], table[s][1])

(***************************************************************************)
(* The step that matters is Welcomes: the OPEN that is read is that of the *)
(* live process, or it is an older one, and then the connection of the     *)
(* live process still waits and is not registered (NewerWait).             *)
(***************************************************************************)
LEMMA RangeStep ==
  ASSUME TypeOK, SessionInv, DoorInv, [Next]_vars, NEW s \in Switches, OwnAt(s), RangeAt(s)
  PROVE  RangeAt(s)'
<1>1. SUFFICES ASSUME alive'[s]
               PROVE  /\ ~Greeted(Current(s))' =>
                           SameRange(up'[Current(s)'][1], table'[s][1])
                      /\ ctrlUp' /\ Current(s)' \in switchFDMap' =>
                           SameRange(registry'[s], table'[s][1])
  BY DEF RangeAt
<1>2. CASE ~alive[s]
  <2>1. PICK range \in IPRange : /\ up'[Current(s)'] = <<OpenMsg(s, range)>>
                                 /\ table'[s] = <<InitRule(range)>>
    BY <1>1, <1>2, ConnectionKept
  <2>2. SameRange(OpenMsg(s, range), InitRule(range))
    BY DEF SameRange, OpenMsg, InitRule, NewRule
  <2>3. Current(s)' \notin switchFDMap'
    <3>1. starts'[s] = starts[s] + 1 /\ switchFDMap' = switchFDMap
      BY <1>1, <1>2, ConnectionKept
    <3>2. ASSUME Current(s)' \in switchFDMap PROVE FALSE
      <4>1. Dialled(Current(s)')
        BY <3>2 DEF DoorInv, Sockets, TypeOK, ControllerTypeOK
      <4>2. starts[s] + 1 <= starts[s] /\ starts[s] \in Nat
        BY <3>1, <4>1 DEF Dialled, Current, TypeOK, TransportTypeOK
      <4> QED BY <4>2
    <3> QED BY <3>1, <3>2
  <2> QED BY <2>1, <2>2, <2>3
<1>3. CASE alive[s] /\ starts'[s] = starts[s]
  <2>1. PICK c \in Conn :
          /\ c = Current(s) /\ Current(s)' = c /\ c[1] = s /\ c[2] = starts[s]
          /\ starts[s] \in Nat /\ up[c] \in Seq(ToController)
    <3>1. Current(s) \in Conn /\ starts[s] \in Nat
      BY <1>3, CurrentConn DEF TypeOK, TransportTypeOK
    <3>2. Current(s)' = Current(s) /\ Current(s)[1] = s /\ Current(s)[2] = starts[s]
      BY <1>3 DEF Current
    <3>3. up[Current(s)] \in Seq(ToController)
      BY <3>1 DEF TypeOK, TransportTypeOK
    <3> QED BY <3>1, <3>2, <3>3, Zenon
  <2>2. SameTarget(table'[s][1], table[s][1])
    BY <1>1, <1>3, SwitchStep, FirstRuleKept DEF OwnAt
  <2>3. ~Greeted(c)' => SameRange(up'[c][1], table'[s][1])
    <3>1. SUFFICES ASSUME ~Greeted(c)' PROVE SameRange(up'[c][1], table'[s][1])
      OBVIOUS
    <3>2. CASE ~Greeted(c) /\ up'[c][1] = up[c][1]
      <4>1. SameRange(up[c][1], table[s][1])
        BY <1>3, <2>1, <3>2 DEF RangeAt
      <4> QED BY <2>2, <3>2, <4>1 DEF SameRange, SameTarget
    <3>3. ASSUME NEW t \in Switches, c = <<t, starts[t] + 1>> PROVE FALSE
      BY <2>1, <3>3
    <3>4. ~Greeted(c) /\ up'[c][1] = up[c][1]
      <4>1. \/ ~Greeted(c) /\ up'[c][1] = up[c][1]
            \/ \E t \in Switches : c = <<t, starts[t] + 1>>
        BY <3>1, GreetingStep
      <4> QED BY <3>3, <4>1
    <3> QED BY <3>2, <3>4
  <2>4. ctrlUp' /\ c \in switchFDMap' => SameRange(registry'[s], table'[s][1])
    <3>1. SUFFICES ASSUME ctrlUp', c \in switchFDMap'
                   PROVE  SameRange(registry'[s], table'[s][1])
      OBVIOUS
    <3>2. CASE ctrlUp /\ c \in switchFDMap /\ registry'[s] = registry[s]
      <4>1. SameRange(registry[s], table[s][1])
        BY <1>3, <2>1, <3>2 DEF RangeAt
      <4> QED BY <2>2, <3>2, <4>1 DEF SameRange, SameTarget
    <3>3. ASSUME NEW d \in Conn, Welcomes(d) PROVE SameRange(registry'[s], table'[s][1])
      <4> DEFINE m == up[d][1]
      <4>1. /\ up[d] # <<>> /\ m.type = "OPEN" /\ m.id = d[1] /\ m \in ToController
            /\ registry' = Register(registry, m) /\ switchFDMap' = switchFDMap \cup {d}
            /\ ctrlUp
        <5>1. up[d] \in Seq(ToController) /\ up[d] # <<>> /\ Ordered(d)
          BY <3>3 DEF Welcomes, TypeOK, TransportTypeOK, SessionInv
        <5>2. 1 \in 1 .. Len(up[d]) /\ Head(up[d]) = m
          BY <5>1
        <5> QED BY <3>3, <5>1, <5>2 DEF Welcomes, Replies, Ordered
      <4>2. ~Greeted(d)
        BY <4>1 DEF Greeted
      <4> HIDE DEF m
      <4>3. registry \in [Switches -> SwitchInfo] /\ d[1] \in Switches /\ d[2] \in Nat
        BY DEF TypeOK, ControllerTypeOK, Conn
      <4>4. CASE d = c
        <5>1. registry'[s] = InfoOf(m)
          BY <2>1, <4>1, <4>3, <4>4 DEF Register
        <5>2. SameRange(m, table[s][1])
          BY <1>3, <2>1, <4>2, <4>4 DEF RangeAt, m
        <5> QED BY <2>2, <5>1, <5>2 DEF SameRange, SameTarget, InfoOf
      <4>5. CASE d[1] # s
        BY <2>1, <3>1, <3>2, <4>1, <4>3, <4>5 DEF Register
      <4>6. CASE d # c /\ d[1] = s
        <5>1. Dialled(d) /\ Dialled(c)
          BY <2>1, <4>2 DEF DoorInv, Due, Waiting, Sockets, Dialled
        <5>2. d[2] < c[2]
          <6>1. d[2] # c[2]
            BY <2>1, <4>6 DEF Conn
          <6> QED BY <2>1, <4>3, <4>6, <5>1, <6>1 DEF Dialled
        <5>3. Contains(pending, c)
          BY <2>1, <4>2, <4>6, <5>1, <5>2 DEF DoorInv, NewerWait
        <5>4. c \notin switchFDMap
          BY <2>1, <5>3 DEF DoorInv, Waiting, Sockets
        <5> QED BY <3>1, <4>1, <4>6, <5>4
      <4> QED BY <4>4, <4>5, <4>6
    <3>4. Effect
      BY NextEffect
    <3>5. CASE \/ Works
               \/ \E t \in Switches : Opens(t) \/ Closes(t) \/ Asks(t) \/ Reads(t) \/ Refuses(t)
      BY <3>1, <3>2, <3>5 DEF Works, Opens, Closes, Asks, Reads, Refuses
    <3>6. ASSUME NEW d \in Conn, Answers(d) \/ Leaves(d)
          PROVE  SameRange(registry'[s], table'[s][1])
      BY <3>1, <3>2, <3>6 DEF Answers, Leaves, Replies
    <3> QED BY <3>1, <3>3, <3>4, <3>5, <3>6 DEF Effect, Stops
  <2>5. ~Greeted(Current(s))' => ~Greeted(c)'
    BY <2>1 DEF Greeted
  <2> QED BY <2>1, <2>3, <2>4, <2>5
<1> QED BY <1>1, <1>2, <1>3, ConnectionKept

RangeInv == \A s \in Switches : RangeAt(s)

LEMMA RangeInvariant == Spec => [](TypeOK /\ SessionInv /\ OwnInv /\ RangeInv)
<1>1. Init => RangeInv
  BY DEF Init, TransportInit, RangeInv, RangeAt
<1>2. TypeOK /\ SessionInv /\ DoorInv /\ OwnInv /\ RangeInv /\ [Next]_vars => RangeInv'
  BY RangeStep DEF OwnInv, RangeInv
<1> QED BY <1>1, <1>2, DoorInvariant, OwnInvariant, PTL DEF Spec

(***************************************************************************)
(* For every network and whatever restarts overlap: once a live process is *)
(* acknowledged, the controller knows the range it serves, and no OPEN of  *)
(* an older process of the switch overwrites it (respondOPENPacket).       *)
(***************************************************************************)
THEOREM RegistryIsCurrent == Spec => []RegistryCurrent
<1>1. RangeInv => RegistryCurrent
  BY DEF RangeInv, RangeAt, SameRange, RegistryCurrent
<1> QED BY <1>1, RangeInvariant, PTL

-----------------------------------------------------------------------------
(* No answer on its way makes a switch admit anything, and of its rules    *)
(* only the first one does.                                                *)
NoneLocal(q) == \A i \in 1 .. Len(q) : q[i].type = "ADD" => ~IsLocal(q[i].rule)

OnlyFirstLocal(t) == \A i \in 1 .. Len(t) : IsLocal(t[i]) => i = 1

AdmitsAt(s) ==
  alive[s] => NoneLocal(down[Current(s)]) /\ OnlyFirstLocal(table[s])

(* A controller that knows the range of s does not answer DELIVER to a     *)
(* question that s would not have had to ask.                              *)
LEMMA AnswerNotLocal ==
  ASSUME TypeOK, NEW s \in Switches, NEW p \in Packet,
         SameRange(registry[s], table[s][1]), ~Owns(s, p)
  PROVE  ~IsLocal(MakeFlowEntry(registry, s, p))
<1>1. p.src <= MAX_IP => ~InRange(registry, s, p.dst)
  BY DEF SameRange, Owns, InRange
<1>2. \A port \in {PORT_1, PORT_2} : \A t : ~IsLocal(ForwardRule(port, registry[t]))
  BY DEF ForwardRule, NewRule, IsLocal, PORT_1, PORT_2, PORT_3, FORWARD, DELIVER
<1>3. ~IsLocal(DropRule(p.dst))
  BY DEF DropRule, NewRule, IsLocal, DROP, FORWARD, DELIVER
<1>4. PORT_1 \in {PORT_1, PORT_2} /\ PORT_2 \in {PORT_1, PORT_2}
  OBVIOUS
<1>5. CASE s \notin Known(registry) \/ p.src > MAX_IP
  BY <1>3, <1>5 DEF MakeFlowEntry
<1>6. CASE s \in Known(registry) /\ ~(p.src > MAX_IP) /\ ~InRange(registry, s, p.dst)
  <2> DEFINE left == LeftServer(registry, s, p.dst)
             right == RightServer(registry, s, p.dst)
             answer == MakeFlowEntry(registry, s, p)
  <2>1. \/ answer = ForwardRule(PORT_1, registry[left])
        \/ answer = ForwardRule(PORT_2, registry[right])
        \/ answer = DropRule(p.dst)
    BY <1>6 DEF MakeFlowEntry
  <2> HIDE DEF left, right, answer
  <2>2. ~IsLocal(answer)
    BY <1>2, <1>3, <1>4, <2>1, Zenon
  <2> QED BY <2>2 DEF answer
<1>7. p.src <= MAX_IP \/ p.src > MAX_IP
  BY MaxIPAssumption DEF Packet
<1> QED BY <1>1, <1>5, <1>6, <1>7

(***************************************************************************)
(* The step that matters is the answer to the QUERY at the head: who asked *)
(* is registered on this connection, so that its range is the one known    *)
(* (RangeAt), and what it asks about is outside (OwnAt).                   *)
(***************************************************************************)
LEMMA NoneLocalStep ==
  ASSUME TypeOK, SessionInv, [Next]_vars, NEW s \in Switches, alive[s],
         OwnAt(s), RangeAt(s), NoneLocal(down[Current(s)])
  PROVE  NoneLocal(down'[Current(s)])
<1>1. PICK c \in Conn :
        /\ c = Current(s) /\ c[1] = s
        /\ up[c] \in Seq(ToController) /\ down[c] \in Seq(ToSwitch)
  <2>1. Current(s) \in Conn /\ Current(s)[1] = s
    BY CurrentConn DEF TypeOK, Current
  <2>2. up[Current(s)] \in Seq(ToController) /\ down[Current(s)] \in Seq(ToSwitch)
    BY <2>1 DEF TypeOK, TransportTypeOK
  <2> QED BY <2>1, <2>2, Zenon
<1>2. DownStep(c) /\ NoneLocal(down[c])
  BY <1>1, NextChannels DEF ChannelStep
<1>3. CASE down'[c] = down[c] \/ down'[c] = <<>>
  <2>1. NoneLocal(<<>>)
    BY DEF NoneLocal
  <2> QED BY <1>1, <1>2, <1>3, <2>1 DEF NoneLocal
<1>4. ASSUME NEW k \in 1 .. Len(down[c]), down'[c] = AfterRecv(down[c], k)
      PROVE  NoneLocal(down'[c])
  <2>1. ASSUME NEW i \in 1 .. Len(AfterRecv(down[c], k)),
               AfterRecv(down[c], k)[i].type = "ADD"
        PROVE  ~IsLocal(AfterRecv(down[c], k)[i].rule)
    <3>1. PICK j \in 1 .. Len(down[c]) : AfterRecv(down[c], k)[i] = down[c][j]
      BY <1>1, TailOfQueue
    <3> QED BY <1>2, <2>1, <3>1 DEF NoneLocal
  <2> QED BY <1>4, <2>1 DEF NoneLocal
<1>5. ASSUME NEW a, down'[c] = Append(down[c], a), a.type = "ADD" => ~IsLocal(a.rule)
      PROVE  NoneLocal(down'[c])
  <2>1. ASSUME NEW i \in 1 .. Len(Append(down[c], a)), Append(down[c], a)[i].type = "ADD"
        PROVE  ~IsLocal(Append(down[c], a)[i].rule)
    <3>1. \/ i \in 1 .. Len(down[c]) /\ Append(down[c], a)[i] = down[c][i]
          \/ Append(down[c], a)[i] = a
      BY <1>1, JoinsQueue
    <3> QED BY <1>2, <1>5, <2>1, <3>1 DEF NoneLocal
  <2> QED BY <1>5, <2>1 DEF NoneLocal
<1>6. AckMsg.type # "ADD"
  BY DEF AckMsg
<1>7. ASSUME up[c] # <<>>, Head(up[c]).type = "QUERY"
      PROVE  ~IsLocal(AddMsg(MakeFlowEntry(registry, Head(up[c]).id, Head(up[c]).pkt)).rule)
  <2>1. PICK m : m = Head(up[c]) /\ m = up[c][1] /\ m \in ToController /\ 1 \in 1 .. Len(up[c])
    BY <1>1, <1>7
  <2>2. m.id = s /\ m.pkt \in Packet
    BY <1>1, <1>7, <2>1 DEF SessionInv, Ordered, ToController
  <2>3. ~Owns(s, m.pkt)
    BY <1>1, <1>7, <2>1 DEF OwnAt
  <2>4. ctrlUp /\ c \in switchFDMap
    <3>1. Greeted(c) /\ Silent(c) /\ Enrolled(c)
      BY <1>7, <2>1 DEF SessionInv, Greeted
    <3> QED BY <1>7, <3>1 DEF Silent, Enrolled
  <2>5. SameRange(registry[s], table[s][1])
    BY <1>1, <2>4 DEF RangeAt
  <2>6. ~IsLocal(MakeFlowEntry(registry, s, m.pkt))
    BY <2>2, <2>3, <2>5, AnswerNotLocal
  <2> QED BY <2>1, <2>2, <2>6 DEF AddMsg
<1> QED BY <1>1, <1>2, <1>3, <1>4, <1>5, <1>6, <1>7 DEF DownStep

(* A table gets no other rule that admits, so a live switch is left with   *)
(* its first one.                                                          *)
LEMMA OnlyFirstLocalStep ==
  ASSUME TypeOK, NEW s \in Switches, OneOf(s), alive[s], alive'[s],
         NoneLocal(down[Current(s)]), OnlyFirstLocal(table[s]), table[s] # <<>>
  PROVE  OnlyFirstLocal(table'[s])
<1>1. table[s] \in Seq(Rule)
  BY DEF TypeOK, SwitchTypeOK
<1>2. CASE table'[s] = table[s]
  BY <1>2 DEF OnlyFirstLocal
<1>3. ASSUME NEW i \in 1 .. Len(table[s]), table'[s] = Counted(table[s], i)
      PROVE  OnlyFirstLocal(table'[s])
  <2>1. Len(Counted(table[s], i)) = Len(table[s])
    BY <1>1, CountedRule
  <2>2. ASSUME NEW k \in 1 .. Len(table[s]), IsLocal(Counted(table[s], i)[k]) PROVE k = 1
    <3>1. /\ table[s][k] \in Rule
          /\ Counted(table[s], i)[k]
               = [table[s][k] EXCEPT !.pktCount = Counted(table[s], i)[k].pktCount]
      BY <1>1, CountedRule
    <3>2. IsLocal(table[s][k])
      BY <2>2, <3>1 DEF IsLocal, Rule
    <3> QED BY <3>2 DEF OnlyFirstLocal
  <2> QED BY <1>3, <2>1, <2>2 DEF OnlyFirstLocal
<1>4. CASE Added(s)
  <2>1. PICK r \in Rule : /\ table'[s] = AddRule(table[s], r)
                          /\ down[Current(s)] # <<>>
                          /\ Head(down[Current(s)]) = AddMsg(r)
    BY <1>4 DEF Added
  <2>2. ~IsLocal(r)
    <3> DEFINE c == Current(s)
    <3>1. c \in Conn
      BY CurrentConn DEF TypeOK
    <3>2. down[c] \in Seq(ToSwitch) /\ NoneLocal(down[c])
      BY <3>1 DEF TypeOK, TransportTypeOK
    <3>3. 1 \in 1 .. Len(down[c]) /\ down[c][1] = AddMsg(r)
      BY <2>1, <3>2
    <3> QED BY <3>2, <3>3 DEF NoneLocal, AddMsg
  <2>3. CASE table'[s] = Append(table[s], r)
    <3>1. ASSUME NEW i \in 1 .. Len(Append(table[s], r)), IsLocal(Append(table[s], r)[i])
          PROVE  i = 1
      <4>1. i \in 1 .. Len(table[s]) /\ Append(table[s], r)[i] = table[s][i]
        BY <1>1, <2>2, <3>1, JoinsQueue
      <4> QED BY <3>1, <4>1 DEF OnlyFirstLocal
    <3> QED BY <2>3, <3>1 DEF OnlyFirstLocal
  <2> QED BY <1>2, <2>1, <2>3 DEF AddRule
<1> QED BY <1>2, <1>3, <1>4 DEF OneOf, Gone, Begun, Same, Hit, Asked, Solved, Kept

LEMMA AdmitsStep ==
  ASSUME TypeOK, SessionInv, [Next]_vars, NEW s \in Switches,
         OwnAt(s), RangeAt(s), AdmitsAt(s)
  PROVE  AdmitsAt(s)'
<1>1. SUFFICES ASSUME alive'[s]
               PROVE  NoneLocal(down'[Current(s)']) /\ OnlyFirstLocal(table'[s])
  BY DEF AdmitsAt, NoneLocal, OnlyFirstLocal
<1>2. CASE alive[s] /\ starts'[s] = starts[s]
  <2>1. Current(s)' = Current(s) /\ table[s] # <<>>
    BY <1>2 DEF Current, OwnAt
  <2>2. NoneLocal(down'[Current(s)])
    BY <1>2, NoneLocalStep DEF AdmitsAt
  <2>3. OnlyFirstLocal(table'[s])
    BY <1>1, <1>2, <2>1, SwitchStep, OnlyFirstLocalStep DEF AdmitsAt
  <2> QED BY <2>1, <2>2, <2>3
<1>3. CASE ~alive[s]
  <2>1. PICK range \in IPRange : table'[s] = <<InitRule(range)>>
    BY <1>1, <1>3, ConnectionKept
  <2>2. OnlyFirstLocal(table'[s])
    BY <2>1 DEF OnlyFirstLocal
  <2>3. Current(s)' \in Conn /\ Current(s)' = <<s, starts[s] + 1>> /\ starts[s] \in Nat
    <3>1. TypeOK'
      BY NextTypeOK
    <3>2. Current(s)' \in Conn
      BY <1>1, <3>1, CurrentConn DEF TypeOK, TransportTypeOK, Current, Conn
    <3>3. starts'[s] = starts[s] + 1 /\ starts[s] \in Nat
      BY <1>1, <1>3, ConnectionKept DEF TypeOK, TransportTypeOK
    <3> QED BY <3>2, <3>3 DEF Current
  <2>4. down[Current(s)'] = <<>> /\ up[Current(s)'] = <<>>
    BY <1>3, <2>3 DEF SessionInv, Ordered, PeerLive
  <2>5. DownStep(Current(s)')
    BY <2>3, NextChannels DEF ChannelStep
  <2>6. NoneLocal(down'[Current(s)'])
    <3>1. PICK c : c = Current(s)'
      OBVIOUS
    <3>2. down'[c] = <<>> \/ down'[c] = Append(<<>>, AckMsg)
      <4>1. Len(<<>>) = 0 /\ ~ \E k \in 1 .. 0 : TRUE
        OBVIOUS
      <4> QED BY <2>4, <2>5, <3>1, <4>1 DEF DownStep
    <3>3. AckMsg.type # "ADD"
      BY DEF AckMsg
    <3>4. NoneLocal(<<>>)
      BY DEF NoneLocal
    <3>5. NoneLocal(Append(<<>>, AckMsg))
      <4>1. PICK a : a = AckMsg
        OBVIOUS
      <4>2. Append(<<>>, a) = <<a>>
        OBVIOUS
      <4> QED BY <3>3, <4>1, <4>2 DEF NoneLocal
    <3> QED BY <3>1, <3>2, <3>4, <3>5
  <2> QED BY <2>2, <2>6
<1> QED BY <1>1, <1>2, <1>3, ConnectionKept

AdmitsInv == \A s \in Switches : AdmitsAt(s)

(***************************************************************************)
(* For every network and whatever restarts overlap: a live switch admits   *)
(* by its initial rule alone, so what it admits is in its own range.  The  *)
(* DELIVER branch of makeFlowEntry never answers it.                       *)
(***************************************************************************)
THEOREM AdmitsOnlyOwn == Spec => []AdmittedIsOwn
<1>1. Init => AdmitsInv
  BY DEF Init, TransportInit, AdmitsInv, AdmitsAt
<1>2. TypeOK /\ SessionInv /\ OwnInv /\ RangeInv /\ AdmitsInv /\ [Next]_vars => AdmitsInv'
  BY AdmitsStep DEF OwnInv, RangeInv, AdmitsInv
<1>3. TypeOK /\ AdmitsInv => AdmittedIsOwn
  <2>1. SUFFICES ASSUME TypeOK, AdmitsInv, NEW s \in Switches, alive[s],
                        NEW i \in 1 .. Len(table[s]), IsLocal(table[s][i])
                 PROVE  /\ table[s][1].dstLow <= table[s][i].dstLow
                        /\ table[s][i].dstHigh <= table[s][1].dstHigh
    BY DEF AdmittedIsOwn
  <2>2. i = 1
    BY <2>1 DEF AdmitsInv, AdmitsAt, OnlyFirstLocal
  <2>3. table[s][i] \in Rule
    BY <2>1 DEF TypeOK, SwitchTypeOK
  <2>4. table[s][i].dstLow \in Int /\ table[s][i].dstHigh \in Int
    BY <2>3 DEF Rule
  <2> QED BY <2>2, <2>4
<1> QED BY <1>1, <1>2, <1>3, RangeInvariant, PTL DEF Spec
=============================================================================
