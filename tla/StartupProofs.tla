---------------------------- MODULE StartupProofs ----------------------------
(***************************************************************************)
(* Proofs about Startup, for every set of switches and command lines.      *)
(***************************************************************************)
EXTENDS Startup, SequenceTheorems, TLAPS

(* Stages that a switch reaches with legal arguments only.                 *)
Past == {"pipes", "open", "signal", "file", "connect", "tell", "loop"}

(***************************************************************************)
(* Errno: a process with errno set has made a lookup that left it so, and  *)
(* the tests of errno end no other.                                        *)
(***************************************************************************)
Errno ==
  \A p \in Processes :
    /\ errno[p] # 0 => stale[p]
    /\ cause[p] \in ErrnoTests => stale[p]

StartInv ==
  /\ errno \in [Processes -> LookupErrno]
  /\ stale \in [Processes -> BOOLEAN]
  /\ cause \in [Processes -> Causes]
  /\ at \in [Processes -> Stages]
  /\ Errno

LEMMA InitStartInv == Init => StartInv
BY ErrnoAssumption DEF Init, StartInv, Errno, Causes, ErrnoTests, Stages

(* What a lookup does to errno, and that it is remembered when it does.    *)
LEMMA LookupErrnoStale ==
  ASSUME StartInv, NEW p \in Processes, Lookup(p)
  PROVE  /\ errno' \in [Processes -> LookupErrno]
         /\ stale' \in [Processes -> BOOLEAN]
         /\ \A q \in Processes : stale[q] => stale'[q]
         /\ \A q \in Processes : errno'[q] # 0 => stale'[q]
<1>1. PICK e \in LookupErrno :
        /\ errno' = [errno EXCEPT ![p] = IF e = 0 THEN @ ELSE e]
        /\ stale' = [stale EXCEPT ![p] = @ \/ e # 0]
  BY DEF Lookup
<1>2. CASE e = 0
  <2>1. errno' = errno
    BY <1>1, <1>2 DEF StartInv
  <2>2. stale' = stale
    <3>1. stale[p] \in BOOLEAN
      BY DEF StartInv
    <3>2. (stale[p] \/ e # 0) = stale[p]
      BY <3>1, <1>2
    <3> QED
      BY <1>1, <3>2 DEF StartInv
  <2> QED
    BY <2>1, <2>2 DEF StartInv, Errno
<1>3. CASE e # 0
  <2>1. errno' = [errno EXCEPT ![p] = e]
    BY <1>1, <1>3
  <2>2. (stale[p] \/ e # 0) = TRUE
    BY <1>3
  <2>3. stale' = [stale EXCEPT ![p] = TRUE]
    BY <1>1, <2>2
  <2> QED
    BY <2>1, <2>3 DEF StartInv, Errno
<1> QED
  BY <1>2, <1>3

LEMMA NextStartInv == StartInv /\ [Next]_vars => StartInv'
<1> SUFFICES ASSUME StartInv, [Next]_vars PROVE StartInv'
  OBVIOUS
<1> USE DEF StartInv, Errno, Processes, At, Go, EndOf, Causes, ErrnoTests, Stages
<1> USE ErrnoAssumption
<1>1. ASSUME NEW s \in Switches, MainSwitch(s) PROVE StartInv'
  <2>1. CASE Lookup(s) /\ Go(s, "pipes")
    <3> HIDE DEF StartInv
    <3>1. /\ errno' \in [Processes -> LookupErrno]
          /\ stale' \in [Processes -> BOOLEAN]
          /\ \A q \in Processes : stale[q] => stale'[q]
          /\ \A q \in Processes : errno'[q] # 0 => stale'[q]
      BY <2>1, LookupErrnoStale
    <3>2. at' = [at EXCEPT ![s] = "pipes"] /\ cause' = cause
      BY <2>1
    <3> QED
      BY <3>1, <3>2 DEF StartInv
  <2>2. CASE EndOf(s, "arguments") /\ UNCHANGED <<errno, stale>>
    BY <2>2
  <2> QED
    BY <1>1, <2>1, <2>2 DEF MainSwitch
<1>2. ASSUME NEW s \in Switches, MakeFIFO(s) PROVE StartInv'
  <2> DEFINE e == Tested(IF ToMake(s)[made[s] + 1] \in pipes THEN EEXIST ELSE errno[s])
  <2>1. e = 0 \/ e = errno[s]
    BY DEF Tested
  <2>2. errno' = [errno EXCEPT ![s] = e] /\ stale' = stale
    BY <1>2 DEF MakeFIFO
  <2>3. \/ e # 0 /\ EndOf(s, "makeFIFO")
        \/ e = 0 /\ UNCHANGED <<at, cause>>
    BY <1>2 DEF MakeFIFO
  <2> HIDE DEF e
  <2>4. errno' \in [Processes -> LookupErrno]
    BY <2>1, <2>2
  <2>5. \A p \in Processes : errno'[p] # 0 => errno[p] # 0
    BY <2>1, <2>2
  <2>6. e # 0 => stale[s]
    BY <2>1
  <2> QED
    <3>1. CASE e # 0 /\ EndOf(s, "makeFIFO")
      <4>1. /\ at' \in [Processes -> Stages] /\ cause' \in [Processes -> Causes]
            /\ \A p \in Processes : cause'[p] \in ErrnoTests => p = s \/ cause[p] \in ErrnoTests
        BY <3>1
      <4> QED
        BY <3>1, <4>1, <2>2, <2>4, <2>5, <2>6
    <3>2. CASE e = 0 /\ UNCHANGED <<at, cause>>
      BY <3>2, <2>2, <2>4, <2>5
    <3> QED
      BY <2>3, <3>1, <3>2
<1>3. ASSUME NEW s \in Switches, MadeAll(s) PROVE StartInv'
  BY <1>3 DEF MadeAll, AfterMaking
<1>4. ASSUME NEW s \in Switches, OpenReceiveFIFO(s) PROVE StartInv'
  BY <1>4 DEF OpenReceiveFIFO
<1>5. ASSUME NEW s \in Switches, OpenTrafficFile(s) \/ Connect(s) \/ SendOPEN(s) PROVE StartInv'
  BY <1>5 DEF OpenTrafficFile, Connect, SendOPEN
<1>6. ASSUME NEW s \in Switches, RespondOPEN(s) PROVE StartInv'
  <2>1. CASE Lookup(Cont) /\ UNCHANGED <<at, cause>>
    <3> HIDE DEF StartInv
    <3>1. /\ errno' \in [Processes -> LookupErrno]
          /\ stale' \in [Processes -> BOOLEAN]
          /\ \A q \in Processes : stale[q] => stale'[q]
          /\ \A q \in Processes : errno'[q] # 0 => stale'[q]
      BY <2>1, LookupErrnoStale
    <3> QED
      BY <2>1, <3>1 DEF StartInv
  <2>2. CASE EndOf(Cont, "lookup") /\ UNCHANGED <<errno, stale>>
    BY <2>2
  <2>3. CASE errno' = [errno EXCEPT ![Cont] = 0] /\ UNCHANGED <<at, cause, stale>>
    BY <2>3
  <2> QED
    BY <1>6, <2>1, <2>2, <2>3 DEF RespondOPEN
<1>7. ASSUME NEW p \in Processes, GetSignalFD(p) PROVE StartInv'
  BY <1>7 DEF GetSignalFD
<1>8. ASSUME MainController \/ Bind \/ VisitIdle \/ PollFails PROVE StartInv'
  BY <1>8 DEF MainController, Bind, VisitIdle, PollFails
<1>9. CASE UNCHANGED vars
  BY <1>9 DEF vars
<1> QED
  BY <1>1, <1>2, <1>3, <1>4, <1>5, <1>6, <1>7, <1>8, <1>9 DEF Next, StartSwitch

(* No process ends because a pipe was there before it made it.             *)
THEOREM ErrnoExplained == Spec => []ErrnoEndsExplained
<1>1. StartInv => ErrnoEndsExplained
  BY DEF StartInv, Errno, ErrnoEndsExplained
<1> QED
  BY <1>1, InitStartInv, NextStartInv, PTL DEF Spec

-----------------------------------------------------------------------------
(***************************************************************************)
(* Legal: a switch past main has a legal command line; Making: the pipes   *)
(* it has made exist; Reading: past openReceiveFIFO all of them are made   *)
(* and those from the neighbours are open.                                 *)
(***************************************************************************)
Opened == {"signal", "file", "connect", "tell", "loop"}

Legal ==
  \A s \in Switches : at[s] \in Past \/ s \in told => LegalSwitch(args[s])

Making ==
  \A s \in Switches :
    /\ made[s] \in 0 .. Len(ToMake(s))
    /\ \A i \in 1 .. made[s] : ToMake(s)[i] \in pipes
    /\ at[s] \in Opened \cup {"open"} \/ s \in told => made[s] = Len(ToMake(s))

Reading ==
  \A s \in Switches :
    at[s] \in Opened \/ s \in told => \A n \in NeighbourIds(s) : <<n, Id(s)>> \in reading[s]

ToldInv ==
  /\ at \in [Processes -> Stages]
  /\ \A s \in Switches : args[s] \in SwitchLine
  /\ made \in [Switches -> Nat]
  /\ reading = [s \in Switches |-> reading[s]]
  /\ told \in SUBSET Switches
  /\ Legal /\ Making /\ Reading

(* Where the elements of two sequences are in their concatenation.         *)
LEMMA ConcatKeeps ==
  ASSUME NEW T, NEW A \in Seq(T), NEW B \in Seq(T)
  PROVE  /\ \A i \in 1 .. Len(A) : i \in 1 .. Len(A \o B) /\ (A \o B)[i] = A[i]
         /\ \A i \in 1 .. Len(B) : /\ Len(A) + i \in 1 .. Len(A \o B)
                                   /\ (A \o B)[Len(A) + i] = B[i]
BY ConcatProperties

LEMMA FIFONamesSeq ==
  ASSUME NEW T, NEW i, NEW n, <<i, n>> \in T, <<n, i>> \in T
  PROVE  FIFONames(i, n) \in Seq(T)
BY DEF FIFONames

(* The pipes that a switch makes are both pipes of each of its neighbours. *)
LEMMA ToMakeHas ==
  ASSUME NEW s \in Switches, NEW n \in NeighbourIds(s), NEW x \in {<<n, Id(s)>>, <<Id(s), n>>}
  PROVE  \E i \in 1 .. Len(ToMake(s)) : ToMake(s)[i] = x
<1> DEFINE T == {<<Id(s), LeftId(s)>>, <<LeftId(s), Id(s)>>,
                 <<Id(s), RightId(s)>>, <<RightId(s), Id(s)>>}
           A == IF LeftId(s) = NULL_SWITCH_ID_NUM THEN <<>> ELSE FIFONames(Id(s), LeftId(s))
           B == IF RightId(s) = NULL_SWITCH_ID_NUM THEN <<>> ELSE FIFONames(Id(s), RightId(s))
<1>1. A \in Seq(T) /\ B \in Seq(T)
  <2> HIDE DEF T
  <2>1. /\ <<Id(s), LeftId(s)>> \in T /\ <<LeftId(s), Id(s)>> \in T
        /\ <<Id(s), RightId(s)>> \in T /\ <<RightId(s), Id(s)>> \in T
    BY DEF T
  <2>2. FIFONames(Id(s), LeftId(s)) \in Seq(T) /\ FIFONames(Id(s), RightId(s)) \in Seq(T)
    BY <2>1, FIFONamesSeq
  <2> QED
    BY <2>2
<1>2. ToMake(s) = A \o B
  BY DEF ToMake
<1>3. \E i \in 1 .. 2 : FIFONames(Id(s), n)[i] = x
  BY DEF FIFONames
<1>4. Len(FIFONames(Id(s), n)) = 2
  BY DEF FIFONames
<1>5. A = FIFONames(Id(s), n) \/ B = FIFONames(Id(s), n)
  BY DEF NeighbourIds
<1>6. (\E i \in 1 .. Len(A) : A[i] = x) \/ (\E i \in 1 .. Len(B) : B[i] = x)
  BY <1>3, <1>4, <1>5
<1> HIDE DEF T, A, B
<1> QED
  <2>1. \E i \in 1 .. Len(A \o B) : (A \o B)[i] = x
    <3>1. /\ \A i \in 1 .. Len(A) : i \in 1 .. Len(A \o B) /\ (A \o B)[i] = A[i]
          /\ \A i \in 1 .. Len(B) : /\ Len(A) + i \in 1 .. Len(A \o B)
                                    /\ (A \o B)[Len(A) + i] = B[i]
      BY <1>1, ConcatKeeps
    <3>2. CASE \E i \in 1 .. Len(A) : A[i] = x
      BY <3>1, <3>2, Zenon
    <3>3. CASE \E i \in 1 .. Len(B) : B[i] = x
      BY <3>1, <3>3, Zenon
    <3> QED
      BY <1>6, <3>2, <3>3
  <2> QED
    BY <2>1, <1>2

LEMMA ToMakeLen ==
  ASSUME NEW s
  PROVE  Len(ToMake(s)) \in Nat
<1> DEFINE T == {<<Id(s), LeftId(s)>>, <<LeftId(s), Id(s)>>,
                 <<Id(s), RightId(s)>>, <<RightId(s), Id(s)>>}
           A == IF LeftId(s) = NULL_SWITCH_ID_NUM THEN <<>> ELSE FIFONames(Id(s), LeftId(s))
           B == IF RightId(s) = NULL_SWITCH_ID_NUM THEN <<>> ELSE FIFONames(Id(s), RightId(s))
<1>1. A \in Seq(T) /\ B \in Seq(T)
  <2> HIDE DEF T
  <2>1. /\ <<Id(s), LeftId(s)>> \in T /\ <<LeftId(s), Id(s)>> \in T
        /\ <<Id(s), RightId(s)>> \in T /\ <<RightId(s), Id(s)>> \in T
    BY DEF T
  <2>2. FIFONames(Id(s), LeftId(s)) \in Seq(T) /\ FIFONames(Id(s), RightId(s)) \in Seq(T)
    BY <2>1, FIFONamesSeq
  <2> QED
    BY <2>2
<1>2. ToMake(s) = A \o B
  BY DEF ToMake
<1> HIDE DEF T, A, B
<1> QED
  BY <1>1, <1>2, ConcatProperties

(* The command lines do not change, nor does anything computed from them.  *)
LEMMA SameLine ==
  ASSUME UNCHANGED args, NEW s \in Switches
  PROVE  /\ Id(s)' = Id(s) /\ ToMake(s)' = ToMake(s) /\ NeighbourIds(s)' = NeighbourIds(s)
         /\ LegalSwitch(args[s])' = LegalSwitch(args[s])
<1>1. Id(s)' = Id(s) /\ LeftId(s)' = LeftId(s) /\ RightId(s)' = RightId(s)
  BY DEF Id, LeftId, RightId
<1>2. NeighbourIds(s)' = NeighbourIds(s)
  BY <1>1 DEF NeighbourIds
<1>3. ToMake(s)' = ToMake(s)
  BY <1>1 DEF ToMake
<1>4. LegalSwitch(args[s])' = LegalSwitch(args[s])
  OBVIOUS
<1> QED
  BY <1>1, <1>2, <1>3, <1>4

LEMMA InitToldInv == Init => ToldInv
<1> SUFFICES ASSUME Init PROVE ToldInv
  OBVIOUS
<1>1. at \in [Processes -> Stages] /\ \A s \in Switches : at[s] = "main"
  BY DEF Init, Stages, Processes
<1>2. made \in [Switches -> Nat] /\ reading = [s \in Switches |-> reading[s]]
      /\ told \in SUBSET Switches
  BY DEF Init
<1>3. Legal /\ Reading
  BY <1>1 DEF Init, Legal, Reading, Past, Opened
<1>4. Making
  BY <1>1, ToMakeLen DEF Init, Making, Opened
<1>5. \A s \in Switches : args[s] \in SwitchLine
  BY LinesAssumption DEF Init
<1> QED
  BY <1>1, <1>2, <1>3, <1>4, <1>5 DEF ToldInv

-----------------------------------------------------------------------------
(* What one step may do to a switch, as far as ToldInv is concerned.       *)
Move(s) ==
  /\ at'[s] \in Past => at[s] \in Past \/ LegalSwitch(args[s])
  /\ s \in told' => s \in told \/ at[s] = "tell"
  /\ \/ made'[s] = made[s]
     \/ /\ at[s] = "pipes" /\ at'[s] = "pipes"
        /\ made'[s] = made[s] + 1 /\ made[s] < Len(ToMake(s))
        /\ ToMake(s)[made[s] + 1] \in pipes'
  /\ at'[s] \in Opened \cup {"open"} =>
       \/ at[s] \in Opened \cup {"open"}
       \/ made[s] = Len(ToMake(s)) /\ made'[s] = made[s]
  /\ \/ reading'[s] = reading[s] /\ (at'[s] \in Opened => at[s] \in Opened)
     \/ reading'[s] = {<<n, Id(s)>> : n \in NeighbourIds(s)}

Moves ==
  /\ UNCHANGED args
  /\ pipes \subseteq pipes'
  /\ at' \in [Processes -> Stages]
  /\ made' \in [Switches -> Nat]
  /\ reading' = [s \in Switches |-> reading'[s]]
  /\ told' \in SUBSET Switches
  /\ \A s \in Switches : Move(s)

LEMMA NextMoves ==
  ASSUME ToldInv, [Next]_vars
  PROVE  Moves
<1> USE DEF Moves, Move, ToldInv, At, Go, EndOf, Past, Opened, Stages
<1>0. \A s \in Switches : s \in Processes /\ s # Cont
  BY SwitchesAssumption DEF Processes, Cont
<1>1. ASSUME NEW t \in Switches, MainSwitch(t) PROVE Moves
  <2> HIDE DEF LegalSwitch
  <2> QED BY <1>0, <1>1 DEF MainSwitch
<1>2. ASSUME NEW t \in Switches, MakeFIFO(t) PROVE Moves
  <2> DEFINE pipe == ToMake(t)[made[t] + 1]
             L == Len(ToMake(t))
             e == Tested(IF pipe \in pipes THEN EEXIST ELSE errno[t])
  <2>1. /\ at[t] = "pipes" /\ made[t] < L
        /\ pipes' = pipes \cup {pipe}
        /\ UNCHANGED <<args, reading, told>>
        /\ \/ EndOf(t, "makeFIFO") /\ UNCHANGED made
           \/ made' = [made EXCEPT ![t] = @ + 1] /\ UNCHANGED at
    BY <1>2 DEF MakeFIFO
  <2> HIDE DEF L
  <2>2. CASE EndOf(t, "makeFIFO") /\ UNCHANGED made
    BY <1>0, <2>1, <2>2
  <2>3. CASE made' = [made EXCEPT ![t] = @ + 1] /\ UNCHANGED at
    <3>1. Move(t)
      BY <1>0, <2>1, <2>3 DEF L
    <3>2. \A s \in Switches \ {t} : Move(s)
      BY <1>0, <2>1, <2>3
    <3> QED
      BY <1>0, <2>1, <2>3, <3>1, <3>2
  <2> QED
    BY <2>1, <2>2, <2>3
<1>3. ASSUME NEW t \in Switches, MadeAll(t) PROVE Moves
  BY <1>0, <1>3 DEF MadeAll, AfterMaking
<1>4. ASSUME NEW t \in Switches, OpenReceiveFIFO(t) PROVE Moves
  BY <1>0, <1>4 DEF OpenReceiveFIFO
<1>5. ASSUME NEW t \in Switches, OpenTrafficFile(t) \/ Connect(t) PROVE Moves
  BY <1>0, <1>5 DEF OpenTrafficFile, Connect
<1>6. ASSUME NEW t \in Switches, SendOPEN(t) PROVE Moves
  BY <1>0, <1>6 DEF SendOPEN
<1>7. ASSUME NEW t \in Switches, RespondOPEN(t) PROVE Moves
  BY <1>0, <1>7 DEF RespondOPEN, Lookup, Processes
<1>8. ASSUME NEW p \in Processes, GetSignalFD(p) PROVE Moves
  BY <1>0, <1>8 DEF GetSignalFD
<1>9. ASSUME MainController \/ Bind \/ VisitIdle \/ PollFails PROVE Moves
  BY <1>0, <1>9 DEF MainController, Bind, VisitIdle, PollFails, Processes
<1>10. CASE UNCHANGED vars
  BY <1>10 DEF vars
<1> QED
  BY <1>1, <1>2, <1>3, <1>4, <1>5, <1>6, <1>7, <1>8, <1>9, <1>10 DEF Next, StartSwitch

LEMMA NextToldInv ==
  ASSUME ToldInv, [Next]_vars
  PROVE  ToldInv'
<1>1. Moves
  BY NextMoves
<1>2. \A s \in Switches :
        /\ Id(s)' = Id(s) /\ ToMake(s)' = ToMake(s) /\ NeighbourIds(s)' = NeighbourIds(s)
        /\ LegalSwitch(args[s])' = LegalSwitch(args[s])
  BY <1>1, SameLine DEF Moves
<1>3. Legal'
  <2> SUFFICES ASSUME NEW s \in Switches, at'[s] \in Past \/ s \in told'
               PROVE  LegalSwitch(args[s])'
    BY DEF Legal
  <2>1. Move(s) /\ ("tell" \in Past)
    BY <1>1 DEF Moves, Past
  <2>2. LegalSwitch(args[s])
    BY <2>1 DEF Move, ToldInv, Legal
  <2> QED
    BY <2>2, <1>2
<1>4. Making'
  <2> SUFFICES ASSUME NEW s \in Switches
               PROVE  /\ made'[s] \in 0 .. Len(ToMake(s))
                      /\ \A i \in 1 .. made'[s] : ToMake(s)[i] \in pipes'
                      /\ at'[s] \in Opened \cup {"open"} \/ s \in told' =>
                           made'[s] = Len(ToMake(s))
    BY <1>2, Zenon DEF Making
  <2> DEFINE L == Len(ToMake(s))
  <2>1. Move(s) /\ pipes \subseteq pipes' /\ made[s] \in Nat
    BY <1>1 DEF Moves, ToldInv
  <2>2. /\ made[s] \in 0 .. L
        /\ \A i \in 1 .. made[s] : ToMake(s)[i] \in pipes
        /\ at[s] \in Opened \cup {"open"} \/ s \in told => made[s] = L
    BY DEF ToldInv, Making
  <2>3. L \in Nat
    BY ToMakeLen
  <2> HIDE DEF L
  <2>4. CASE made'[s] = made[s]
    BY <2>1, <2>2, <2>4 DEF Move, Opened, L
  <2>5. CASE /\ at[s] = "pipes" /\ at'[s] = "pipes"
             /\ made'[s] = made[s] + 1 /\ made[s] < L
             /\ ToMake(s)[made[s] + 1] \in pipes'
    <3>1. s \notin told /\ s \notin told'
      BY <2>1, <2>2, <2>3, <2>5 DEF Move
    <3>2. made'[s] \in 0 .. L
      BY <2>1, <2>3, <2>5
    <3>3. \A i \in 1 .. made'[s] : i \in 1 .. made[s] \/ i = made[s] + 1
      BY <2>1, <2>5
    <3> QED
      BY <2>1, <2>2, <2>5, <3>1, <3>2, <3>3 DEF Opened, L
  <2> QED
    BY <2>1, <2>4, <2>5 DEF Move, L
<1>5. Reading'
  <2> SUFFICES ASSUME NEW s \in Switches, at'[s] \in Opened \/ s \in told',
                      NEW n \in NeighbourIds(s)
               PROVE  <<n, Id(s)>> \in reading'[s]
    BY <1>2, Zenon DEF Reading
  <2>1. Move(s) /\ "tell" \in Opened
    BY <1>1 DEF Moves, Opened
  <2> QED
    BY <2>1 DEF Move, ToldInv, Reading
<1>6. \A s \in Switches : args'[s] \in SwitchLine
  BY <1>1 DEF Moves, ToldInv
<1> QED
  BY <1>1, <1>3, <1>4, <1>5, <1>6 DEF Moves, ToldInv

(***************************************************************************)
(* A switch whose OPEN is sent holds the pipes from its neighbours open    *)
(* for reading, and both pipes of each neighbour exist (start and the      *)
(* constructor of Connection).                                             *)
(***************************************************************************)
THEOREM OpenPipes == Spec => []ReadersBeforeOpen
<1>1. ToldInv => ReadersBeforeOpen
  <2> SUFFICES ASSUME ToldInv, NEW s \in told, NEW n \in NeighbourIds(s)
               PROVE  /\ <<n, Id(s)>> \in reading[s]
                      /\ <<n, Id(s)>> \in pipes /\ <<Id(s), n>> \in pipes
    BY DEF ReadersBeforeOpen
  <2>1. s \in Switches
    BY DEF ToldInv
  <2>2. <<n, Id(s)>> \in reading[s]
    BY <2>1 DEF ToldInv, Reading
  <2>3. \A i \in 1 .. Len(ToMake(s)) : ToMake(s)[i] \in pipes
    BY <2>1 DEF ToldInv, Making
  <2>4. \A x \in {<<n, Id(s)>>, <<Id(s), n>>} : x \in pipes
    BY <2>1, <2>3, ToMakeHas
  <2> QED
    BY <2>2, <2>4
<1>2. ToldInv /\ [Next]_vars => ToldInv'
  BY NextToldInv
<1> QED
  BY <1>1, <1>2, InitToldInv, PTL DEF Spec

(* The number of a switch id that its constructor accepts.                 *)
LEMMA IdsLegal ==
  ASSUME NEW t \in SwitchText, ValidSwitchID(t)
  PROVE  SwitchIDNum(t) \in Ids
<1>1. PICK n \in Int : n = t.num
  BY DEF SwitchText
<1>2. CASE t.form = "null"
  BY <1>2 DEF SwitchIDNum, Ids, NULL_SWITCH_ID_NUM, MAX_SWITCHES
<1>3. CASE t.form # "null"
  <2>1. MIN_SWITCHES <= n /\ n <= MAX_SWITCHES /\ SwitchIDNum(t) = n
    BY <1>1, <1>3 DEF ValidSwitchID, SwitchIDNum
  <2> QED BY <2>1 DEF Ids, MIN_SWITCHES, MAX_SWITCHES
<1> QED BY <1>2, <1>3

-----------------------------------------------------------------------------
(* The pipes there are and those that are open have numbers of switches,   *)
(* and the controller only handles what it was sent.                       *)
PipesInv ==
  /\ pipes \in SUBSET Pipes
  /\ reading \in [Switches -> SUBSET Pipes]
  /\ heard \in SUBSET told

LEMMA NeighboursLegal ==
  ASSUME ToldInv, NEW s \in Switches, at[s] \in Past
  PROVE  Id(s) \in Ids /\ LeftId(s) \in Ids /\ RightId(s) \in Ids
<1>1. args[s] \in SwitchLine /\ LegalSwitch(args[s])
  BY DEF ToldInv, Legal
<1>2. args[s].id \in SwitchText /\ args[s].left \in SwitchText /\ args[s].right \in SwitchText
  BY <1>1 DEF SwitchLine
<1>3. ValidSwitchID(args[s].id) /\ ValidSwitchID(args[s].left) /\ ValidSwitchID(args[s].right)
  BY <1>1 DEF LegalSwitch
<1> QED BY <1>2, <1>3, IdsLegal, Zenon DEF Id, LeftId, RightId

(* A switch makes at most two pipes for each of two neighbours.            *)
LEMMA FourPipes ==
  ASSUME NEW s, NEW T, <<Id(s), LeftId(s)>> \in T, <<LeftId(s), Id(s)>> \in T,
         <<Id(s), RightId(s)>> \in T, <<RightId(s), Id(s)>> \in T
  PROVE  ToMake(s) \in Seq(T) /\ Len(ToMake(s)) <= 4
<1> DEFINE A == IF LeftId(s) = NULL_SWITCH_ID_NUM THEN <<>> ELSE FIFONames(Id(s), LeftId(s))
           B == IF RightId(s) = NULL_SWITCH_ID_NUM THEN <<>> ELSE FIFONames(Id(s), RightId(s))
<1>1. FIFONames(Id(s), LeftId(s)) \in Seq(T) /\ FIFONames(Id(s), RightId(s)) \in Seq(T)
  BY FIFONamesSeq
<1>2. Len(FIFONames(Id(s), LeftId(s))) = 2 /\ Len(FIFONames(Id(s), RightId(s))) = 2
  BY DEF FIFONames
<1>3. A \in Seq(T) /\ B \in Seq(T) /\ Len(A) \in {0, 2} /\ Len(B) \in {0, 2}
  BY <1>1, <1>2
<1>4. ToMake(s) = A \o B
  BY DEF ToMake
<1> HIDE DEF A, B
<1>5. ToMake(s) \in Seq(T) /\ Len(ToMake(s)) = Len(A) + Len(B)
  BY <1>3, <1>4, ConcatProperties
<1>6. \A x, y \in {0, 2} : x + y <= 4
  OBVIOUS
<1>7. Len(A) + Len(B) <= 4
  BY <1>3, <1>6, Zenon
<1> QED BY <1>5, <1>7, Zenon

LEMMA InitPipesInv == Init => PipesInv
BY LeftoverAssumption DEF Init, PipesInv

LEMMA NextPipesInv ==
  ASSUME ToldInv, PipesInv, [Next]_vars
  PROVE  PipesInv'
<1>1. ASSUME NEW s \in Switches, MakeFIFO(s) PROVE PipesInv'
  <2>1. /\ at[s] = "pipes" /\ made[s] < Len(ToMake(s))
        /\ pipes' = pipes \cup {ToMake(s)[made[s] + 1]} /\ UNCHANGED <<reading, told, heard>>
    BY <1>1 DEF MakeFIFO, At
  <2>2. Id(s) \in Ids /\ LeftId(s) \in Ids /\ RightId(s) \in Ids
    BY <2>1, NeighboursLegal DEF Past
  <2>3. ToMake(s) \in Seq(Pipes)
    BY <2>2, FourPipes DEF Pipes
  <2>4. made[s] + 1 \in 1 .. Len(ToMake(s))
    BY <2>1, <2>3 DEF ToldInv
  <2> QED BY <2>1, <2>3, <2>4 DEF PipesInv
<1>2. ASSUME NEW s \in Switches, OpenReceiveFIFO(s) PROVE PipesInv'
  <2>1. at[s] = "open" /\ UNCHANGED <<pipes, told, heard>>
    BY <1>2 DEF OpenReceiveFIFO, At
  <2>2. Id(s) \in Ids /\ LeftId(s) \in Ids /\ RightId(s) \in Ids
    BY <2>1, NeighboursLegal DEF Past
  <2>3. {<<n, Id(s)>> : n \in NeighbourIds(s)} \subseteq Pipes
    BY <2>2 DEF NeighbourIds, Pipes
  <2>4. \/ reading' = reading
        \/ reading' = [reading EXCEPT ![s] = {<<n, Id(s)>> : n \in NeighbourIds(s)}]
    BY <1>2 DEF OpenReceiveFIFO
  <2> QED BY <2>1, <2>3, <2>4 DEF PipesInv
<1>3. ASSUME NEW s \in Switches,
             MainSwitch(s) \/ MadeAll(s) \/ OpenTrafficFile(s) \/ Connect(s) \/ SendOPEN(s)
      PROVE  PipesInv'
  BY <1>3 DEF PipesInv, MainSwitch, MadeAll, OpenTrafficFile, Connect, SendOPEN
<1>4. ASSUME NEW s \in Switches, RespondOPEN(s) PROVE PipesInv'
  BY <1>4 DEF PipesInv, RespondOPEN
<1>5. ASSUME NEW p \in Processes, GetSignalFD(p) PROVE PipesInv'
  BY <1>5 DEF PipesInv, GetSignalFD
<1>6. ASSUME MainController \/ Bind \/ VisitIdle \/ PollFails PROVE PipesInv'
  BY <1>6 DEF PipesInv, MainController, Bind, VisitIdle, PollFails
<1>7. CASE UNCHANGED vars
  BY <1>7 DEF PipesInv, vars
<1> QED BY <1>1, <1>2, <1>3, <1>4, <1>5, <1>6, <1>7 DEF Next, StartSwitch

(***************************************************************************)
(* Every variable of a starting process keeps its type: no pipe is made or *)
(* opened whose name is not of two switch numbers, a switch makes four at  *)
(* most, and no test leaves an EEXIST behind.                              *)
(***************************************************************************)
THEOREM StartTypes == Spec => []TypeOK
<1>1. StartInv /\ ToldInv /\ PipesInv => TypeOK
  <2>1. SUFFICES ASSUME StartInv, ToldInv, PipesInv PROVE TypeOK
    OBVIOUS
  <2>2. made \in [Switches -> 0 .. 4]
    <3>1. SUFFICES ASSUME NEW s \in Switches PROVE made[s] \in 0 .. 4
      BY <2>1 DEF ToldInv
    <3>2. made[s] \in 0 .. Len(ToMake(s)) /\ made[s] \in Nat
      BY <2>1 DEF ToldInv, Making
    <3>3. Len(ToMake(s)) \in Nat /\ Len(ToMake(s)) <= 4
      <4> DEFINE T == {<<Id(s), LeftId(s)>>, <<LeftId(s), Id(s)>>,
                       <<Id(s), RightId(s)>>, <<RightId(s), Id(s)>>}
      <4>1. /\ <<Id(s), LeftId(s)>> \in T /\ <<LeftId(s), Id(s)>> \in T
            /\ <<Id(s), RightId(s)>> \in T /\ <<RightId(s), Id(s)>> \in T
        OBVIOUS
      <4> HIDE DEF T
      <4> QED BY <4>1, FourPipes, ToMakeLen
    <3> QED BY <3>2, <3>3
  <2> QED BY <2>1, <2>2 DEF StartInv, ToldInv, PipesInv, TypeOK
<1>2. ToldInv /\ PipesInv /\ [Next]_vars => ToldInv' /\ PipesInv'
  BY NextToldInv, NextPipesInv
<1> QED
  BY <1>1, <1>2, InitStartInv, NextStartInv, InitToldInv, InitPipesInv, PTL DEF Spec
=============================================================================
