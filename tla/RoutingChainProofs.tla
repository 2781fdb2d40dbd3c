------------------------- MODULE RoutingChainProofs -------------------------
(* makeFlowEntry on a chain: the search of the controller ends and its   *)
(* answer is the nearest server, for every chain, every set of ranges    *)
(* and whichever switches have sent their OPEN so far.                   *)
EXTENDS RoutingChain, RoutingProofs

USE DEF Null

(*************************************************************************)
(* The registry of a chain: an entry is that of a switch that never sent *)
(* an OPEN, or what the last OPEN of the switch said.                    *)
(*************************************************************************)
ChainRegistry(reg) ==
  /\ reg \in [Switches -> SwitchInfo]
  /\ \A s \in Switches :
       reg[s] = NotKnown \/ \E range \in IPRange : reg[s] = ChainInfo(s, range)

RegistryInvariant == ChainRegistry(registry)

LEMMA RegistryInvariantHolds == Spec => []RegistryInvariant
<1>1. NotKnown \in SwitchInfo
  BY DEF NotKnown, SwitchInfo
<1>2. ASSUME NEW s \in Switches, NEW range \in IPRange
      PROVE  ChainInfo(s, range) \in SwitchInfo
  BY SwitchesAssumption, MaxIPAssumption DEF ChainInfo, SwitchInfo, IPRange, MIN_IP
<1>3. Init => RegistryInvariant
  BY <1>1 DEF Init, RegistryInvariant, ChainRegistry
<1>4. RegistryInvariant /\ [Next]_registry => RegistryInvariant'
  <2>1. CASE UNCHANGED registry
    BY <2>1 DEF RegistryInvariant, ChainRegistry
  <2>2. ASSUME RegistryInvariant, NEW s \in Switches, Open(s)
        PROVE  RegistryInvariant'
    BY <1>2, <2>2 DEF Open, RegistryInvariant, ChainRegistry
  <2> QED BY <2>1, <2>2 DEF Next
<1> QED BY <1>3, <1>4, PTL DEF Spec

(*************************************************************************)
(* A search goes one way: d is -1 towards the left and 1 towards the     *)
(* right, and n is examined for n - d. Reaches: t lies ahead of n, t     *)
(* serves dst, and the controller knows every switch up to t.            *)
(*************************************************************************)
Directions == {-1, 1}

Reaches(reg, dst, n, d, t) ==
  /\ IF d = 1 THEN n <= t ELSE t <= n
  /\ Between(n, t) \subseteq Known(reg)
  /\ InRange(reg, t, dst)

(* One call on a chain: the neighbour the question came from is skipped, *)
(* so there is at most one other to go on to.                            *)
LEMMA ChainRound ==
  ASSUME NEW reg, ChainRegistry(reg), NEW dst, NEW d \in Directions,
         NEW n \in Switches, n - d \in Switches, NEW k \in 1 .. Fuel
  PROVE  Search(reg, dst)[k][<<n, n - d>>] =
           IF n \notin Known(reg) THEN Null
           ELSE IF InRange(reg, n, dst) THEN n
           ELSE IF n + d \in Switches THEN Search(reg, dst)[k - 1][<<n + d, n>>]
           ELSE Null
<1> DEFINE F == Search(reg, dst)[k - 1]
           Via(m) == IF Skipped(m, n - d) THEN Null ELSE F[<<m, n>>]
<1>1. Search(reg, dst)[k] = Round(reg, dst, F)
  BY SearchUnfolds
<1>2. <<n, n - d>> \in Pairs
  BY DEF Pairs
<1>3. Search(reg, dst)[k][<<n, n - d>>] =
        IF n \notin Known(reg) THEN Null
        ELSE IF InRange(reg, n, dst) THEN n
        ELSE IF Via(reg[n].left) # Null THEN Via(reg[n].left)
        ELSE Via(reg[n].right)
  BY <1>1, <1>2 DEF Round
<1>4. CASE n \notin Known(reg)
  BY <1>3, <1>4
<1>5. CASE n \in Known(reg)
  <2>1. PICK range \in IPRange : reg[n] = ChainInfo(n, range)
    BY <1>5 DEF ChainRegistry, Known
  <2>2. /\ reg[n].left = IF n - 1 \in Switches THEN n - 1 ELSE Null
        /\ reg[n].right = IF n + 1 \in Switches THEN n + 1 ELSE Null
    BY <2>1 DEF ChainInfo
  <2>3. n \in Nat /\ Null \notin Switches
    BY SwitchesAssumption
  <2>4. Skipped(Null, n - d)
    BY <2>3 DEF Skipped
  <2>5. CASE d = -1
    <3>1. n - d = n + 1 /\ n + d = n - 1 /\ n - 1 # n + 1
      BY <2>3, <2>5
    <3>2. Via(reg[n].right) = Null
      BY <2>2, <2>4, <3>1 DEF Skipped
    <3>3. Via(reg[n].left) = IF n + d \in Switches THEN F[<<n + d, n>>] ELSE Null
      BY <2>2, <2>4, <3>1 DEF Skipped
    <3> HIDE DEF Via, F
    <3>4. Search(reg, dst)[k][<<n, n - d>>] =
            IF InRange(reg, n, dst) THEN n ELSE Via(reg[n].left)
      BY <1>3, <1>5, <3>2
    <3> QED BY <1>5, <3>3, <3>4 DEF F
  <2>6. CASE d = 1
    <3>1. n - d = n - 1 /\ n + d = n + 1 /\ n - 1 # n + 1
      BY <2>3, <2>6
    <3>2. Via(reg[n].left) = Null
      BY <2>2, <2>4, <3>1 DEF Skipped
    <3>3. Via(reg[n].right) = IF n + d \in Switches THEN F[<<n + d, n>>] ELSE Null
      BY <2>2, <2>4, <3>1 DEF Skipped
    <3> HIDE DEF Via, F
    <3>4. Search(reg, dst)[k][<<n, n - d>>] =
            IF InRange(reg, n, dst) THEN n ELSE Via(reg[n].right)
      BY <1>3, <1>5, <3>2
    <3> QED BY <1>5, <3>3, <3>4 DEF F
  <2> QED BY <2>5, <2>6 DEF Directions
<1> QED BY <1>4, <1>5

(* A switch n that does not serve dst itself reaches what the next one   *)
(* reaches, n being added to the switches in between.                    *)
LEMMA ReachesNext ==
  ASSUME NEW reg, NEW dst, NEW d \in Directions, NEW n \in Switches, NEW t \in Switches
  PROVE  /\ Reaches(reg, dst, n, d, n) <=> n \in Known(reg) /\ InRange(reg, n, dst)
         /\ Reaches(reg, dst, n, d, t) => n \in Known(reg) /\ (t = n \/ n + d \in Switches)
         /\ t # n => (Reaches(reg, dst, n, d, t)
                        <=> n \in Known(reg) /\ Reaches(reg, dst, n + d, d, t))
         /\ Reaches(reg, dst, n + d, d, t) =>
              t # n /\ Between(n, t) = {n} \cup Between(n + d, t)
<1>1. n \in Nat /\ t \in Nat /\ Known(reg) \subseteq Switches
  BY SwitchesAssumption DEF Known
<1>2. Between(n, n) = {n}
  BY <1>1 DEF Between
<1>3. n \in Between(n, t)
  BY <1>1 DEF Between
<1>4. CASE d = 1
  <2>1. n < t => Between(n, t) = {n} \cup Between(n + 1, t)
    BY <1>1 DEF Between
  <2>2. n < t => n + 1 \in Between(n, t)
    BY <1>1 DEF Between
  <2>3. n < t <=> n + 1 <= t
    BY <1>1
  <2>4. n <= t /\ t # n <=> n < t
    BY <1>1
  <2> QED BY <1>1, <1>2, <1>3, <1>4, <2>1, <2>2, <2>3, <2>4 DEF Reaches
<1>5. CASE d = -1
  <2>1. t < n => Between(n, t) = {n} \cup Between(n - 1, t)
    BY <1>1 DEF Between
  <2>2. t < n => n - 1 \in Between(n, t)
    BY <1>1 DEF Between
  <2>3. t < n <=> t <= n - 1
    BY <1>1
  <2>4. t <= n /\ t # n <=> t < n
    BY <1>1
  <2>5. n + d = n - 1 /\ d # 1
    BY <1>1, <1>5
  <2> QED BY <1>1, <1>2, <1>3, <1>5, <2>1, <2>2, <2>3, <2>4, <2>5 DEF Reaches
<1> QED BY <1>4, <1>5 DEF Directions

(*************************************************************************)
(* What a search k calls deep says of n examined for n - d. Loops: there *)
(* are k switches in a row from n on. Null: no server can be reached. A  *)
(* switch: it is the first server, those in between known.               *)
(*************************************************************************)
Outcome(reg, dst, n, d, k, t) ==
  /\ t = Loops => IF d = 1 THEN n .. (n + k - 1) \subseteq Switches
                  ELSE (n - k + 1) .. n \subseteq Switches
  /\ t = Null => \A u \in Switches : ~Reaches(reg, dst, n, d, u)
  /\ t \notin {Loops, Null} =>
       /\ t \in Switches /\ Reaches(reg, dst, n, d, t)
       /\ \A u \in Switches :
            Reaches(reg, dst, n, d, u) => Between(n, t) \subseteq Between(n, u)

LEMMA OutcomeStep ==
  ASSUME NEW reg, NEW dst, NEW d \in Directions, NEW n \in Switches, NEW k \in Nat \ {0},
         NEW t, n \in Known(reg), ~InRange(reg, n, dst), n + d \in Switches,
         Outcome(reg, dst, n + d, d, k - 1, t)
  PROVE  Outcome(reg, dst, n, d, k, t)
<1> USE DEF Null, Loops
<1>1. n \in Nat /\ n + d \in Nat
  BY SwitchesAssumption
<1>2. CASE t = Loops
  <2>1. CASE d = 1
    <3>1. (n + d) .. (n + d + (k - 1) - 1) \subseteq Switches
      BY <1>2, <2>1 DEF Outcome
    <3>2. \A i \in n .. (n + k - 1) : i = n \/ i \in (n + d) .. (n + d + (k - 1) - 1)
      BY <1>1, <2>1
    <3> QED BY <1>2, <2>1, <3>1, <3>2 DEF Outcome
  <2>2. CASE d = -1
    <3>1. ((n + d) - (k - 1) + 1) .. (n + d) \subseteq Switches
      BY <1>2, <2>2 DEF Outcome
    <3>2. \A i \in (n - k + 1) .. n : i = n \/ i \in ((n + d) - (k - 1) + 1) .. (n + d)
      BY <1>1, <2>2
    <3> QED BY <1>2, <2>2, <3>1, <3>2 DEF Outcome
  <2> QED BY <2>1, <2>2 DEF Directions
<1>3. ASSUME NEW u \in Switches, Reaches(reg, dst, n, d, u)
      PROVE  u # n /\ Reaches(reg, dst, n + d, d, u)
  <2>1. u # n
    <3>1. ~Reaches(reg, dst, n, d, n)
      BY ReachesNext
    <3> QED BY <1>3, <3>1
  <2> QED BY <1>3, <2>1, ReachesNext
<1>4. CASE t = Null
  BY <1>3, <1>4 DEF Outcome
<1>5. CASE t \notin {Loops, Null}
  <2>1. t \in Switches /\ Reaches(reg, dst, n + d, d, t)
    BY <1>5 DEF Outcome
  <2>2. Reaches(reg, dst, n, d, t) /\ Between(n, t) = {n} \cup Between(n + d, t)
    BY <2>1, ReachesNext
  <2>3. ASSUME NEW u \in Switches, Reaches(reg, dst, n, d, u)
        PROVE  Between(n, t) \subseteq Between(n, u)
    <3>1. Reaches(reg, dst, n + d, d, u)
      BY <1>3, <2>3
    <3>2. Between(n + d, t) \subseteq Between(n + d, u)
      BY <1>5, <3>1 DEF Outcome
    <3>3. Between(n, u) = {n} \cup Between(n + d, u)
      BY <3>1, ReachesNext
    <3> QED BY <2>2, <3>2, <3>3
  <2> QED BY <1>5, <2>1, <2>2, <2>3 DEF Outcome
<1> QED BY <1>2, <1>4, <1>5

LEMMA SearchOutcome ==
  ASSUME NEW reg, ChainRegistry(reg), NEW dst, NEW d \in Directions, NEW k \in 0 .. Fuel,
         NEW n \in Switches, n - d \in Switches
  PROVE  Outcome(reg, dst, n, d, k, Search(reg, dst)[k][<<n, n - d>>])
<1> USE DEF Null, Loops
<1> DEFINE S == Search(reg, dst)
           Holds(i, m) == m - d \in Switches => Outcome(reg, dst, m, d, i, S[i][<<m, m - d>>])
           T == {i \in 0 .. Fuel : ~ \A m \in Switches : Holds(i, m)}
<1>1. ASSUME T # {} PROVE FALSE
  <2>1. PICK x \in T : \A y \in T : x <= y
    <3>1. T \in SUBSET Nat
      OBVIOUS
    <3> HIDE DEF T
    <3> QED BY <1>1, <3>1, LeastNatural
  <2>2. ASSUME x = 0, NEW m \in Switches, m - d \in Switches
        PROVE  Outcome(reg, dst, m, d, x, S[x][<<m, m - d>>])
    <3>1. S[x][<<m, m - d>>] = Loops
      BY <2>2, SearchUnfolds DEF Pairs
    <3>2. m \in Nat
      BY SwitchesAssumption
    <3>3. m .. (m + x - 1) = {} /\ (m - x + 1) .. m = {}
      BY <2>2, <3>2
    <3> QED BY <3>1, <3>3 DEF Outcome
  <2>3. ASSUME x # 0, NEW m \in Switches, m - d \in Switches
        PROVE  Outcome(reg, dst, m, d, x, S[x][<<m, m - d>>])
    <3>1. /\ x \in 1 .. Fuel /\ x \in Nat \ {0} /\ x - 1 \in 0 .. Fuel /\ ~(x <= x - 1)
      BY <2>3, FuelType
    <3>2. m \in Nat /\ Known(reg) \subseteq Switches /\ -1 \notin Switches /\ 0 \notin Switches
      BY SwitchesAssumption DEF Known
    <3>3. S[x][<<m, m - d>>] =
            IF m \notin Known(reg) THEN Null
            ELSE IF InRange(reg, m, dst) THEN m
            ELSE IF m + d \in Switches THEN S[x - 1][<<m + d, m>>]
            ELSE Null
      BY <2>3, <3>1, ChainRound
    <3>4. CASE m \notin Known(reg)
      <4>1. S[x][<<m, m - d>>] = Null
        BY <3>3, <3>4
      <4>2. ASSUME NEW u \in Switches PROVE ~Reaches(reg, dst, m, d, u)
        BY <3>4, ReachesNext
      <4> HIDE DEF S
      <4> QED BY <4>1, <4>2 DEF Outcome
    <3>5. CASE m \in Known(reg) /\ InRange(reg, m, dst)
      <4>1. Between(m, m) = {m}
        BY <3>2 DEF Between
      <4>2. \A u \in Switches : m \in Between(m, u)
        BY <3>2, SwitchesAssumption DEF Between
      <4>3. Reaches(reg, dst, m, d, m)
        BY <3>5, ReachesNext
      <4>4. S[x][<<m, m - d>>] = m
        BY <3>3, <3>5
      <4> QED BY <3>2, <4>1, <4>2, <4>3, <4>4 DEF Outcome
    <3>6. CASE m \in Known(reg) /\ ~InRange(reg, m, dst) /\ m + d \in Switches
      <4>1. \A j \in Switches : Holds(x - 1, j)
        BY <2>1, <3>1
      <4>2. m + d - d = m
        BY <3>2 DEF Directions
      <4>3. Outcome(reg, dst, m + d, d, x - 1, S[x - 1][<<m + d, m>>])
        <5> HIDE DEF S
        <5>1. PICK j \in Switches : j = m + d
          BY <3>6
        <5>2. j - d = m
          BY <3>2, <5>1 DEF Directions
        <5>3. Outcome(reg, dst, j, d, x - 1, S[x - 1][<<j, j - d>>])
          BY <4>1, <5>2
        <5> QED BY <5>1, <5>2, <5>3
      <4>4. S[x][<<m, m - d>>] = S[x - 1][<<m + d, m>>]
        BY <3>3, <3>6
      <4> HIDE DEF S
      <4> QED BY <3>1, <3>6, <4>3, <4>4, OutcomeStep
    <3>7. CASE m \in Known(reg) /\ ~InRange(reg, m, dst) /\ m + d \notin Switches
      <4>1. S[x][<<m, m - d>>] = Null
        BY <3>3, <3>7
      <4>2. ASSUME NEW u \in Switches, Reaches(reg, dst, m, d, u) PROVE FALSE
        <5>1. u = m
          <6>1. Reaches(reg, dst, m, d, u) =>
                  m \in Known(reg) /\ (u = m \/ m + d \in Switches)
            BY ReachesNext
          <6> QED BY <3>7, <4>2, <6>1
        <5>2. ~Reaches(reg, dst, m, d, m)
          BY <3>7, ReachesNext
        <5> QED BY <4>2, <5>1, <5>2
      <4> HIDE DEF S
      <4> QED BY <4>1, <4>2 DEF Outcome
    <3> QED BY <3>4, <3>5, <3>6, <3>7
  <2> HIDE DEF S
  <2> QED BY <2>1, <2>2, <2>3
<1> QED BY <1>1

-----------------------------------------------------------------------------
(* A chain has fewer switches than a search may be calls deep.           *)
LEMMA NoLongChain ==
  ASSUME NEW a \in Int, a .. (a + Fuel) \subseteq Switches
  PROVE  FALSE
<1>1. PICK c \in Nat : c = Cardinality(Switches)
  BY SwitchesAssumption, FS_CardinalityType
<1>2. Fuel \in Nat /\ Fuel = c * c
  BY <1>1, FuelType DEF Fuel
<1>3. Cardinality(a .. (a + Fuel)) = Fuel + 1
  <2>1. a + Fuel \in Int /\ a <= a + Fuel /\ (a + Fuel) - a + 1 = Fuel + 1
    BY <1>2
  <2> QED BY <2>1, FS_Interval
<1>4. Cardinality(a .. (a + Fuel)) <= c
  BY <1>1, SwitchesAssumption, FS_Subset
<1>5. c * c + 1 > c
  <2>1. CASE c = 0
    BY <2>1
  <2>2. CASE c >= 1
    <3>1. c * c >= c
      BY <2>2
    <3> QED BY <3>1
  <2> QED BY <2>1, <2>2
<1> QED BY <1>2, <1>3, <1>4, <1>5

(* The neighbour of s on side d, as its OPEN named it.                   *)
Side(reg, s, d) == IF d = 1 THEN reg[s].right ELSE reg[s].left

LEMMA SideOnChain ==
  ASSUME NEW reg, ChainRegistry(reg), NEW d \in Directions, NEW s \in Known(reg)
  PROVE  Side(reg, s, d) = IF s + d \in Switches THEN s + d ELSE Null
<1>1. s \in Switches /\ s \in Nat
  BY SwitchesAssumption DEF Known
<1>2. PICK range \in IPRange : reg[s] = ChainInfo(s, range)
  BY <1>1 DEF ChainRegistry, Known
<1>3. /\ reg[s].left = IF s - 1 \in Switches THEN s - 1 ELSE Null
      /\ reg[s].right = IF s + 1 \in Switches THEN s + 1 ELSE Null
  BY <1>2 DEF ChainInfo
<1>4. CASE d = 1
  BY <1>3, <1>4 DEF Side
<1>5. CASE d = -1
  <2>1. s + d = s - 1 /\ d # 1
    BY <1>1, <1>5
  <2> QED BY <1>3, <2>1 DEF Side
<1> QED BY <1>4, <1>5 DEF Directions

(*************************************************************************)
(* What the asking switch learns from the search on one side: never that *)
(* it does not end, and else the first server there, or that no server   *)
(* can be reached.                                                       *)
(*************************************************************************)
LEMMA ServerOutcome ==
  ASSUME NEW reg, ChainRegistry(reg), NEW dst, NEW d \in Directions, NEW s \in Known(reg),
         NEW t, t = Server(reg, s, Side(reg, s, d), dst)
  PROVE  /\ t # Loops
         /\ t = Null => \A u \in Switches : ~Reaches(reg, dst, s + d, d, u)
         /\ t # Null =>
              /\ t \in Switches /\ Reaches(reg, dst, s + d, d, t)
              /\ \A u \in Switches : Reaches(reg, dst, s + d, d, u) =>
                                      Between(s + d, t) \subseteq Between(s + d, u)
<1> USE DEF Null, Loops
<1>1. s \in Switches /\ s \in Nat /\ Known(reg) \subseteq Switches /\ Null \notin Switches
  BY SwitchesAssumption DEF Known
<1>2. Side(reg, s, d) = IF s + d \in Switches THEN s + d ELSE Null
  BY SideOnChain
<1>3. CASE s + d \notin Switches
  <2>1. t = Null
    BY <1>1, <1>2, <1>3 DEF Server, Skipped
  <2>2. ASSUME NEW u \in Switches, Reaches(reg, dst, s + d, d, u) PROVE FALSE
    <3>1. u \in Nat
      BY SwitchesAssumption
    <3>2. s + d \in Between(s + d, u)
      BY <1>1, <2>2, <3>1 DEF Reaches, Between, Directions
    <3> QED BY <1>1, <1>3, <2>2, <3>2 DEF Reaches
  <2> QED BY <2>1, <2>2
<1>4. CASE s + d \in Switches
  <2>1. PICK n \in Switches : n = s + d
    BY <1>4
  <2>2. n - d = s /\ n # s
    BY <1>1, <2>1 DEF Directions
  <2>3. t = Search(reg, dst)[Fuel][<<n, n - d>>]
    BY <1>1, <1>2, <2>1, <2>2 DEF Server, Skipped, Found
  <2>4. Fuel \in 0 .. Fuel
    BY FuelType
  <2>5. Outcome(reg, dst, n, d, Fuel, t)
    BY <1>1, <2>2, <2>3, <2>4, SearchOutcome
  <2>6. ASSUME t = Loops PROVE FALSE
    <3>1. CASE d = 1
      <4>1. n .. (n + Fuel - 1) \subseteq Switches
        BY <2>5, <2>6, <3>1 DEF Outcome
      <4>2. \A i \in s .. (s + Fuel) : i = s \/ i \in n .. (n + Fuel - 1)
        BY <1>1, <2>1, <3>1, FuelType
      <4> QED BY <1>1, <4>1, <4>2, NoLongChain
    <3>2. CASE d = -1
      <4>1. (n - Fuel + 1) .. n \subseteq Switches
        BY <2>5, <2>6, <3>2 DEF Outcome
      <4>2. PICK a \in Int : a = s - Fuel
        BY <1>1, FuelType
      <4>3. \A i \in a .. (a + Fuel) : i = s \/ i \in (n - Fuel + 1) .. n
        BY <1>1, <2>1, <3>2, <4>2, FuelType
      <4> QED BY <1>1, <4>1, <4>3, NoLongChain
    <3> QED BY <3>1, <3>2 DEF Directions
  <2> QED BY <2>1, <2>5, <2>6 DEF Outcome
<1> QED BY <1>3, <1>4

(* The two sides by the names of the source.                             *)
LEMMA BothSides ==
  ASSUME NEW reg, NEW s, NEW dst
  PROVE  /\ LeftServer(reg, s, dst) = Server(reg, s, Side(reg, s, -1), dst)
         /\ RightServer(reg, s, dst) = Server(reg, s, Side(reg, s, 1), dst)
BY DEF LeftServer, RightServer, Side

(*************************************************************************)
(* On a chain the search for a destination returns, whatever OPEN the    *)
(* controller has seen: makeFlowEntry does not recurse for ever.         *)
(*************************************************************************)
THEOREM SearchEndsHolds == Spec => []SearchEnds
<1>1. RegistryInvariant => SearchEnds
  <2>1. SUFFICES ASSUME RegistryInvariant, NEW s \in Switches, NEW p \in Packets,
                        SearchLoops(registry, s, p)
                 PROVE  FALSE
    BY DEF SearchEnds
  <2>2. s \in Known(registry)
    BY <2>1 DEF SearchLoops, LooksAround
  <2>3. LeftServer(registry, s, p.dst) # Loops /\ RightServer(registry, s, p.dst) # Loops
    BY <2>1, <2>2, BothSides, ServerOutcome DEF RegistryInvariant, Directions
  <2> QED BY <2>1, <2>3 DEF SearchLoops
<1> QED BY <1>1, RegistryInvariantHolds, PTL

(*************************************************************************)
(* For every registry, one of a ring too: the rule sent for a packet     *)
(* matches it. The range copied from the server that was found holds the *)
(* destination, and the other rules are made for it.                     *)
(*************************************************************************)
THEOREM AnswerResolvesHolds == Spec => []AnswerResolves
<1> USE DEF Null, Loops, MIN_IP
<1>1. ASSUME NEW s \in Switches, NEW p \in Packets
      PROVE  p.src <= MAX_IP <=> Matches(MakeFlowEntry(registry, s, p), p)
  <2>1. p.src \in Nat /\ p.dst \in Nat
    BY <1>1, MaxIPAssumption DEF Packets
  <2>2. Null \notin Switches /\ Loops \notin Switches /\ Known(registry) \subseteq Switches
    BY SwitchesAssumption DEF Known
  <2>3. ASSUME NEW n, Server(registry, s, n, p.dst) \in Known(registry)
        PROVE  InRange(registry, Server(registry, s, n, p.dst), p.dst)
    <3>1. ~Skipped(n, s)
      BY <2>2, <2>3 DEF Server
    <3>2. /\ Server(registry, s, n, p.dst) = Search(registry, p.dst)[Fuel][<<n, s>>]
          /\ <<n, s>> \in Pairs
      BY <3>1 DEF Server, Found, Pairs, Skipped
    <3>3. Fuel \in 0 .. Fuel
      BY FuelType
    <3> QED BY <2>2, <2>3, <3>2, <3>3, FoundServes
  <2>4. CASE p.src > MAX_IP
    <3>1. ~(p.src <= MAX_IP)
      BY <2>1, <2>4, MaxIPAssumption
    <3> QED BY <3>1 DEF Matches
  <2>5. CASE p.src <= MAX_IP
    <3>1. ~(p.src > MAX_IP) /\ MIN_IP <= p.src /\ p.dst <= p.dst
      BY <2>1, <2>5, MaxIPAssumption
    <3>2. CASE s \notin Known(registry)
      BY <2>5, <3>1, <3>2 DEF MakeFlowEntry, DropRule, NewRule, Matches
    <3>3. CASE s \in Known(registry) /\ InRange(registry, s, p.dst)
      BY <2>5, <3>1, <3>3 DEF MakeFlowEntry, DeliverRule, NewRule, Matches
    <3>4. CASE s \in Known(registry) /\ ~InRange(registry, s, p.dst)
      <4> DEFINE left == LeftServer(registry, s, p.dst)
                 right == RightServer(registry, s, p.dst)
      <4>1. /\ left \in Known(registry) => InRange(registry, left, p.dst)
            /\ right \in Known(registry) => InRange(registry, right, p.dst)
        BY <2>3 DEF LeftServer, RightServer
      <4>2. MakeFlowEntry(registry, s, p) =
              IF left \in Known(registry) THEN ForwardRule(PORT_1, registry[left])
              ELSE IF right \in Known(registry) THEN ForwardRule(PORT_2, registry[right])
              ELSE DropRule(p.dst)
        BY <3>1, <3>4 DEF MakeFlowEntry
      <4> HIDE DEF left, right
      <4>3. CASE left \in Known(registry)
        BY <2>5, <3>1, <4>1, <4>2, <4>3 DEF ForwardRule, NewRule, Matches, InRange
      <4>4. CASE left \notin Known(registry) /\ right \in Known(registry)
        BY <2>5, <3>1, <4>1, <4>2, <4>4 DEF ForwardRule, NewRule, Matches, InRange
      <4>5. CASE left \notin Known(registry) /\ right \notin Known(registry)
        BY <2>5, <3>1, <4>2, <4>5 DEF DropRule, NewRule, Matches
      <4> QED BY <4>3, <4>4, <4>5
    <3> QED BY <3>2, <3>3, <3>4
  <2> QED BY <2>1, <2>4, <2>5, MaxIPAssumption
<1>2. AnswerResolves
  BY <1>1 DEF AnswerResolves
<1> QED BY <1>2, PTL

(*************************************************************************)
(* The answer of the controller for a known switch, a valid source and a *)
(* destination elsewhere, in terms of the two searches.                  *)
(*************************************************************************)
LEMMA AnswerElsewhere ==
  ASSUME NEW reg, ChainRegistry(reg), NEW s \in Known(reg), NEW p \in Packets,
         p.src <= MAX_IP, ~InRange(reg, s, p.dst),
         NEW left, left = LeftServer(reg, s, p.dst),
         NEW right, right = RightServer(reg, s, p.dst)
  PROVE  /\ left \in Known(reg) <=> left # Null
         /\ right \in Known(reg) <=> right # Null
         /\ MakeFlowEntry(reg, s, p) =
              IF left # Null THEN ForwardRule(PORT_1, reg[left])
              ELSE IF right # Null THEN ForwardRule(PORT_2, reg[right])
              ELSE DropRule(p.dst)
<1>1. s \in Nat /\ Known(reg) \subseteq Switches /\ Null \notin Known(reg)
  BY SwitchesAssumption DEF Known
<1>2. -1 \in Directions /\ 1 \in Directions
  BY DEF Directions
<1>3. ASSUME NEW d \in Directions, NEW t \in Switches, Reaches(reg, p.dst, s + d, d, t)
      PROVE  t \in Known(reg)
  <2>1. t \in Nat
    BY SwitchesAssumption
  <2>2. t \in Between(s + d, t)
    BY <1>1, <1>3, <2>1 DEF Reaches, Between, Directions
  <2> QED BY <1>3, <2>2 DEF Reaches
<1>4. left # Null => left \in Known(reg)
  <2>1. left = Server(reg, s, Side(reg, s, -1), p.dst)
    BY BothSides
  <2>2. left # Null => left \in Switches /\ Reaches(reg, p.dst, s + (-1), -1, left)
    BY <1>2, <2>1, ServerOutcome
  <2> QED BY <1>2, <1>3, <2>2
<1>5. right # Null => right \in Known(reg)
  <2>1. right = Server(reg, s, Side(reg, s, 1), p.dst)
    BY BothSides
  <2>2. right # Null => right \in Switches /\ Reaches(reg, p.dst, s + 1, 1, right)
    BY <1>2, <2>1, ServerOutcome
  <2> QED BY <1>2, <1>3, <2>2
<1>6. ~(p.src > MAX_IP)
  BY MaxIPAssumption DEF Packets
<1>7. MakeFlowEntry(reg, s, p) =
        IF left \in Known(reg) THEN ForwardRule(PORT_1, reg[left])
        ELSE IF right \in Known(reg) THEN ForwardRule(PORT_2, reg[right])
        ELSE DropRule(p.dst)
  BY <1>6 DEF MakeFlowEntry
<1> QED BY <1>1, <1>4, <1>5, <1>7

(* If s reaches a server on side d, so does the next switch on that side *)
(* unless it is the server itself; what s does not reach on the other    *)
(* side the next switch does not reach through s either.                 *)
LEMMA NextHop ==
  ASSUME NEW reg, ChainRegistry(reg), NEW dst, NEW d \in Directions, NEW s \in Known(reg),
         ~InRange(reg, s, dst), NEW t \in Switches, Reaches(reg, dst, s + d, d, t)
  PROVE  /\ s + d \in Known(reg)
         /\ Side(reg, s, d) = s + d
         /\ ~InRange(reg, s + d, dst) => Reaches(reg, dst, s + d + d, d, t)
         /\ (\A u \in Switches : ~Reaches(reg, dst, s + (-d), -d, u)) =>
              \A u \in Switches : ~Reaches(reg, dst, s + d + (-d), -d, u)
<1>1. s \in Nat /\ t \in Nat /\ Known(reg) \subseteq Switches /\ s \in Switches
  BY SwitchesAssumption DEF Known
<1>2. s + d \in Between(s + d, t)
  BY <1>1 DEF Reaches, Between, Directions
<1>3. PICK n \in Switches : n = s + d /\ n \in Known(reg)
  BY <1>1, <1>2 DEF Reaches
<1>4. Side(reg, s, d) = s + d
  BY <1>3, SideOnChain
<1>5. ASSUME ~InRange(reg, n, dst) PROVE Reaches(reg, dst, n + d, d, t)
  <2>1. Reaches(reg, dst, n, d, t)
    BY <1>3
  <2>2. t # n
    BY <1>5, <2>1 DEF Reaches
  <2> QED BY <2>1, <2>2, ReachesNext
<1>6. -d \in Directions /\ s + d + (-d) = s
  BY <1>1 DEF Directions
<1>7. PICK e \in Directions : e = -d
  BY <1>6
<1>8. ASSUME NEW u \in Switches, Reaches(reg, dst, s, e, u)
      PROVE  Reaches(reg, dst, s + e, e, u)
  <2>1. u # s
    BY <1>8 DEF Reaches
  <2> QED BY <1>1, <1>8, <2>1, ReachesNext
<1> QED BY <1>3, <1>4, <1>5, <1>6, <1>7, <1>8

(* What each of the two searches of a known switch says.                 *)
LEMMA SearchesReach ==
  ASSUME NEW reg, ChainRegistry(reg), NEW s \in Known(reg), NEW dst
  PROVE  /\ LeftServer(reg, s, dst) # Null <=>
              \E u \in Switches : Reaches(reg, dst, s + (-1), -1, u)
         /\ RightServer(reg, s, dst) # Null <=>
              \E u \in Switches : Reaches(reg, dst, s + 1, 1, u)
<1>1. -1 \in Directions /\ 1 \in Directions
  BY DEF Directions
<1>2. PICK left : left = LeftServer(reg, s, dst)
  OBVIOUS
<1>3. PICK right : right = RightServer(reg, s, dst)
  OBVIOUS
<1>4. left # Null <=> \E u \in Switches : Reaches(reg, dst, s + (-1), -1, u)
  <2>1. PICK d \in Directions : d = -1
    BY <1>1
  <2>2. left = Server(reg, s, Side(reg, s, d), dst)
    BY <1>2, <2>1, BothSides
  <2>3. left # Null => left \in Switches /\ Reaches(reg, dst, s + d, d, left)
    BY <2>2, ServerOutcome
  <2>4. left = Null => \A u \in Switches : ~Reaches(reg, dst, s + d, d, u)
    BY <2>2, ServerOutcome
  <2> QED BY <2>1, <2>3, <2>4
<1>5. right # Null <=> \E u \in Switches : Reaches(reg, dst, s + 1, 1, u)
  <2>1. right = Server(reg, s, Side(reg, s, 1), dst)
    BY <1>3, BothSides
  <2>2. right # Null => right \in Switches /\ Reaches(reg, dst, s + 1, 1, right)
    BY <1>1, <2>1, ServerOutcome
  <2>3. right = Null => \A u \in Switches : ~Reaches(reg, dst, s + 1, 1, u)
    BY <1>1, <2>1, ServerOutcome
  <2> QED BY <2>2, <2>3
<1> QED BY <1>2, <1>3, <1>4, <1>5

(*************************************************************************)
(* A switch told to forward to a neighbour gets the same story from it:  *)
(* asked about the same packet, the neighbour delivers it or forwards it *)
(* onwards, so with one registry no packet is sent back and forth.       *)
(*************************************************************************)
THEOREM HopsAgreeHolds == Spec => []HopsAgree
<1> USE DEF Null, PORT_0, PORT_1, PORT_2, PORT_3, DELIVER, FORWARD, DROP
<1>1. ASSUME RegistryInvariant, NEW s \in Switches, NEW p \in Packets,
             IsRelay(MakeFlowEntry(registry, s, p))
      PROVE  LET rule == MakeFlowEntry(registry, s, p)
                 next == IF rule.actionVal = PORT_1 THEN registry[s].left
                         ELSE registry[s].right
                 onwards == MakeFlowEntry(registry, next, p)
             IN IsLocal(onwards) \/ onwards.actionVal = rule.actionVal
  <2>1. ChainRegistry(registry)
    BY <1>1 DEF RegistryInvariant
  <2>2. s \in Known(registry) /\ ~InRange(registry, s, p.dst) /\ p.src <= MAX_IP
    BY <1>1, MaxIPAssumption
       DEF MakeFlowEntry, IsRelay, DropRule, DeliverRule, NewRule, Packets
  <2>3. PICK left : left = LeftServer(registry, s, p.dst)
    OBVIOUS
  <2>4. PICK right : right = RightServer(registry, s, p.dst)
    OBVIOUS
  <2>5. PICK rule : rule = MakeFlowEntry(registry, s, p)
    OBVIOUS
  <2>6. rule = IF left # Null THEN ForwardRule(PORT_1, registry[left])
               ELSE IF right # Null THEN ForwardRule(PORT_2, registry[right])
               ELSE DropRule(p.dst)
    BY <2>1, <2>2, <2>3, <2>4, <2>5, AnswerElsewhere
  <2>7. /\ left # Null <=> \E u \in Switches : Reaches(registry, p.dst, s + (-1), -1, u)
        /\ right # Null <=> \E u \in Switches : Reaches(registry, p.dst, s + 1, 1, u)
    BY <2>1, <2>2, <2>3, <2>4, SearchesReach
  <2>8. -1 \in Directions /\ 1 \in Directions /\ s \in Nat
    BY SwitchesAssumption DEF Directions
  <2>9. ASSUME NEW n \in Known(registry), InRange(registry, n, p.dst)
        PROVE  IsLocal(MakeFlowEntry(registry, n, p))
    <3>1. ~(p.src > MAX_IP)
      BY <2>2, MaxIPAssumption DEF Packets
    <3> QED BY <2>9, <3>1 DEF MakeFlowEntry, DeliverRule, NewRule, IsLocal
  <2>10. CASE left # Null
    <3>1. rule.actionVal = PORT_1
      BY <2>6, <2>10 DEF ForwardRule, NewRule
    <3>2. PICK t \in Switches : Reaches(registry, p.dst, s + (-1), -1, t)
      BY <2>7, <2>10
    <3>3. /\ s + (-1) \in Known(registry) /\ Side(registry, s, -1) = s + (-1)
          /\ ~InRange(registry, s + (-1), p.dst) =>
               Reaches(registry, p.dst, s + (-1) + (-1), -1, t)
      BY <2>1, <2>2, <2>8, <3>2, NextHop
    <3>4. PICK n \in Known(registry) : n = s + (-1)
      BY <3>3
    <3>5. registry[s].left = n
      BY <3>3, <3>4 DEF Side
    <3>6. CASE InRange(registry, n, p.dst)
      BY <2>5, <2>9, <3>1, <3>5, <3>6
    <3>7. CASE ~InRange(registry, n, p.dst)
      <4>1. LeftServer(registry, n, p.dst) # Null
        BY <2>1, <3>3, <3>4, <3>7, SearchesReach
      <4>2. MakeFlowEntry(registry, n, p) =
              ForwardRule(PORT_1, registry[LeftServer(registry, n, p.dst)])
        BY <2>1, <2>2, <3>7, <4>1, AnswerElsewhere
      <4>3. MakeFlowEntry(registry, n, p).actionVal = PORT_1
        BY <4>2 DEF ForwardRule, NewRule
      <4> QED BY <2>5, <3>1, <3>5, <4>3
    <3> QED BY <3>6, <3>7
  <2>11. CASE left = Null /\ right # Null
    <3>1. rule.actionVal = PORT_2
      BY <2>6, <2>11 DEF ForwardRule, NewRule
    <3>2. PICK t \in Switches : Reaches(registry, p.dst, s + 1, 1, t)
      BY <2>7, <2>11
    <3>3. /\ s + 1 \in Known(registry) /\ Side(registry, s, 1) = s + 1
          /\ ~InRange(registry, s + 1, p.dst) => Reaches(registry, p.dst, s + 1 + 1, 1, t)
          /\ \A u \in Switches : ~Reaches(registry, p.dst, s + 1 + (-1), -1, u)
      BY <2>1, <2>2, <2>7, <2>8, <2>11, <3>2, NextHop
    <3>4. PICK n \in Known(registry) : n = s + 1
      BY <3>3
    <3>5. registry[s].right = n
      BY <3>3, <3>4 DEF Side
    <3>6. CASE InRange(registry, n, p.dst)
      BY <2>5, <2>9, <3>1, <3>5, <3>6
    <3>7. CASE ~InRange(registry, n, p.dst)
      <4>1. RightServer(registry, n, p.dst) # Null /\ LeftServer(registry, n, p.dst) = Null
        BY <2>1, <3>3, <3>4, <3>7, SearchesReach
      <4>2. MakeFlowEntry(registry, n, p) =
              ForwardRule(PORT_2, registry[RightServer(registry, n, p.dst)])
        BY <2>1, <2>2, <3>7, <4>1, AnswerElsewhere
      <4>3. MakeFlowEntry(registry, n, p).actionVal = PORT_2
        BY <4>2 DEF ForwardRule, NewRule
      <4> QED BY <2>5, <3>1, <3>5, <4>3
    <3> QED BY <3>6, <3>7
  <2>12. ~(left = Null /\ right = Null)
    BY <1>1, <2>5, <2>6 DEF IsRelay, DropRule, NewRule
  <2> QED BY <2>10, <2>11, <2>12
<1>2. RegistryInvariant => HopsAgree
  BY <1>1 DEF HopsAgree
<1> QED BY <1>2, RegistryInvariantHolds, PTL

(* The candidates of the reference definition on one side are what the   *)
(* search of that side can reach.                                        *)
LEMMA CandidatesReached ==
  ASSUME NEW dst, NEW d \in Directions, NEW s \in Known(registry), NEW u \in Switches
  PROVE  u \in Candidates(s, dst) /\ (IF d = 1 THEN u > s ELSE u < s)
           <=> Reaches(registry, dst, s + d, d, u)
<1>1. s \in Nat /\ u \in Nat /\ s \in Switches /\ u \in Between(s, u)
  BY SwitchesAssumption DEF Known, Between
<1>2. u # s => (Reaches(registry, dst, s, d, u) <=> Reaches(registry, dst, s + d, d, u))
  BY <1>1, ReachesNext
<1>3. u \in Candidates(s, dst) <=>
        InRange(registry, u, dst) /\ Between(s, u) \subseteq Known(registry)
  BY <1>1 DEF Candidates
<1>4. CASE d = 1
  <2>1. u > s <=> u # s /\ s <= u
    BY <1>1
  <2>2. Reaches(registry, dst, s + d, d, u) => u # s
    BY <1>1, <1>4 DEF Reaches
  <2> QED BY <1>2, <1>3, <1>4, <2>1, <2>2 DEF Reaches
<1>5. CASE d = -1
  <2>1. (u < s <=> u # s /\ u <= s) /\ d # 1
    BY <1>1, <1>5
  <2>2. Reaches(registry, dst, s + d, d, u) => u # s
    BY <1>1, <1>5 DEF Reaches
  <2> QED BY <1>2, <1>3, <1>5, <2>1, <2>2 DEF Reaches
<1> QED BY <1>4, <1>5 DEF Directions

(* The nearest of a set on one side of s is the one that has none of the *)
(* others before it.                                                     *)
LEMMA NearestIs ==
  ASSUME NEW s \in Nat, NEW T \in SUBSET Nat, NEW t \in T,
         (\A u \in T : u > s) \/ (\A u \in T : u < s),
         \A u \in T : Between(s, t) \subseteq Between(s, u)
  PROVE  Nearest(s, T) = t
<1>1. ASSUME NEW u \in T
      PROVE  /\ IsFiniteSet(Between(s, u))
             /\ u \in Between(s, u)
             /\ u \in Between(s, t) => u = t
  <2>1. u \in Nat /\ t \in Nat
    OBVIOUS
  <2>2. CASE u > s
    <3>1. Between(s, u) = s .. u /\ t > s
      BY <2>1, <2>2 DEF Between
    <3>2. Between(s, t) = s .. t
      BY <2>1, <3>1 DEF Between
    <3>3. t <= u
      BY <2>1, <3>1, <3>2
    <3> QED BY <2>1, <2>2, <3>1, <3>2, <3>3, FS_Interval
  <2>3. CASE u < s
    <3>1. Between(s, u) = u .. s /\ t < s
      BY <2>1, <2>3 DEF Between
    <3>2. Between(s, t) = t .. s
      BY <2>1, <3>1 DEF Between
    <3>3. u <= t
      BY <2>1, <3>1, <3>2
    <3> QED BY <2>1, <2>3, <3>1, <3>2, <3>3, FS_Interval
  <2> QED BY <2>2, <2>3
<1>2. \A u \in T : Cardinality(Between(s, t)) <= Cardinality(Between(s, u))
  BY <1>1, FS_Subset
<1>3. ASSUME NEW x \in T, \A u \in T : Cardinality(Between(s, x)) <= Cardinality(Between(s, u))
      PROVE  x = t
  <2>1. /\ Cardinality(Between(s, x)) <= Cardinality(Between(s, t))
        /\ Cardinality(Between(s, t)) <= Cardinality(Between(s, x))
    BY <1>2, <1>3
  <2>2. Cardinality(Between(s, t)) \in Nat /\ Cardinality(Between(s, x)) \in Nat
    BY <1>1, FS_CardinalityType
  <2>3. Cardinality(Between(s, x)) = Cardinality(Between(s, t))
    BY <2>1, <2>2
  <2>4. Between(s, x) = Between(s, t)
    BY <1>1, <2>3, FS_Subset
  <2> QED BY <1>1, <2>4
<1> QED BY <1>2, <1>3 DEF Nearest

(* On side d of a known switch: nothing is found if there is no          *)
(* candidate, and otherwise the nearest one.                             *)
LEMMA SideIsNearest ==
  ASSUME ChainRegistry(registry), NEW dst, NEW d \in Directions, NEW s \in Known(registry),
         NEW t, t = Server(registry, s, Side(registry, s, d), dst),
         NEW T, T = {u \in Candidates(s, dst) : IF d = 1 THEN u > s ELSE u < s}
  PROVE  /\ t # Null <=> T # {}
         /\ t # Null => Nearest(s, T) = t
<1>1. s \in Nat /\ s \in Switches /\ Switches \subseteq Nat
  BY SwitchesAssumption DEF Known
<1>2. T \subseteq Switches
  BY DEF Candidates, Known
<1>3. \A u \in Switches : u \in T <=> Reaches(registry, dst, s + d, d, u)
  BY CandidatesReached
<1>4. t = Null => T = {}
  <2>1. t = Null => \A u \in Switches : ~Reaches(registry, dst, s + d, d, u)
    BY ServerOutcome
  <2> QED BY <1>2, <1>3, <2>1
<1>5. ASSUME t # Null PROVE t \in T /\ Nearest(s, T) = t
  <2>1. /\ t \in Switches /\ Reaches(registry, dst, s + d, d, t)
        /\ \A u \in Switches : Reaches(registry, dst, s + d, d, u) =>
                                Between(s + d, t) \subseteq Between(s + d, u)
    BY <1>5, ServerOutcome
  <2>2. t \in T
    BY <1>3, <2>1
  <2>3. Between(s, t) = {s} \cup Between(s + d, t)
    <3>1. Reaches(registry, dst, s + d, d, t) =>
            t # s /\ Between(s, t) = {s} \cup Between(s + d, t)
      BY <1>1, <2>1, ReachesNext
    <3> QED BY <2>1, <3>1
  <2>4. ASSUME NEW u \in T PROVE Between(s, t) \subseteq Between(s, u)
    <3>1. u \in Switches /\ Reaches(registry, dst, s + d, d, u)
      BY <1>2, <1>3
    <3>2. Between(s, u) = {s} \cup Between(s + d, u)
      BY <1>1, <3>1, ReachesNext
    <3> QED BY <2>1, <2>3, <3>1, <3>2
  <2>5. (\A u \in T : u > s) \/ (\A u \in T : u < s)
    OBVIOUS
  <2>6. T \in SUBSET Nat
    BY <1>1, <1>2
  <2> QED BY <1>1, <2>2, <2>4, <2>5, <2>6, NearestIs
<1> QED BY <1>4, <1>5

(*************************************************************************)
(* The answer to every QUERY is the one of the definition that does not  *)
(* search: deliver, else towards the nearest server on the left, else on *)
(* the right, else drop.                                                 *)
(*************************************************************************)
THEOREM AnswerIsNearestHolds == Spec => []AnswerIsNearest
<1> USE DEF Null, PORT_0, PORT_1, PORT_2, PORT_3, DELIVER, FORWARD, DROP
<1>1. ASSUME RegistryInvariant, NEW s \in Switches, NEW p \in Packets
      PROVE  MakeFlowEntry(registry, s, p) = Expected(s, p)
  <2>1. ChainRegistry(registry)
    BY <1>1 DEF RegistryInvariant
  <2>2. s \in Nat /\ s \in Between(s, s) /\ Between(s, s) = {s}
    BY SwitchesAssumption DEF Between
  <2>3. CASE p.src > MAX_IP
    BY <2>3 DEF MakeFlowEntry, Expected, DropRule
  <2>4. CASE ~(p.src > MAX_IP) /\ s \notin Known(registry)
    <3>1. Candidates(s, p.dst) = {}
      <4>1. ASSUME NEW t \in Switches PROVE s \in Between(s, t)
        BY <2>2, SwitchesAssumption DEF Between
      <4> QED BY <2>4, <4>1 DEF Candidates, Known
    <3>2. MakeFlowEntry(registry, s, p) = NewRule(p.dst, p.dst, DROP, PORT_0)
      BY <2>4 DEF MakeFlowEntry, DropRule
    <3> QED BY <2>4, <3>1, <3>2 DEF Expected
  <2>5. CASE ~(p.src > MAX_IP) /\ s \in Known(registry)
    <3>1. s \in Candidates(s, p.dst) <=> InRange(registry, s, p.dst)
      BY <2>2, <2>5 DEF Candidates
    <3>2. CASE InRange(registry, s, p.dst)
      BY <2>5, <3>1, <3>2 DEF MakeFlowEntry, Expected, DeliverRule
    <3>3. CASE ~InRange(registry, s, p.dst)
      <4>1. PICK lefts : lefts = {t \in Candidates(s, p.dst) : t < s}
        OBVIOUS
      <4>2. PICK rights : rights = {t \in Candidates(s, p.dst) : t > s}
        OBVIOUS
      <4>3. PICK left : left = LeftServer(registry, s, p.dst)
        OBVIOUS
      <4>4. PICK right : right = RightServer(registry, s, p.dst)
        OBVIOUS
      <4>5. p.src <= MAX_IP
        BY <2>5, MaxIPAssumption DEF Packets
      <4>6. MakeFlowEntry(registry, s, p) =
              IF left # Null THEN ForwardRule(PORT_1, registry[left])
              ELSE IF right # Null THEN ForwardRule(PORT_2, registry[right])
              ELSE DropRule(p.dst)
        BY <2>1, <2>5, <3>3, <4>3, <4>4, <4>5, AnswerElsewhere
      <4>7. (left # Null <=> lefts # {}) /\ (left # Null => Nearest(s, lefts) = left)
        <5>1. -1 \in Directions /\ -1 # 1
          BY DEF Directions
        <5>2. left = Server(registry, s, Side(registry, s, -1), p.dst)
          BY <4>3, BothSides
        <5>3. lefts = {u \in Candidates(s, p.dst) : IF -1 = 1 THEN u > s ELSE u < s}
          BY <4>1, <5>1
        <5> QED BY <2>1, <2>5, <5>1, <5>2, <5>3, SideIsNearest
      <4>8. (right # Null <=> rights # {}) /\ (right # Null => Nearest(s, rights) = right)
        <5>1. 1 \in Directions
          BY DEF Directions
        <5>2. right = Server(registry, s, Side(registry, s, 1), p.dst)
          BY <4>4, BothSides
        <5>3. rights = {u \in Candidates(s, p.dst) : IF 1 = 1 THEN u > s ELSE u < s}
          BY <4>2
        <5> QED BY <2>1, <2>5, <5>1, <5>2, <5>3, SideIsNearest
      <4>9. Expected(s, p) =
              IF lefts # {} THEN ForwardRule(PORT_1, registry[Nearest(s, lefts)])
              ELSE IF rights # {} THEN ForwardRule(PORT_2, registry[Nearest(s, rights)])
              ELSE DropRule(p.dst)
        BY <2>5, <3>1, <3>3, <4>1, <4>2 DEF Expected, ForwardRule, DropRule
      <4> QED BY <4>6, <4>7, <4>8, <4>9
    <3> QED BY <3>2, <3>3
  <2> QED BY <2>3, <2>4, <2>5
<1>2. RegistryInvariant => AnswerIsNearest
  BY <1>1 DEF AnswerIsNearest
<1> QED BY <1>2, RegistryInvariantHolds, PTL
=============================================================================
