--------------------------- MODULE RoutingProofs ---------------------------
(* Facts about the lookup of a packet in a flow table and about the      *)
(* answer of the controller, for every value of the constants.           *)
EXTENDS Routing, SequenceTheorems, FiniteSetTheorems, TLAPS

USE DEF MIN_IP, DELIVER, FORWARD, DROP, PORT_0, PORT_1, PORT_2, PORT_3, Null

(*************************************************************************)
(* A non-empty set of natural numbers has a least element. It stands in  *)
(* for induction over the natural numbers, whose theorem takes an        *)
(* operator.                                                             *)
(*************************************************************************)
LEMMA LeastNatural ==
  ASSUME NEW T \in SUBSET Nat, T # {}
  PROVE  \E x \in T : \A y \in T : x <= y
<1> DEFINE U == {0 .. x : x \in T}
<1>1. U \subseteq FiniteSubsetsOf(Nat)
  <2>1. SUFFICES ASSUME NEW x \in T PROVE 0 .. x \in FiniteSubsetsOf(Nat)
    OBVIOUS
  <2>2. 0 \in Int /\ x \in Int
    OBVIOUS
  <2>3. IsFiniteSet(0 .. x)
    BY <2>2, FS_Interval
  <2> QED BY <2>3 DEF FiniteSubsetsOf
<1>2. U # {}
  OBVIOUS
<1>3. PICK V \in U : \A W \in U : ~(<<W, V>> \in StrictSubsetOrdering(Nat))
  <2>1. IsWellFoundedOn(StrictSubsetOrdering(Nat), FiniteSubsetsOf(Nat))
    BY FS_StrictSubsetOrderingWellFounded
  <2> HIDE DEF U
  <2> QED BY <1>1, <1>2, <2>1, WFMin
<1>4. PICK x \in T : V = 0 .. x
  BY <1>3
<1>5. ASSUME NEW y \in T, y < x PROVE FALSE
  <2>1. 0 .. y \in U
    OBVIOUS
  <2>2. 0 .. y \subseteq 0 .. x /\ 0 .. y # 0 .. x
    BY <1>5
  <2>3. 0 .. y \in SUBSET Nat /\ 0 .. x \in SUBSET Nat
    OBVIOUS
  <2> QED BY <1>3, <1>4, <2>1, <2>2, <2>3 DEF StrictSubsetOrdering
<1> QED BY <1>5

(*************************************************************************)
(* What getFlowEntryIndex promises its callers: an index is that of the  *)
(* first rule that matches the packet, and 0 (the -1 of the code) is     *)
(* returned only if no rule of the table matches.                        *)
(*************************************************************************)
LEMMA FirstMatch ==
  ASSUME NEW table \in Seq(Rule), NEW p \in Packet
  PROVE  LET i == FlowEntryIndex(table, p)
         IN /\ i \in 0 .. Len(table)
            /\ i > 0 => /\ Matches(table[i], p)
                        /\ \A j \in 1 .. i - 1 : ~Matches(table[j], p)
            /\ i = 0 => \A j \in 1 .. Len(table) : ~Matches(table[j], p)
<1> DEFINE I == {j \in 1 .. Len(table) : Matches(table[j], p)}
<1>1. FlowEntryIndex(table, p) = IF I # {} THEN Min(I) ELSE 0
  BY DEF FlowEntryIndex, SelectInSeq
<1>2. I # {} => Min(I) \in I /\ \A j \in I : Min(I) <= j
  <2>1. SUFFICES ASSUME I # {} PROVE Min(I) \in I /\ \A j \in I : Min(I) <= j
    OBVIOUS
  <2>2. PICK n \in I : TRUE
    BY <2>1
  <2>3. \E x \in I : \A y \in I : x <= y
    <3>1. I \in SUBSET Nat
      OBVIOUS
    <3> HIDE DEF I
    <3> QED BY <2>1, <3>1, LeastNatural
  <2> QED BY <2>3 DEF Min
<1>3. Len(table) \in Nat
  OBVIOUS
<1>4. CASE I # {}
  <2>1. PICK i \in I : i = Min(I)
    BY <1>2, <1>4
  <2>2. i \in 1 .. Len(table) /\ Matches(table[i], p)
    OBVIOUS
  <2>3. ASSUME NEW j \in 1 .. i - 1 PROVE ~Matches(table[j], p)
    <3>1. j \in 1 .. Len(table) /\ ~(i <= j)
      BY <2>2, <1>3
    <3>2. j \notin I
      BY <1>2, <1>4, <2>1, <3>1
    <3> QED BY <3>1, <3>2
  <2> HIDE DEF I
  <2> QED BY <1>1, <1>3, <1>4, <2>1, <2>2, <2>3
<1>5. CASE I = {}
  BY <1>1, <1>3, <1>5
<1> QED BY <1>4, <1>5

(* makeFlowEntry builds a flow entry for every question of a switch,     *)
(* whatever OPEN packets it has stored.                                  *)
LEMMA MakeFlowEntryType ==
  ASSUME NEW reg \in [Switches -> SwitchInfo], NEW s \in Switches, NEW p \in Packet
  PROVE  MakeFlowEntry(reg, s, p) \in Rule
BY DEF MakeFlowEntry, Known, SwitchInfo, Packet, Rule, NewRule, DropRule, DeliverRule, ForwardRule

(* vector::erase at position i: one element less, those before i stay in *)
(* place and those after it move forward by one.                         *)
LEMMA RemoveAtType ==
  ASSUME NEW T, NEW q \in Seq(T), NEW i \in 1 .. Len(q)
  PROVE  /\ RemoveAt(q, i) \in Seq(T)
         /\ Len(RemoveAt(q, i)) = Len(q) - 1
         /\ \A j \in 1 .. Len(q) - 1 :
              RemoveAt(q, i)[j] = IF j < i THEN q[j] ELSE q[j + 1]
<1> DEFINE front == SubSeq(q, 1, i - 1)
           back == SubSeq(q, i + 1, Len(q))
<1>1. front \in Seq(T) /\ Len(front) = i - 1 /\ \A j \in 1 .. i - 1 : front[j] = q[j]
  OBVIOUS
<1>2. /\ back \in Seq(T) /\ Len(back) = Len(q) - i
      /\ \A j \in 1 .. Len(q) - i : back[j] = q[i + j]
  <2>1. /\ i + 1 \in 1 .. Len(q) + 1 /\ Len(q) \in i .. Len(q)
    OBVIOUS
  <2> QED BY <2>1, SubSeqProperties
<1>3. RemoveAt(q, i) = front \o back
  BY DEF RemoveAt
<1> HIDE DEF front, back
<1>4. /\ front \o back \in Seq(T)
      /\ Len(front \o back) = Len(front) + Len(back)
      /\ \A j \in 1 .. Len(front) + Len(back) :
           (front \o back)[j] = IF j <= Len(front) THEN front[j]
                                ELSE back[j - Len(front)]
  BY <1>1, <1>2, ConcatProperties
<1>5. PICK n \in Nat : n = Len(q)
  OBVIOUS
<1>6. Len(front) + Len(back) = n - 1 /\ i \in 1 .. n
  BY <1>1, <1>2, <1>5
<1>7. ASSUME NEW j \in 1 .. n - 1
      PROVE  RemoveAt(q, i)[j] = IF j < i THEN q[j] ELSE q[j + 1]
  <2>1. RemoveAt(q, i)[j] = IF j <= Len(front) THEN front[j] ELSE back[j - Len(front)]
    BY <1>3, <1>4, <1>6
  <2>2. CASE j < i
    BY <1>1, <1>6, <2>1, <2>2
  <2>3. CASE j >= i
    <3>1. j - (i - 1) \in 1 .. n - i /\ i + (j - (i - 1)) = j + 1
      BY <1>6, <2>3
    <3>2. back[j - (i - 1)] = q[j + 1]
      BY <1>2, <1>5, <3>1
    <3>3. ~(j <= i - 1) /\ ~(j < i)
      BY <1>6, <2>3
    <3> QED BY <1>1, <2>1, <3>2, <3>3
  <2> QED BY <1>6, <2>2, <2>3
<1> QED BY <1>3, <1>4, <1>5, <1>6, <1>7

(* The number of calls is a number. *)
LEMMA FuelType == Fuel \in Nat
<1>1. Cardinality(Switches) \in Nat
  BY SwitchesAssumption, FS_CardinalityType
<1> QED BY <1>1 DEF Fuel

(*************************************************************************)
(* The recursive function of Search exists, so its definition is an      *)
(* equation: no search is answered in no calls, and k calls are one call *)
(* given the answers of the calls k - 1 deep. If some n had no function  *)
(* on 0 .. n, the least such n would have one, made from that for n - 1. *)
(*************************************************************************)
LEMMA SearchUnfolds ==
  ASSUME NEW reg, NEW dst
  PROVE  /\ Search(reg, dst)[0] = [e \in Pairs |-> Loops]
         /\ \A k \in 1 .. Fuel :
              Search(reg, dst)[k] = Round(reg, dst, Search(reg, dst)[k - 1])
<1> DEFINE Deep(n, h) ==
             h = [k \in 0 .. n |-> IF k = 0 THEN [e \in Pairs |-> Loops]
                                   ELSE Round(reg, dst, h[k - 1])]
           T == {n \in Nat : ~ \E h : Deep(n, h)}
<1>1. ASSUME T # {} PROVE FALSE
  <2>1. PICK x \in T : \A y \in T : x <= y
    <3>1. T \in SUBSET Nat
      OBVIOUS
    <3> HIDE DEF T
    <3> QED BY <1>1, <3>1, LeastNatural
  <2>2. CASE x = 0
    <3> DEFINE g == [k \in 0 .. 0 |-> [e \in Pairs |-> Loops]]
    <3>1. Deep(0, g)
      OBVIOUS
    <3> QED BY <2>2, <3>1
  <2>3. CASE x # 0
    <3>1. x - 1 \in Nat /\ ~(x <= x - 1)
      BY <2>3
    <3>2. PICK h : Deep(x - 1, h)
      BY <2>1, <3>1
    <3> DEFINE g == [k \in 0 .. x |-> IF k = 0 THEN [e \in Pairs |-> Loops]
                                      ELSE Round(reg, dst, h[k - 1])]
    <3>3. \A k \in 1 .. x : k - 1 \in 0 .. x /\ k - 1 \in 0 .. (x - 1)
      BY <3>1
    <3>4. ASSUME NEW k \in 1 .. x PROVE g[k - 1] = h[k - 1]
      BY <3>2, <3>3
    <3>5. \A k \in 0 .. x : k # 0 => k \in 1 .. x
      OBVIOUS
    <3>6. Deep(x, g)
      BY <3>4, <3>5
    <3> QED BY <3>6
  <2> QED BY <2>2, <2>3
<1>2. \E h : Deep(Fuel, h)
  BY <1>1, FuelType
<1>3. Deep(Fuel, Search(reg, dst))
  BY <1>2 DEF Search
<1> HIDE DEF T
<1>4. \A k \in 1 .. Fuel : k \in 0 .. Fuel /\ k # 0
  OBVIOUS
<1>5. 0 \in 0 .. Fuel
  BY FuelType
<1> QED BY <1>3, <1>4, <1>5

(*************************************************************************)
(* Whatever the registry, and on a ring too: what a search comes back    *)
(* with is a switch the controller knows and whose range holds the       *)
(* destination, unless it found nothing or does not end.                 *)
(*************************************************************************)
LEMMA FoundServes ==
  ASSUME NEW reg, NEW dst, NEW k \in 0 .. Fuel, NEW e \in Pairs
  PROVE  \/ Search(reg, dst)[k][e] \in {Loops, Null}
         \/ /\ Search(reg, dst)[k][e] \in Known(reg)
            /\ InRange(reg, Search(reg, dst)[k][e], dst)
<1> DEFINE Serves(t) == t \in {Loops, Null} \/ (t \in Known(reg) /\ InRange(reg, t, dst))
           S == Search(reg, dst)
           T == {i \in 0 .. Fuel : ~ \A c \in Pairs : Serves(S[i][c])}
<1>1. ASSUME T # {} PROVE FALSE
  <2>1. PICK x \in T : \A y \in T : x <= y
    <3>1. T \in SUBSET Nat
      OBVIOUS
    <3> HIDE DEF T
    <3> QED BY <1>1, <3>1, LeastNatural
  <2>2. CASE x = 0
    BY <2>2, SearchUnfolds
  <2>3. CASE x # 0
    <3>1. /\ x \in 1 .. Fuel /\ x - 1 \in 0 .. Fuel /\ ~(x <= x - 1)
      BY <2>3, FuelType
    <3>2. \A c \in Pairs : Serves(S[x - 1][c])
      BY <2>1, <3>1
    <3>3. S[x] = Round(reg, dst, S[x - 1])
      BY <3>1, SearchUnfolds
    <3> HIDE DEF S
    <3>4. ASSUME NEW c \in Pairs PROVE Serves(S[x][c])
      <4>1. PICK n \in Switches, from \in Switches : c = <<n, from>>
        BY DEF Pairs
      <4>2. \A m : ~Skipped(m, from) => <<m, n>> \in Pairs
        BY DEF Pairs, Skipped
      <4>3. n \in Known(reg) => n \in Switches
        OBVIOUS
      <4> DEFINE Via(m) == IF Skipped(m, from) THEN Null ELSE S[x - 1][<<m, n>>]
      <4>4. \A m : Serves(Via(m))
        BY <3>2, <4>2
      <4>5. S[x][c] = IF n \notin Known(reg) THEN Null
                      ELSE IF InRange(reg, n, dst) THEN n
                      ELSE IF Via(reg[n].left) # Null THEN Via(reg[n].left)
                      ELSE Via(reg[n].right)
        BY <3>3, <4>1 DEF Round
      <4> HIDE DEF Via
      <4> QED BY <4>4, <4>5
    <3> QED BY <2>1, <3>4
  <2> QED BY <2>2, <2>3
<1> QED BY <1>1
=============================================================================
