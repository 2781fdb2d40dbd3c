-------------------------- MODULE AddressesProofs --------------------------
(***************************************************************************)
(* What becomes of the addresses of packets between the processes, for     *)
(* every chain of switches, every traffic file and every width of int.     *)
(***************************************************************************)
EXTENDS Addresses, RoutingProofs

-----------------------------------------------------------------------------
(* The conversions: what stoi accepts becomes an unsigned number, which is *)
(* the number itself unless that was negative.                             *)
LEMMA CastType ==
  ASSUME NEW n \in Int, Fits(n)
  PROVE  /\ ToUint(n) \in Nat
         /\ n >= 0 => ToUint(n) = n
         /\ Fits(ToUint(n)) <=> n >= 0
BY WidthAssumption DEF Fits, ToUint

LEMMA HeaderType ==
  ASSUME NEW t \in Text, Parses(t)
  PROVE  HeaderOf(t) \in Packet /\ HeaderOf(t) = [src |-> t.srcIP, dst |-> t.dstIP]
<1>1. t.srcIP \in Nat /\ t.dstIP \in Nat /\ Fits(t.srcIP) /\ Fits(t.dstIP)
  BY DEF Text, Parses
<1>2. ToUint(t.srcIP) = t.srcIP /\ ToUint(t.dstIP) = t.dstIP
  BY <1>1, CastType
<1> QED BY <1>1, <1>2 DEF HeaderOf, Packet

LEMMA TextType ==
  ASSUME NEW p \in Packet
  PROVE  /\ TextOf(p) \in Text
         /\ Parses(TextOf(p)) <=> Fits(p.src) /\ Fits(p.dst)
         /\ p = [src |-> TextOf(p).srcIP, dst |-> TextOf(p).dstIP]
BY DEF TextOf, Text, Packet, Parses

LEMMA LineType ==
  ASSUME NEW l \in Line, LineParses(l), ~l.delay
  PROVE  LineHeader(l) \in Packet
<1>1. l.first \in Int /\ l.second \in Int /\ Fits(l.first) /\ Fits(l.second)
  BY DEF Line, LineParses
<1> QED BY <1>1, CastType DEF LineHeader, Packet

(* What matches a rule has a source in range and the rule's bounds.        *)
LEMMA RuleFound ==
  ASSUME NEW t \in Seq(Rule), NEW p \in Packet, Matched(t, p)
  PROVE  /\ FlowEntryIndex(t, p) \in 1 .. Len(t) /\ RuleFor(t, p) \in Rule
         /\ Matches(RuleFor(t, p), p)
<1>1. FlowEntryIndex(t, p) \in 0 .. Len(t) /\ FlowEntryIndex(t, p) # 0
  BY FirstMatch DEF Matched
<1>2. FlowEntryIndex(t, p) \in 1 .. Len(t)
  BY <1>1
<1>3. Matches(t[FlowEntryIndex(t, p)], p)
  BY <1>2, FirstMatch
<1> QED BY <1>2, <1>3 DEF RuleFor

-----------------------------------------------------------------------------
LEMMA ApplyType ==
  ASSUME TypeOK, NEW s \in Switches, NEW p \in Packet,
         NEW f \in [Switches -> SUBSET Text], Apply(s, p, f)
  PROVE  fifo' \in [Switches -> SUBSET Text] /\ admitted' \in [Switches -> SUBSET Packet]
BY TextType DEF TypeOK, Apply

LEMMA HandleType ==
  ASSUME TypeOK, NEW s \in Switches, NEW p \in Packet, iter[s] = 0,
         NEW f \in [Switches -> SUBSET Text], Handle(s, p, f), iter' = iter,
         UNCHANGED <<file, ended>>, read' \in [Switches -> 0 .. Len(file)]
  PROVE  TypeOK'
<1>1. CASE Apply(s, p, f) /\ UNCHANGED <<unsolved, asked>>
  BY <1>1, ApplyType DEF TypeOK, Handle
<1>2. CASE /\ unsolved' = [unsolved EXCEPT ![s] = Append(@, TextOf(p))]
           /\ asked' = [asked EXCEPT ![s] = @ \cup {TextOf(p)}]
           /\ fifo' = f /\ UNCHANGED admitted
  <2>1. TextOf(p) \in Text /\ unsolved[s] \in Seq(Text)
    BY TextType DEF TypeOK
  <2>2. unsolved' \in [Switches -> Seq(Text)] /\ asked' \in [Switches -> SUBSET Text]
    BY <1>2, <2>1 DEF TypeOK
  <2>3. ASSUME NEW t \in Switches PROVE iter'[t] <= Len(unsolved'[t]) + 1
    <3>1. CASE t = s
      <4>1. Len(unsolved'[s]) \in Nat /\ iter'[s] = 0
        BY <2>2
      <4> QED BY <3>1, <4>1
    <3>2. CASE t # s
      BY <1>2, <3>2 DEF TypeOK
    <3> QED BY <3>1, <3>2
  <2> QED BY <1>2, <2>2, <2>3 DEF TypeOK, Handle
<1> QED BY <1>1, <1>2 DEF Handle

LEMMA ReadLineType ==
  ASSUME TypeOK, NEW s \in Switches, ReadLine(s)
  PROVE  TypeOK'
<1> DEFINE l == file[read[s] + 1]
<1>1. file \in Seq(Line) /\ read[s] \in 0 .. Len(file) /\ read[s] < Len(file)
  BY FilesAssumption DEF TypeOK, ReadLine
<1>2. l \in Line /\ read[s] + 1 \in 0 .. Len(file)
  BY <1>1
<1>3. read' \in [Switches -> 0 .. Len(file)] /\ UNCHANGED <<file, iter>>
  BY <1>2 DEF TypeOK, ReadLine
<1> HIDE DEF l
<1>4. CASE ended' \in [Processes -> Causes] /\ UNCHANGED <<table, unsolved, asked, added, fifo, admitted>>
  BY <1>3, <1>4 DEF TypeOK
<1>5. CASE LineParses(l) /\ ~l.delay /\ Handle(s, LineHeader(l), fifo) /\ UNCHANGED ended
  <2>1. LineHeader(l) \in Packet /\ fifo \in [Switches -> SUBSET Text] /\ iter[s] = 0
    BY <1>2, <1>5, LineType DEF TypeOK, ReadLine
  <2> QED BY <1>3, <1>5, <2>1, HandleType
<1>6. ended \in [Processes -> Causes]
  BY DEF TypeOK
<1>7. "line" \in Causes
  BY DEF Causes
<1> QED BY <1>4, <1>5, <1>6, <1>7 DEF ReadLine, EndOf, l

LEMMA PacketEnd ==
  ASSUME TypeOK, NEW p \in Processes, EndOf(p, "packet")
  PROVE  ended' \in [Processes -> Causes]
BY DEF TypeOK, EndOf, Causes

LEMMA RecvRELAYType ==
  ASSUME TypeOK, NEW s \in Switches, RecvRELAY(s)
  PROVE  TypeOK'
<1>1. PICK t \in fifo[s] :
        IF Parses(t)
        THEN Handle(s, HeaderOf(t), [fifo EXCEPT ![s] = @ \ {t}]) /\ UNCHANGED ended
        ELSE /\ EndOf(s, "packet") /\ fifo' = [fifo EXCEPT ![s] = @ \ {t}]
             /\ UNCHANGED <<table, unsolved, asked, added, admitted>>
  BY DEF RecvRELAY
<1> DEFINE f == [fifo EXCEPT ![s] = @ \ {t}]
<1>2. t \in Text /\ f \in [Switches -> SUBSET Text] /\ UNCHANGED <<iter, file, read>>
  BY DEF TypeOK, RecvRELAY
<1> HIDE DEF f
<1>3. CASE Parses(t)
  <2>1. iter[s] = 0 /\ read \in [Switches -> 0 .. Len(file)]
    BY DEF TypeOK, RecvRELAY
  <2> QED BY <1>1, <1>2, <1>3, <2>1, HeaderType, HandleType DEF f
<1>4. CASE ~Parses(t)
  <2>1. s \in Processes
    BY DEF Processes
  <2> QED BY <1>1, <1>2, <1>4, <2>1, PacketEnd DEF TypeOK, f
<1> QED BY <1>3, <1>4

LEMMA RecvQUERYType ==
  ASSUME TypeOK, NEW s \in Switches, RecvQUERY(s)
  PROVE  TypeOK'
<1>1. PICK t \in asked[s] :
        /\ asked' = [asked EXCEPT ![s] = @ \ {t}]
        /\ \/ ~Parses(t) /\ EndOf(Cont, "packet") /\ UNCHANGED added
           \/ /\ Parses(t)
              /\ added' = [added EXCEPT ![s] = @ \cup {MakeFlowEntry(Registry, s, HeaderOf(t))}]
              /\ UNCHANGED ended
  BY DEF RecvQUERY
<1>2. /\ t \in Text /\ asked' \in [Switches -> SUBSET Text]
      /\ UNCHANGED <<table, unsolved, iter, fifo, admitted, file, read>>
  BY <1>1 DEF TypeOK, RecvQUERY
<1>3. CASE EndOf(Cont, "packet") /\ UNCHANGED added
  <2>1. Cont \in Processes
    BY DEF Processes
  <2> QED BY <1>2, <1>3, <2>1, PacketEnd DEF TypeOK
<1>4. CASE /\ Parses(t)
           /\ added' = [added EXCEPT ![s] = @ \cup {MakeFlowEntry(Registry, s, HeaderOf(t))}]
           /\ UNCHANGED ended
  <2>1. MakeFlowEntry(Registry, s, HeaderOf(t)) \in Rule
    BY <1>2, <1>4, HeaderType, MakeFlowEntryType, RegistryAssumption
  <2> QED BY <1>2, <1>4, <2>1 DEF TypeOK
<1> QED BY <1>1, <1>3, <1>4

(* respondADDPacket appends nothing, or the rule of the packet.            *)
LEMMA AddRuleType ==
  ASSUME NEW t \in Seq(Rule), NEW r \in Rule
  PROVE  /\ AddRule(t, r) \in Seq(Rule)
         /\ \A i \in 1 .. Len(AddRule(t, r)) :
              AddRule(t, r)[i] = r \/ (i \in 1 .. Len(t) /\ AddRule(t, r)[i] = t[i])
<1>1. CASE AddRule(t, r) = t
  BY <1>1
<1>2. CASE AddRule(t, r) = Append(t, r)
  <2>1. /\ Append(t, r) \in Seq(Rule) /\ Len(Append(t, r)) = Len(t) + 1
        /\ \A i \in 1 .. Len(t) : Append(t, r)[i] = t[i]
        /\ Append(t, r)[Len(t) + 1] = r
    BY AppendProperties
  <2>2. ASSUME NEW i \in 1 .. Len(Append(t, r))
        PROVE  Append(t, r)[i] = r \/ (i \in 1 .. Len(t) /\ Append(t, r)[i] = t[i])
    <3>1. i \in 1 .. Len(t) \/ i = Len(t) + 1
      BY <2>1
    <3> QED BY <2>1, <3>1
  <2> QED BY <1>2, <2>1, <2>2
<1> QED BY <1>1, <1>2 DEF AddRule

LEMMA RecvADDType ==
  ASSUME TypeOK, NEW s \in Switches, RecvADD(s)
  PROVE  TypeOK'
<1>1. PICK r \in added[s] :
        /\ added' = [added EXCEPT ![s] = @ \ {r}]
        /\ IF RuleParses(r)
           THEN /\ table' = [table EXCEPT ![s] = AddRule(@, r)]
                /\ iter' = [iter EXCEPT ![s] = 1] /\ UNCHANGED ended
           ELSE EndOf(s, "packet") /\ UNCHANGED <<table, iter>>
  BY DEF RecvADD
<1>2. /\ added' \in [Switches -> SUBSET Rule] /\ r \in Rule
      /\ UNCHANGED <<unsolved, asked, fifo, admitted, file, read>>
  BY <1>1 DEF TypeOK, RecvADD
<1>3. CASE RuleParses(r)
  <2>1. table[s] \in Seq(Rule) /\ AddRule(table[s], r) \in Seq(Rule)
    BY <1>2, AddRuleType DEF TypeOK
  <2>2. table' \in [Switches -> Seq(Rule)] /\ iter' \in [Switches -> Nat]
    <3>1. table' = [table EXCEPT ![s] = AddRule(table[s], r)] /\ iter' = [iter EXCEPT ![s] = 1]
      BY <1>1, <1>3
    <3>2. table \in [Switches -> Seq(Rule)] /\ iter \in [Switches -> Nat]
      BY DEF TypeOK
    <3> QED BY <2>1, <3>1, <3>2
  <2>3. ASSUME NEW t \in Switches PROVE iter'[t] <= Len(unsolved'[t]) + 1
    <3>1. Len(unsolved[t]) \in Nat /\ iter[t] <= Len(unsolved[t]) + 1
      BY DEF TypeOK
    <3>2. iter'[t] = 1 \/ iter'[t] = iter[t]
      BY <1>1, <1>3 DEF TypeOK
    <3> QED BY <1>2, <3>1, <3>2
  <2> QED BY <1>1, <1>2, <1>3, <2>2, <2>3 DEF TypeOK
<1>4. CASE ~RuleParses(r)
  <2>1. s \in Processes
    BY DEF Processes
  <2> QED BY <1>1, <1>2, <1>4, <2>1, PacketEnd DEF TypeOK
<1> QED BY <1>3, <1>4

LEMMA ResolveUnsolvedType ==
  ASSUME TypeOK, NEW s \in Switches, ResolveUnsolved(s)
  PROVE  TypeOK'
<1> DEFINE t == unsolved[s][iter[s]]
<1>1. /\ unsolved[s] \in Seq(Text) /\ iter[s] \in Nat /\ iter[s] > 0
      /\ UNCHANGED <<table, asked, added, file, read>>
  BY DEF TypeOK, ResolveUnsolved
<1>2. iter[s] <= Len(unsolved[s]) => iter[s] \in 1 .. Len(unsolved[s]) /\ t \in Text
  BY <1>1
<1> HIDE DEF t
<1>3. CASE iter' = [iter EXCEPT ![s] = 0] /\ UNCHANGED <<unsolved, fifo, admitted, ended>>
  BY <1>1, <1>3 DEF TypeOK
<1>4. CASE EndOf(s, "packet") /\ UNCHANGED <<unsolved, iter, fifo, admitted>>
  <2>1. s \in Processes
    BY DEF Processes
  <2> QED BY <1>1, <1>4, <2>1, PacketEnd DEF TypeOK
<1>5. CASE /\ iter[s] <= Len(unsolved[s])
           /\ Parses(t) /\ Matched(table[s], HeaderOf(t))
           /\ Apply(s, HeaderOf(t), fifo)
           /\ unsolved' = [unsolved EXCEPT ![s] = RemoveAt(@, iter[s])]
           /\ UNCHANGED <<iter, ended>>
  <2>1. HeaderOf(t) \in Packet /\ fifo \in [Switches -> SUBSET Text]
    BY <1>2, <1>5, HeaderType DEF TypeOK
  <2>2. fifo' \in [Switches -> SUBSET Text] /\ admitted' \in [Switches -> SUBSET Packet]
    BY <1>5, <2>1, ApplyType
  <2>3. /\ RemoveAt(unsolved[s], iter[s]) \in Seq(Text)
        /\ Len(RemoveAt(unsolved[s], iter[s])) = Len(unsolved[s]) - 1
    BY <1>1, <1>2, <1>5, RemoveAtType
  <2>4. unsolved' \in [Switches -> Seq(Text)]
    BY <1>5, <2>3 DEF TypeOK
  <2>5. ASSUME NEW u \in Switches PROVE iter'[u] <= Len(unsolved'[u]) + 1
    <3>1. CASE u = s
      <4>1. Len(unsolved'[s]) = Len(unsolved[s]) - 1 /\ Len(unsolved[s]) \in Nat
        BY <1>1, <1>5, <2>3 DEF TypeOK
      <4> QED BY <1>1, <1>5, <3>1, <4>1
    <3>2. CASE u # s
      BY <1>5, <3>2 DEF TypeOK
    <3> QED BY <3>1, <3>2
  <2> QED BY <1>1, <1>5, <2>2, <2>4, <2>5 DEF TypeOK
<1>6. CASE /\ iter[s] <= Len(unsolved[s]) /\ iter' = [iter EXCEPT ![s] = @ + 1]
           /\ UNCHANGED <<unsolved, fifo, admitted, ended>>
  <2>1. ASSUME NEW u \in Switches PROVE iter'[u] <= Len(unsolved[u]) + 1 /\ iter'[u] \in Nat
    <3>1. Len(unsolved[u]) \in Nat /\ iter[u] \in Nat /\ iter[u] <= Len(unsolved[u]) + 1
      BY DEF TypeOK
    <3>2. iter'[u] = IF u = s THEN iter[u] + 1 ELSE iter[u]
      BY <1>6 DEF TypeOK
    <3> QED BY <1>6, <3>1, <3>2
  <2> QED BY <1>1, <1>6, <2>1 DEF TypeOK
<1> QED BY <1>3, <1>4, <1>5, <1>6 DEF ResolveUnsolved, t

LEMMA TypeStep == TypeOK /\ [Next]_vars => TypeOK'
<1>1. ASSUME TypeOK, UNCHANGED vars PROVE TypeOK'
  BY <1>1 DEF TypeOK, vars
<1> QED BY <1>1, ReadLineType, RecvRELAYType, RecvQUERYType, RecvADDType,
           ResolveUnsolvedType DEF Next

LEMMA TypeInit == Init => TypeOK
<1>1. ASSUME Init, NEW s \in Switches
      PROVE  InitRule([low |-> Registry[s].low, high |-> Registry[s].high]) \in Rule
  BY RegistryAssumption DEF SwitchInfo, InitRule, NewRule, Rule, FORWARD, PORT_3, PORT_0, DELIVER, DROP
<1>2. ASSUME Init PROVE table \in [Switches -> Seq(Rule)]
  BY <1>1, <1>2 DEF Init
<1>3. ASSUME Init PROVE iter \in [Switches -> Nat] /\ \A s \in Switches : iter[s] <= Len(unsolved[s]) + 1
  BY <1>3 DEF Init
<1>4. ASSUME Init PROVE file \in Seq(Line) /\ read \in [Switches -> 0 .. Len(file)]
  BY <1>4, FilesAssumption DEF Init
<1> QED BY <1>2, <1>3, <1>4 DEF Init, TypeOK, Causes

-----------------------------------------------------------------------------
(* What has been read once has been read for ever.                         *)
LEMMA Remembered ==
  ASSUME TypeOK, [Next]_vars, NEW s \in Switches
  PROVE  /\ \A p : Wrote(s, p) => Wrote(s, p)'
         /\ ReadNegative(s) => ReadNegative(s)'
<1>1. file' = file /\ \A i \in 1 .. read[s] : i \in 1 .. read'[s]
  <2>1. CASE \E u \in Switches : ReadLine(u)
    <3>1. PICK u \in Switches : ReadLine(u)
      BY <2>1
    <3>2. file' = file /\ read' = [read EXCEPT ![u] = read[u] + 1]
      BY <3>1 DEF ReadLine
    <3>3. read \in [Switches -> 0 .. Len(file)]
      BY DEF TypeOK
    <3>4. read[s] \in Nat /\ (read'[s] = read[s] \/ read'[s] = read[s] + 1)
      BY <3>2, <3>3
    <3> QED BY <3>2, <3>4
  <2>2. CASE UNCHANGED <<file, read>>
    BY <2>2
  <2> QED BY <2>1, <2>2 DEF Next, RecvRELAY, RecvQUERY, RecvADD, ResolveUnsolved, vars
<1>2. ASSUME NEW p, Wrote(s, p) PROVE Wrote(s, p)'
  BY <1>1, <1>2 DEF Wrote
<1>3. ASSUME ReadNegative(s) PROVE ReadNegative(s)'
  BY <1>1, <1>3 DEF ReadNegative
<1> QED BY <1>2, <1>3

(***************************************************************************)
(* The invariant.  Rules end below INT_MAX.  What is parked, and what is   *)
(* asked about, is a text that stoi accepts, or its switch has read a      *)
(* negative address; if stoi accepts it, some switch has read it.  In a    *)
(* pipe there are only texts of the first kind.                            *)
(***************************************************************************)
Written(t) == Parses(t) => \E w \in Switches : Wrote(w, HeaderOf(t))

Honest(s, t) == Parses(t) \/ ReadNegative(s)

RulesFit ==
  \A s \in Switches :
    /\ \A i \in 1 .. Len(table[s]) : RuleParses(table[s][i])
    /\ \A r \in added[s] : RuleParses(r)

Parked(s) == {unsolved[s][i] : i \in 1 .. Len(unsolved[s])}

ParkedHonest == \A s \in Switches : \A t \in Parked(s) : Written(t) /\ Honest(s, t)

AskedHonest == \A s \in Switches : \A t \in asked[s] : Honest(s, t)

PipesHonest == \A s \in Switches : \A t \in fifo[s] : Parses(t) /\ Written(t)

AddressInv ==
  /\ RulesFit /\ ParkedHonest /\ AskedHonest /\ PipesHonest
  /\ DeliveredAsWritten /\ EndsOfNegative

LEMMA StillHonest ==
  ASSUME TypeOK, [Next]_vars, NEW s \in Switches, NEW t
  PROVE  (Written(t) => Written(t)') /\ (Honest(s, t) => Honest(s, t)')
BY Remembered DEF Written, Honest

(* A header that matches a rule is one that stoi would accept as text.     *)
LEMMA MatchedFits ==
  ASSUME TypeOK, RulesFit, NEW s \in Switches, NEW p \in Packet, Matched(table[s], p)
  PROVE  p.src \in MIN_IP .. MAX_IP /\ Parses(TextOf(p))
<1>1. /\ table[s] \in Seq(Rule) /\ FlowEntryIndex(table[s], p) \in 1 .. Len(table[s])
      /\ RuleFor(table[s], p) \in Rule /\ Matches(RuleFor(table[s], p), p)
  BY RuleFound DEF TypeOK
<1> DEFINE r == RuleFor(table[s], p)
<1>2. RuleParses(r)
  BY <1>1 DEF RulesFit, RuleFor
<1> HIDE DEF r
<1>3. /\ p.src \in Nat /\ p.dst \in Nat /\ r.dstHigh \in Nat /\ r \in Rule
      /\ p.src <= MAX_IP /\ p.dst <= r.dstHigh
  BY <1>1 DEF Packet, Rule, Matches, r
<1>4. r.dstHigh <= INT_MAX
  BY <1>2 DEF RuleParses, Fits
<1>5. Fits(p.src) /\ Fits(p.dst)
  BY <1>3, <1>4, MaxIPAssumption, WidthAssumption DEF Fits
<1> QED BY <1>3, <1>5, MaxIPAssumption, TextType DEF MIN_IP

LEMMA BackAndForth ==
  ASSUME NEW p \in Packet, Parses(TextOf(p))
  PROVE  HeaderOf(TextOf(p)) = p
BY HeaderType, TextType

(* resolvePacket keeps what is delivered and what is in the pipes.         *)
LEMMA ApplyHonest ==
  ASSUME TypeOK, RulesFit, PipesHonest, DeliveredAsWritten, [Next]_vars,
         NEW s \in Switches, NEW p \in Packet, Matched(table[s], p),
         NEW f \in [Switches -> SUBSET Text], \A n \in Switches : f[n] \subseteq fifo[n],
         Apply(s, p, f), Written(TextOf(p))'
  PROVE  PipesHonest' /\ DeliveredAsWritten'
<1>1. p.src \in MIN_IP .. MAX_IP /\ Parses(TextOf(p)) /\ HeaderOf(TextOf(p)) = p
  BY MatchedFits, BackAndForth
<1>2. \E w \in Switches : Wrote(w, p)'
  BY <1>1 DEF Written
<1>3. ASSUME NEW n \in Switches, NEW t \in fifo'[n] PROVE Parses(t) /\ Written(t)'
  <2>1. t \in fifo[n] \/ t = TextOf(p)
    BY <1>3 DEF Apply
  <2> QED BY <1>1, <2>1, StillHonest DEF PipesHonest
<1>4. ASSUME NEW n \in Switches, NEW q \in admitted'[n]
      PROVE  q.src \in MIN_IP .. MAX_IP /\ \E w \in Switches : Wrote(w, q)'
  <2>1. q \in admitted[n] \/ q = p
    BY <1>4 DEF Apply, TypeOK
  <2> QED BY <1>1, <1>2, <2>1, Remembered DEF DeliveredAsWritten
<1> QED BY <1>3, <1>4 DEF PipesHonest, DeliveredAsWritten

LEMMA EndsKept ==
  ASSUME TypeOK, [Next]_vars, EndsOfNegative, ended' = ended
  PROVE  EndsOfNegative'
BY Remembered DEF EndsOfNegative

(* A switch that handles the header of an honest text.                     *)
LEMMA HandleHonest ==
  ASSUME TypeOK, AddressInv, [Next]_vars, NEW s \in Switches, NEW p \in Packet,
         NEW f \in [Switches -> SUBSET Text], \A n \in Switches : f[n] \subseteq fifo[n],
         Handle(s, p, f), ended' = ended, Written(TextOf(p))', Honest(s, TextOf(p))'
  PROVE  AddressInv'
<1>1. RulesFit' /\ EndsOfNegative'
  BY EndsKept DEF AddressInv, RulesFit, Handle
<1>2. CASE Matched(table[s], p) /\ Apply(s, p, f) /\ UNCHANGED <<unsolved, asked>>
  <2>1. PipesHonest' /\ DeliveredAsWritten'
    BY <1>2, ApplyHonest DEF AddressInv
  <2>2. ParkedHonest' /\ AskedHonest'
    BY <1>2, StillHonest DEF AddressInv, ParkedHonest, AskedHonest, Parked
  <2> QED BY <1>1, <2>1, <2>2 DEF AddressInv
<1>3. CASE /\ unsolved' = [unsolved EXCEPT ![s] = Append(@, TextOf(p))]
           /\ asked' = [asked EXCEPT ![s] = @ \cup {TextOf(p)}]
           /\ fifo' = f /\ UNCHANGED admitted
  <2>1. PipesHonest' /\ DeliveredAsWritten'
    BY <1>3, StillHonest, Remembered DEF AddressInv, PipesHonest, DeliveredAsWritten
  <2>2. AskedHonest'
    BY <1>3, StillHonest DEF AddressInv, AskedHonest, TypeOK
  <2>3. ASSUME NEW n \in Switches, NEW t \in Parked(n)'
        PROVE  Written(t)' /\ Honest(n, t)'
    <3>1. t \in Parked(n) \/ (n = s /\ t = TextOf(p))
      <4>1. unsolved[s] \in Seq(Text) /\ TextOf(p) \in Text
        BY TextType DEF TypeOK
      <4>2. unsolved' = [unsolved EXCEPT ![s] = Append(unsolved[s], TextOf(p))]
        BY <1>3
      <4>3. CASE n = s
        <5>1. unsolved'[n] = Append(unsolved[n], TextOf(p)) /\ unsolved[n] \in Seq(Text)
          BY <4>1, <4>2, <4>3 DEF TypeOK
        <5>2. PICK i \in 1 .. Len(unsolved'[n]) : t = unsolved'[n][i]
          BY DEF Parked
        <5>3. CASE i \in 1 .. Len(unsolved[n])
          BY <4>1, <5>1, <5>2, <5>3 DEF Parked
        <5>4. CASE i = Len(unsolved[n]) + 1
          BY <4>1, <4>3, <5>1, <5>2, <5>4
        <5> QED BY <4>1, <5>1, <5>3, <5>4
      <4>4. CASE n # s
        BY <4>2, <4>4 DEF Parked, TypeOK
      <4> QED BY <4>3, <4>4
    <3>2. CASE t \in Parked(n)
      BY <3>2, StillHonest DEF AddressInv, ParkedHonest
    <3> QED BY <3>1, <3>2
  <2> QED BY <1>1, <2>1, <2>2, <2>3 DEF AddressInv, ParkedHonest
<1> QED BY <1>2, <1>3 DEF Handle

(* Nothing changes but the ends of processes, and what has been taken.     *)
LEMMA QuietStep ==
  ASSUME TypeOK, AddressInv, [Next]_vars, UNCHANGED <<table, unsolved, admitted>>,
         \A s \in Switches : fifo'[s] \subseteq fifo[s] /\ asked'[s] \subseteq asked[s]
                             /\ added'[s] \subseteq added[s]
  PROVE  RulesFit' /\ ParkedHonest' /\ AskedHonest' /\ PipesHonest' /\ DeliveredAsWritten'
<1>1. RulesFit'
  BY DEF AddressInv, RulesFit
<1>2. ParkedHonest'
  BY StillHonest DEF AddressInv, ParkedHonest, Parked
<1>3. AskedHonest'
  BY StillHonest DEF AddressInv, AskedHonest
<1>4. PipesHonest'
  BY StillHonest DEF AddressInv, PipesHonest
<1>5. DeliveredAsWritten'
  BY Remembered DEF AddressInv, DeliveredAsWritten
<1> QED BY <1>1, <1>2, <1>3, <1>4, <1>5

LEMMA LineEnds ==
  ASSUME TypeOK, [Next]_vars, EndsOfNegative, NEW s \in Switches, NEW why,
         EndOf(s, why), why # "packet"
  PROVE  EndsOfNegative'
<1>1. Cont # s /\ ended \in [Processes -> Causes] /\ s \in Processes /\ Cont \in Processes
  BY SwitchesAssumption DEF TypeOK, Cont, Processes
<1>2. ended'[Cont] = ended[Cont] /\ \A u \in Switches : ended'[u] = "packet" => ended[u] = "packet"
  BY <1>1 DEF EndOf, Processes
<1> QED BY <1>2, Remembered DEF EndsOfNegative

LEMMA PacketEnds ==
  ASSUME TypeOK, [Next]_vars, EndsOfNegative, NEW s \in Switches, ReadNegative(s)',
         EndOf(s, "packet") \/ EndOf(Cont, "packet")
  PROVE  EndsOfNegative'
<1>1. Cont # s /\ ended \in [Processes -> Causes] /\ s \in Processes /\ Cont \in Processes
  BY SwitchesAssumption DEF TypeOK, Cont, Processes
<1>2. Cont \notin Switches
  BY SwitchesAssumption DEF Cont
<1>3. CASE EndOf(s, "packet")
  <2>1. ended'[Cont] = ended[Cont] /\ \A u \in Switches \ {s} : ended'[u] = ended[u]
    BY <1>1, <1>3 DEF EndOf, Processes
  <2> QED BY <2>1, Remembered DEF EndsOfNegative
<1>4. CASE EndOf(Cont, "packet")
  <2>1. \A u \in Switches : ended'[u] = ended[u]
    BY <1>1, <1>2, <1>4 DEF EndOf, Processes
  <2> QED BY <2>1, Remembered DEF EndsOfNegative
<1> QED BY <1>3, <1>4

(***************************************************************************)
(* A line that is handled is remembered, and what its two numbers have     *)
(* become fits in an int only if they have not changed.                    *)
(***************************************************************************)
LEMMA ReadLineHonest ==
  ASSUME TypeOK, AddressInv, NEW s \in Switches, ReadLine(s)
  PROVE  AddressInv'
<1>1. file \in Seq(Line) /\ read \in [Switches -> 0 .. Len(file)] /\ read[s] < Len(file)
  BY FilesAssumption DEF TypeOK, ReadLine
<1> PICK l \in Line : l = file[read[s] + 1]
  BY <1>1
<1>2. /\ l = file[read[s] + 1] /\ read'[s] = read[s] + 1 /\ file' = file
      /\ read[s] + 1 \in 1 .. read'[s] /\ file'[read[s] + 1] = l
  <2>1. file' = file /\ read' = [read EXCEPT ![s] = read[s] + 1]
    BY DEF ReadLine
  <2> QED BY <1>1, <2>1
<1>3. [Next]_vars
  BY DEF Next
<1>4. CASE UNCHANGED <<table, unsolved, asked, added, fifo, admitted>> /\ EndsOfNegative'
  BY <1>3, <1>4, QuietStep DEF AddressInv
<1>5. CASE /\ ~Ignored(l) /\ LineParses(l) /\ ~l.delay /\ Names(l, s)
           /\ Handle(s, LineHeader(l), fifo) /\ UNCHANGED ended
  <2>1. l.first \in Int /\ l.second \in Int /\ Fits(l.first) /\ Fits(l.second)
    BY <1>5 DEF Line, LineParses
  <2> PICK p \in Packet : p = LineHeader(l)
    BY <1>5, LineType
  <2>2. p = LineHeader(l) /\ p.src = ToUint(l.first) /\ p.dst = ToUint(l.second)
    BY DEF LineHeader
  <2>3. /\ Fits(p.src) => l.first >= 0 /\ p.src = l.first
        /\ Fits(p.dst) => l.second >= 0 /\ p.dst = l.second
    BY <2>1, <2>2, CastType
  <2>4. Written(TextOf(p))'
    <3>1. ASSUME Parses(TextOf(p)) PROVE Wrote(s, HeaderOf(TextOf(p)))'
      <4>1. l.first = p.src /\ l.second = p.dst
        BY <2>2, <2>3, <3>1, TextType
      <4>2. HeaderOf(TextOf(p)) = p
        BY <2>2, <3>1, BackAndForth
      <4> QED BY <1>2, <1>5, <4>1, <4>2 DEF Wrote
    <3> QED BY <3>1 DEF Written
  <2>5. Honest(s, TextOf(p))'
    <3>1. ASSUME ~Parses(TextOf(p)) PROVE ReadNegative(s)'
      <4>1. l.first < 0 \/ l.second < 0
        <5>1. ~Fits(p.src) \/ ~Fits(p.dst)
          BY <2>2, <3>1, TextType
        <5> QED BY <2>1, <2>2, <5>1, CastType
      <4> QED BY <1>2, <1>5, <4>1 DEF ReadNegative
    <3> QED BY <3>1 DEF Honest
  <2>6. fifo \in [Switches -> SUBSET Text]
    BY DEF TypeOK
  <2> QED BY <1>3, <1>5, <2>2, <2>4, <2>5, <2>6, HandleHonest
<1>6. EndsOfNegative
  BY DEF AddressInv
<1>7. ended' = ended => EndsOfNegative'
  BY <1>3, <1>6, EndsKept
<1>8. EndOf(s, "line") => EndsOfNegative'
  BY <1>3, <1>6, LineEnds
<1> QED BY <1>2, <1>4, <1>5, <1>7, <1>8 DEF ReadLine

LEMMA RecvRELAYHonest ==
  ASSUME TypeOK, AddressInv, NEW s \in Switches, RecvRELAY(s)
  PROVE  AddressInv'
<1>1. PICK t \in fifo[s] :
        IF Parses(t)
        THEN Handle(s, HeaderOf(t), [fifo EXCEPT ![s] = @ \ {t}]) /\ UNCHANGED ended
        ELSE /\ EndOf(s, "packet") /\ fifo' = [fifo EXCEPT ![s] = @ \ {t}]
             /\ UNCHANGED <<table, unsolved, asked, added, admitted>>
  BY DEF RecvRELAY
<1> DEFINE f == [fifo EXCEPT ![s] = @ \ {t}]
<1>2. t \in Text /\ f \in [Switches -> SUBSET Text] /\ \A n \in Switches : f[n] \subseteq fifo[n]
  BY DEF TypeOK
<1>3. Parses(t) /\ Written(t) /\ [Next]_vars
  BY DEF AddressInv, PipesHonest, Next
<1>4. Handle(s, HeaderOf(t), f) /\ UNCHANGED ended
  BY <1>1, <1>3
<1> HIDE DEF f
<1>5. HeaderOf(t) \in Packet /\ TextOf(HeaderOf(t)) = t
  BY <1>2, <1>3, HeaderType DEF TextOf, Text
<1>6. Written(t)' /\ Honest(s, t)'
  BY <1>3, StillHonest DEF Honest
<1>7. Written(TextOf(HeaderOf(t)))' /\ Honest(s, TextOf(HeaderOf(t)))'
  BY <1>5, <1>6
<1> QED BY <1>2, <1>3, <1>4, <1>5, <1>7, HandleHonest

(* The rule of an answer ends where a range does, or at an address asked   *)
(* for.                                                                    *)
LEMMA AnswerFits ==
  ASSUME NEW s \in Switches, NEW p \in Packet, Fits(p.dst)
  PROVE  RuleParses(MakeFlowEntry(Registry, s, p))
<1> DEFINE r == MakeFlowEntry(Registry, s, p)
<1>1. \/ r.dstLow = p.dst /\ r.dstHigh = p.dst
      \/ \E n \in Switches : r.dstLow = Registry[n].low /\ r.dstHigh = Registry[n].high
  BY DEF MakeFlowEntry, DropRule, DeliverRule, ForwardRule, NewRule, Known
<1>2. ASSUME NEW n \in Switches PROVE Fits(Registry[n].low) /\ Fits(Registry[n].high)
  <2>1. /\ Registry[n].low \in Nat /\ Registry[n].high \in Nat
        /\ Registry[n].low <= Registry[n].high /\ Registry[n].high <= MAX_IP
    BY RegistryAssumption DEF SwitchInfo
  <2> QED BY <2>1, MaxIPAssumption, WidthAssumption DEF Fits
<1> HIDE DEF r
<1>3. Fits(r.dstLow) /\ Fits(r.dstHigh)
  BY <1>1, <1>2
<1> QED BY <1>3 DEF RuleParses, r

LEMMA RecvQUERYHonest ==
  ASSUME TypeOK, AddressInv, NEW s \in Switches, RecvQUERY(s)
  PROVE  AddressInv'
<1>1. PICK t \in asked[s] :
        /\ asked' = [asked EXCEPT ![s] = @ \ {t}]
        /\ \/ ~Parses(t) /\ EndOf(Cont, "packet") /\ UNCHANGED added
           \/ /\ Parses(t)
              /\ added' = [added EXCEPT ![s] = @ \cup {MakeFlowEntry(Registry, s, HeaderOf(t))}]
              /\ UNCHANGED ended
  BY DEF RecvQUERY
<1>2. /\ t \in Text /\ Honest(s, t) /\ [Next]_vars
      /\ \A n \in Switches : asked'[n] \subseteq asked[n]
      /\ UNCHANGED <<table, unsolved, iter, fifo, admitted, file, read>>
  BY <1>1 DEF TypeOK, RecvQUERY, AddressInv, AskedHonest, Next
<1>3. CASE ~Parses(t) /\ EndOf(Cont, "packet") /\ UNCHANGED added
  <2>1. ReadNegative(s)'
    BY <1>2, <1>3, Remembered DEF Honest
  <2>2. EndsOfNegative'
    BY <1>2, <1>3, <2>1, PacketEnds DEF AddressInv
  <2> QED BY <1>2, <1>3, <2>2, QuietStep DEF AddressInv
<1>4. CASE /\ Parses(t)
           /\ added' = [added EXCEPT ![s] = @ \cup {MakeFlowEntry(Registry, s, HeaderOf(t))}]
           /\ UNCHANGED ended
  <2>1. HeaderOf(t) \in Packet /\ Fits(HeaderOf(t).dst)
    BY <1>2, <1>4, HeaderType DEF Parses
  <2>2. RuleParses(MakeFlowEntry(Registry, s, HeaderOf(t)))
    BY <2>1, AnswerFits
  <2>3. RulesFit'
    BY <1>2, <1>4, <2>2 DEF AddressInv, RulesFit, TypeOK
  <2>4. ParkedHonest'
    BY <1>2, StillHonest DEF AddressInv, ParkedHonest, Parked
  <2>5. AskedHonest'
    BY <1>2, StillHonest DEF AddressInv, AskedHonest
  <2>6. PipesHonest' /\ DeliveredAsWritten'
    BY <1>2, StillHonest, Remembered DEF AddressInv, PipesHonest, DeliveredAsWritten
  <2>7. EndsOfNegative'
    BY <1>2, <1>4, EndsKept DEF AddressInv
  <2> QED BY <2>3, <2>4, <2>5, <2>6, <2>7 DEF AddressInv
<1> QED BY <1>1, <1>3, <1>4

LEMMA RecvADDHonest ==
  ASSUME TypeOK, AddressInv, NEW s \in Switches, RecvADD(s)
  PROVE  AddressInv'
<1>1. PICK r \in added[s] :
        /\ added' = [added EXCEPT ![s] = @ \ {r}]
        /\ IF RuleParses(r)
           THEN /\ table' = [table EXCEPT ![s] = AddRule(@, r)]
                /\ iter' = [iter EXCEPT ![s] = 1] /\ UNCHANGED ended
           ELSE EndOf(s, "packet") /\ UNCHANGED <<table, iter>>
  BY DEF RecvADD
<1>2. /\ r \in Rule /\ RuleParses(r) /\ [Next]_vars
      /\ UNCHANGED <<unsolved, asked, fifo, admitted, file, read>>
  BY DEF TypeOK, AddressInv, RulesFit, RecvADD, Next
<1>3. table' = [table EXCEPT ![s] = AddRule(table[s], r)] /\ UNCHANGED ended
  BY <1>1, <1>2
<1>4. RulesFit'
  <2>1. ASSUME NEW n \in Switches, NEW i \in 1 .. Len(table'[n]) PROVE RuleParses(table'[n][i])
    <3>1. CASE n = s
      <4>1. table'[n] = AddRule(table[n], r) /\ table[n] \in Seq(Rule)
        BY <1>3, <3>1 DEF TypeOK
      <4>2. table'[n][i] = r \/ (i \in 1 .. Len(table[n]) /\ table'[n][i] = table[n][i])
        <5> DEFINE q == table[n]
        <5>1. /\ q \in Seq(Rule) /\ r \in Rule /\ table'[n] = AddRule(q, r)
              /\ i \in 1 .. Len(AddRule(q, r))
          BY <1>2, <4>1
        <5>2. AddRule(q, r)[i] = r \/ (i \in 1 .. Len(q) /\ AddRule(q, r)[i] = q[i])
          BY <5>1, AddRuleType
        <5> QED BY <5>1, <5>2
      <4> QED BY <1>2, <4>2 DEF AddressInv, RulesFit
    <3>2. CASE n # s
      BY <1>3, <3>2 DEF AddressInv, RulesFit, TypeOK
    <3> QED BY <3>1, <3>2
  <2>2. ASSUME NEW n \in Switches, NEW a \in added'[n] PROVE RuleParses(a)
    BY <1>1 DEF AddressInv, RulesFit, TypeOK
  <2> QED BY <2>1, <2>2 DEF RulesFit
<1>5. ParkedHonest' /\ AskedHonest'
  BY <1>2, StillHonest DEF AddressInv, ParkedHonest, Parked, AskedHonest
<1>6. PipesHonest' /\ DeliveredAsWritten'
  BY <1>2, StillHonest, Remembered DEF AddressInv, PipesHonest, DeliveredAsWritten
<1>7. EndsOfNegative'
  BY <1>2, <1>3, EndsKept DEF AddressInv
<1> QED BY <1>4, <1>5, <1>6, <1>7 DEF AddressInv

LEMMA ResolveUnsolvedHonest ==
  ASSUME TypeOK, AddressInv, NEW s \in Switches, ResolveUnsolved(s)
  PROVE  AddressInv'
<1> PICK t : t = unsolved[s][iter[s]]
  OBVIOUS
<1>1. /\ unsolved[s] \in Seq(Text) /\ iter[s] \in Nat /\ iter[s] > 0 /\ [Next]_vars
      /\ UNCHANGED <<table, asked, added, file, read>>
  BY DEF TypeOK, ResolveUnsolved, Next
<1>2. ASSUME iter[s] <= Len(unsolved[s])
      PROVE  iter[s] \in 1 .. Len(unsolved[s]) /\ t \in Text /\ Written(t) /\ Honest(s, t)
  <2>1. iter[s] \in 1 .. Len(unsolved[s]) /\ t \in Text
    BY <1>1, <1>2
  <2> QED BY <2>1 DEF AddressInv, ParkedHonest, Parked
<1>3. CASE UNCHANGED <<unsolved, fifo, admitted, ended>>
  BY <1>1, <1>3, QuietStep, EndsKept DEF AddressInv
<1>4. CASE /\ iter[s] <= Len(unsolved[s]) /\ ~Parses(t) /\ EndOf(s, "packet")
           /\ UNCHANGED <<unsolved, fifo, admitted>>
  <2>1. ReadNegative(s)'
    BY <1>1, <1>2, <1>4, Remembered DEF Honest
  <2>2. EndsOfNegative'
    BY <1>1, <1>4, <2>1, PacketEnds DEF AddressInv
  <2> QED BY <1>1, <1>4, <2>2, QuietStep DEF AddressInv
<1>5. CASE /\ iter[s] <= Len(unsolved[s])
           /\ Parses(t) /\ Matched(table[s], HeaderOf(t))
           /\ Apply(s, HeaderOf(t), fifo)
           /\ unsolved' = [unsolved EXCEPT ![s] = RemoveAt(@, iter[s])]
           /\ UNCHANGED <<iter, ended>>
  <2>1. /\ HeaderOf(t) \in Packet /\ TextOf(HeaderOf(t)) = t
        /\ fifo \in [Switches -> SUBSET Text]
    BY <1>2, <1>5, HeaderType DEF TypeOK, TextOf, Text
  <2>2. Written(TextOf(HeaderOf(t)))'
    <3>1. Written(t)'
      BY <1>1, <1>2, <1>5, StillHonest
    <3> QED BY <2>1, <3>1
  <2>3. PipesHonest' /\ DeliveredAsWritten'
    BY <1>1, <1>5, <2>1, <2>2, ApplyHonest DEF AddressInv
  <2>4. ASSUME NEW n \in Switches, NEW u \in Parked(n)' PROVE u \in Parked(n)
    <3>1. CASE n = s
      <4>1. unsolved'[s] = RemoveAt(unsolved[s], iter[s])
        BY <1>5 DEF TypeOK
      <4>2. PICK i \in 1 .. Len(unsolved'[s]) : u = unsolved'[s][i]
        BY <2>4, <3>1 DEF Parked
      <4> DEFINE q == unsolved[s]
      <4>3. /\ q \in Seq(Text) /\ iter[s] \in 1 .. Len(q)
            /\ Len(RemoveAt(q, iter[s])) = Len(q) - 1
            /\ \A j \in 1 .. Len(q) - 1 :
                 RemoveAt(q, iter[s])[j] = IF j < iter[s] THEN q[j] ELSE q[j + 1]
        BY <1>1, <1>2, <1>5, RemoveAtType
      <4>4. i \in 1 .. Len(q) /\ i + 1 \in 1 .. Len(q) /\ (u = q[i] \/ u = q[i + 1])
        <5>1. PICK k \in Nat : k = Len(q)
          BY <4>3
        <5>2. i \in 1 .. k - 1
          BY <4>1, <4>2, <4>3, <5>1
        <5> HIDE DEF q
        <5> QED BY <4>1, <4>2, <4>3, <5>1, <5>2 DEF q
      <4> QED BY <3>1, <4>4 DEF Parked
    <3>2. CASE n # s
      BY <1>5, <2>4, <3>2 DEF Parked, TypeOK
    <3> QED BY <3>1, <3>2
  <2>5. ParkedHonest'
    BY <1>1, <2>4, StillHonest DEF AddressInv, ParkedHonest
  <2>6. AskedHonest'
    BY <1>1, StillHonest DEF AddressInv, AskedHonest
  <2>7. RulesFit' /\ EndsOfNegative'
    BY <1>1, <1>5, EndsKept DEF AddressInv, RulesFit
  <2> QED BY <2>3, <2>5, <2>6, <2>7 DEF AddressInv
<1> QED BY <1>3, <1>4, <1>5 DEF ResolveUnsolved

LEMMA AddressStep == TypeOK /\ AddressInv /\ [Next]_vars => AddressInv'
<1>1. ASSUME TypeOK, AddressInv, UNCHANGED vars PROVE AddressInv'
  <2>1. [Next]_vars
    BY <1>1
  <2> QED BY <1>1, <2>1, QuietStep, EndsKept DEF vars, AddressInv
<1> QED BY <1>1, ReadLineHonest, RecvRELAYHonest, RecvQUERYHonest, RecvADDHonest,
           ResolveUnsolvedHonest DEF Next

LEMMA AddressInit == Init => AddressInv
<1> SUFFICES ASSUME Init PROVE AddressInv
  OBVIOUS
<1>1. RulesFit
  <2>1. ASSUME NEW s \in Switches, NEW i \in 1 .. Len(table[s]) PROVE RuleParses(table[s][i])
    <3>1. table[s][i] = InitRule([low |-> Registry[s].low, high |-> Registry[s].high])
      BY DEF Init
    <3>2. /\ Registry[s].low \in Nat /\ Registry[s].high \in Nat
          /\ Registry[s].low <= Registry[s].high /\ Registry[s].high <= MAX_IP
      BY RegistryAssumption DEF SwitchInfo
    <3>3. Fits(Registry[s].low) /\ Fits(Registry[s].high)
      BY <3>2, MaxIPAssumption, WidthAssumption DEF Fits
    <3> QED BY <3>1, <3>3 DEF RuleParses, InitRule, NewRule
  <2> QED BY <2>1 DEF RulesFit, Init
<1>2. ParkedHonest /\ AskedHonest /\ PipesHonest /\ DeliveredAsWritten
  BY DEF Init, ParkedHonest, Parked, AskedHonest, PipesHonest, DeliveredAsWritten
<1>3. EndsOfNegative
  BY DEF Init, EndsOfNegative, Processes
<1> QED BY <1>1, <1>2, <1>3 DEF AddressInv

(* Every variable keeps its type: what is read from text are numbers of    *)
(* their width, and the place in unsolvedPackets stays within the list.    *)
THEOREM AddressTypes == Spec => []TypeOK
BY TypeInit, TypeStep, PTL DEF Spec

LEMMA AddressInvariant == Spec => [](TypeOK /\ AddressInv)
BY TypeInit, TypeStep, AddressInit, AddressStep, PTL DEF Spec

(***************************************************************************)
(* For every chain, traffic file and width of int: a packet is delivered   *)
(* with the numbers that stand in the traffic file of some switch, though  *)
(* they are cast and converted at every hop (resolvePacket, stoi).         *)
(***************************************************************************)
THEOREM Delivered == Spec => []DeliveredAsWritten
<1>1. AddressInv => DeliveredAsWritten
  BY DEF AddressInv
<1> QED BY <1>1, AddressInvariant, PTL

(***************************************************************************)
(* No switch is ended by what another one, or the controller, has sent it: *)
(* every RELAY and ADD on the way has numbers that stoi accepts.           *)
(***************************************************************************)
THEOREM NumbersSent == Spec => []OthersSendNumbers
<1>1. AddressInv => OthersSendNumbers
  BY DEF AddressInv, RulesFit, PipesHonest, OthersSendNumbers
<1> QED BY <1>1, AddressInvariant, PTL

(***************************************************************************)
(* A process that ends inside a packet handler does so because of a        *)
(* negative address in a traffic file (respondQUERYPacket,                 *)
(* resolveUnsolvedPackets).                                                *)
(***************************************************************************)
THEOREM NegativeEnds == Spec => []EndsOfNegative
<1>1. AddressInv => EndsOfNegative
  BY DEF AddressInv
<1> QED BY <1>1, AddressInvariant, PTL
=============================================================================
