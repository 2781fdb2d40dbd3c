------------------------------ MODULE Routing ------------------------------
(***************************************************************************)
(* Controller::makeFlowEntry: the rule the controller answers a QUERY with.*)
(*                                                                         *)
(* The controller looks for the switch that serves the destination: first  *)
(* the asking switch, then along the chain of left neighbours it knows,    *)
(* then along the right ones.  The program computes this by calling itself *)
(* for the neighbour and copying the range of the entry that comes back;   *)
(* here Search finds the serving switch and MakeFlowEntry copies its       *)
(* range once.                                                             *)
(***************************************************************************)
EXTENDS Flow, Integers, FiniteSets

CONSTANT Switches        \* the ids of the switches that may be started

ASSUME SwitchesAssumption == Switches \subseteq Nat \ {0} /\ IsFiniteSet(Switches)

Null == 0                \* NULL_SWITCH_ID
NotKnown == [left |-> Null, right |-> Null, low |-> 1, high |-> 0]

(***************************************************************************)
(* What the controller stores about a switch (the upkeep constructor of    *)
(* Switch): its neighbours and its range.  `switches', a vector sorted by  *)
(* id and searched by id, is a function here, NotKnown where the vector    *)
(* has no element.  A switch that is known has a different entry, since    *)
(* validateIPRange refuses a range with low > high.                        *)
(***************************************************************************)
SwitchInfo == [left : Nat, right : Nat, low : Nat, high : Nat]

Known(reg) == {s \in Switches : reg[s] # NotKnown}

(* A slip for a mutant: only one end of the range is tested.               *)
FromLow(reg, s, dst) == reg[s].low <= dst
InRange(reg, s, dst) == reg[s].low <= dst /\ dst <= reg[s].high

(* A neighbour m that is not examined: there is none, or the question came *)
(* from it (lastSwitchID).  SkippedNone is a mutant without that test.     *)
SkippedNone(m, from) == m \notin Switches
Skipped(m, from) == m \notin Switches \/ m = from

(***************************************************************************)
(* The switch serving dst that is found when neighbour n is examined for   *)
(* switch `from': n itself, or what n's left neighbour leads to, or what   *)
(* its right one leads to, never going back to `from'.  Null: nothing is   *)
(* found (the entry would be DROP).  Round is one call of makeFlowEntry    *)
(* for each pair <<n, from>>, given what F says of the calls it makes.     *)
(*                                                                         *)
(* Search(reg, dst)[k] is the outcome of each call when calls may be k     *)
(* deep.  The program bounds nothing: it recurses for ever if it comes to  *)
(* the same switch from the same neighbour again.  There are Fuel pairs,   *)
(* so a search that uses up its fuel is one that never returns: Loops.     *)
(***************************************************************************)
Loops == -1

Pairs == Switches \X Switches
Fuel == Cardinality(Switches) * Cardinality(Switches)

Round(reg, dst, F) ==
  [e \in Pairs |->
     LET n == e[1]
         Via(m) == IF Skipped(m, e[2]) THEN Null ELSE F[<<m, n>>]
         left == Via(reg[n].left)
     IN IF n \notin Known(reg) THEN Null
        ELSE IF InRange(reg, n, dst) THEN n
        ELSE IF left # Null THEN left
        ELSE Via(reg[n].right)]

Search(reg, dst) ==
  LET Find[k \in 0 .. Fuel] ==
        IF k = 0 THEN [e \in Pairs |-> Loops] ELSE Round(reg, dst, Find[k - 1])
  IN Find

(* The search of the asking switch s through its neighbour n.              *)
Found(reg, s, n, dst) == Search(reg, dst)[Fuel][<<n, s>>]

Server(reg, s, n, dst) == IF Skipped(n, s) THEN Null ELSE Found(reg, s, n, dst)

LeftServer(reg, s, dst) == Server(reg, s, reg[s].left, dst)

(* A slip for a mutant: the second lookup copied from the first.           *)
RightServerCopied(reg, s, dst) == Server(reg, s, reg[s].left, dst)
RightServer(reg, s, dst) == Server(reg, s, reg[s].right, dst)

(* A slip for a mutant: the entry for the left side copied from the right. *)
ForwardRuleCopied(port, info) == NewRule(info.low, info.high, FORWARD, PORT_2)
ForwardRule(port, info) == NewRule(info.low, info.high, FORWARD, port)
DropRule(dst) == NewRule(dst, dst, DROP, PORT_0)
DeliverRule(dst) == NewRule(dst, dst, DELIVER, PORT_3)

(* The neighbours of s are examined: s is known, the source is valid and   *)
(* the destination is not in the range of s.                               *)
LooksAround(reg, s, p) ==
  s \in Known(reg) /\ p.src <= MAX_IP /\ ~InRange(reg, s, p.dst)

(* The recursion does not end and the controller runs out of stack.        *)
SearchLoops(reg, s, p) ==
  LET left == LeftServer(reg, s, p.dst)
  IN /\ LooksAround(reg, s, p)
     /\ \/ left = Loops
        \/ left = Null /\ RightServer(reg, s, p.dst) = Loops

(* The answer to the QUERY of s for packet p.                              *)
MakeFlowEntry(reg, s, p) ==
  LET left == LeftServer(reg, s, p.dst)
      right == RightServer(reg, s, p.dst)
  IN IF s \notin Known(reg) \/ p.src > MAX_IP THEN DropRule(p.dst)
     ELSE IF InRange(reg, s, p.dst) THEN DeliverRule(p.dst)
     ELSE IF left \in Known(reg) THEN ForwardRule(PORT_1, reg[left])
     ELSE IF right \in Known(reg) THEN ForwardRule(PORT_2, reg[right])
     ELSE DropRule(p.dst)
=============================================================================
