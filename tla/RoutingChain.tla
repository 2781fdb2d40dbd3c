---------------------------- MODULE RoutingChain ----------------------------
(***************************************************************************)
(* makeFlowEntry on its own, against a definition that does not search.    *)
(* The controller of a chain 1 - 2 - ... - N learns of the switches in any *)
(* order and with any ranges, overlapping ones included, and switches come *)
(* back with other ranges; in every registry so reached the properties     *)
(* below compare the answers to every possible QUERY.                      *)
(***************************************************************************)
EXTENDS Routing

VARIABLE registry

ChainInfo(s, range) ==
  [left |-> IF s - 1 \in Switches THEN s - 1 ELSE Null,
   right |-> IF s + 1 \in Switches THEN s + 1 ELSE Null,
   low |-> range.low, high |-> range.high]

Init == registry = [s \in Switches |-> NotKnown]

Open(s) ==
  \E range \in IPRange :
    registry' = [registry EXCEPT ![s] = ChainInfo(s, range)]

Next == \E s \in Switches : Open(s)

Spec == Init /\ [][Next]_registry

Packets == [src : {0, MAX_IP, MAX_IP + 1}, dst : 0 .. MAX_IP + 1]

-----------------------------------------------------------------------------
(* The known switches that serve dst and that nothing unknown separates    *)
(* from s.                                                                 *)
Between(s, t) == (s .. t) \cup (t .. s)

Candidates(s, dst) ==
  {t \in Known(registry) : /\ InRange(registry, t, dst)
                           /\ Between(s, t) \subseteq Known(registry)}

Nearest(s, T) ==
  CHOOSE t \in T : \A u \in T : Cardinality(Between(s, t)) <= Cardinality(Between(s, u))

Expected(s, p) ==
  LET lefts == {t \in Candidates(s, p.dst) : t < s}
      rights == {t \in Candidates(s, p.dst) : t > s}
      exact(type, val) == NewRule(p.dst, p.dst, type, val)
      to(port, t) == NewRule(registry[t].low, registry[t].high, FORWARD, port)
  IN IF p.src > MAX_IP THEN exact(DROP, PORT_0)
     ELSE IF s \in Candidates(s, p.dst) THEN exact(DELIVER, PORT_3)
     ELSE IF lefts # {} THEN to(PORT_1, Nearest(s, lefts))
     ELSE IF rights # {} THEN to(PORT_2, Nearest(s, rights))
     ELSE exact(DROP, PORT_0)

(***************************************************************************)
(* The answer names the nearest server on the left, else the nearest on    *)
(* the right, else drops; an unknown switch in between hides what is       *)
(* beyond it.                                                              *)
(***************************************************************************)
AnswerIsNearest ==
  \A s \in Switches : \A p \in Packets :
    MakeFlowEntry(registry, s, p) = Expected(s, p)

(***************************************************************************)
(* The rule sent for a packet matches that packet, so that the switch      *)
(* which parked it can resolve it; only an invalid source escapes it.      *)
(***************************************************************************)
AnswerResolves ==
  \A s \in Switches : \A p \in Packets :
    p.src <= MAX_IP <=> Matches(MakeFlowEntry(registry, s, p), p)

(***************************************************************************)
(* A switch that is told to forward gets the same story from the next hop: *)
(* the neighbour, asked about the same packet, delivers it or forwards it  *)
(* onwards, and neither drops it nor sends it back.                        *)
(***************************************************************************)
HopsAgree ==
  \A s \in Switches : \A p \in Packets :
    LET rule == MakeFlowEntry(registry, s, p)
        next == IF rule.actionVal = PORT_1 THEN registry[s].left ELSE registry[s].right
    IN IsRelay(rule) =>
         LET onwards == MakeFlowEntry(registry, next, p)
         IN IsLocal(onwards) \/ onwards.actionVal = rule.actionVal

(* On a chain the search returns, whatever the controller has been told.   *)
SearchEnds ==
  \A s \in Switches : \A p \in Packets : ~SearchLoops(registry, s, p)
=============================================================================
