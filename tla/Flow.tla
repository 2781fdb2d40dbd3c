-------------------------------- MODULE Flow --------------------------------
(***************************************************************************)
(* Flow entries and the lookup in a flow table: flow.h and                 *)
(* Switch::getFlowEntryIndex, with the initial rule of Switch::Switch.     *)
(*                                                                         *)
(* A FlowEntry of the program has eight fields.  Every entry the program   *)
(* builds has srcIPLow = MIN_IP, srcIPHigh = MAX_IP and pri = MIN_PRI, so   *)
(* a Rule keeps the other five and Matches tests the source against the    *)
(* constants.  MIN_IP, MAX_IP, the actions and the ports keep their names  *)
(* and, except MAX_IP, their values.                                       *)
(***************************************************************************)
EXTENDS Naturals, Sequences, SequencesExt

CONSTANT MAX_IP          \* 1000 in flow.h; small in a run of TLC

ASSUME MaxIPAssumption == MAX_IP \in Nat

MIN_IP == 0

DELIVER == 0
FORWARD == 1
DROP == 2

PORT_0 == 0              \* no port: the port of a DROP rule
PORT_1 == 1              \* the left neighbour
PORT_2 == 2              \* the right neighbour
PORT_3 == 3              \* the switch itself

(***************************************************************************)
(* A packet header: two unsigned integers.  Neither is checked against     *)
(* MAX_IP before the lookup, so a source beyond MAX_IP is a legal input.   *)
(***************************************************************************)
Packet == [src : Nat, dst : Nat]

(* What parseIPRange lets through: it exits on all others.                 *)
IPRange ==
  {r \in [low : MIN_IP .. MAX_IP, high : MIN_IP .. MAX_IP] : r.low <= r.high}

Rule == [dstLow : Nat, dstHigh : Nat, actionType : {DELIVER, FORWARD, DROP},
         actionVal : PORT_0 .. PORT_3, pktCount : Nat]

NewRule(low, high, type, val) ==
  [dstLow |-> low, dstHigh |-> high, actionType |-> type, actionVal |-> val,
   pktCount |-> 0]

(* The rule every switch starts with: its own range leaves by port 3.      *)
InitRule(range) == NewRule(range.low, range.high, FORWARD, PORT_3)

(* FORWARD:3 and DELIVER mean the same: the packet is for this switch.     *)
IsLocal(r) ==
  \/ r.actionType = DELIVER
  \/ r.actionType = FORWARD /\ r.actionVal = PORT_3

IsRelay(r) == r.actionType = FORWARD /\ r.actionVal \in {PORT_1, PORT_2}

(* Slips for mutants: the source is not looked at; the upper bound of the   *)
(* destination is excluded.                                                *)
MatchesAnySource(r, p) == r.dstLow <= p.dst /\ p.dst <= r.dstHigh
MatchesBelowHigh(r, p) ==
  /\ MIN_IP <= p.src /\ p.src <= MAX_IP
  /\ r.dstLow <= p.dst /\ p.dst < r.dstHigh

Matches(r, p) ==
  /\ MIN_IP <= p.src /\ p.src <= MAX_IP
  /\ r.dstLow <= p.dst /\ p.dst <= r.dstHigh

(***************************************************************************)
(* The index of the first rule that matches, in table order; 0 stands for  *)
(* the -1 the program returns when there is none.                          *)
(***************************************************************************)
FlowEntryIndex(table, p) == SelectInSeq(table, LAMBDA r : Matches(r, p))

(***************************************************************************)
(* operator== of flow.h: the packet counter does not take part             *)
(* (SameRuleAndCount is a mutant in which it does).                        *)
(***************************************************************************)
SameRuleAndCount(a, b) == a = b

SameRule(a, b) ==
  /\ a.dstLow = b.dstLow /\ a.dstHigh = b.dstHigh
  /\ a.actionType = b.actionType /\ a.actionVal = b.actionVal

(* The first half of respondADDPacket: append the rule unless an equal one *)
(* is in the table.                                                        *)
AddRule(table, r) ==
  IF \E i \in 1 .. Len(table) : SameRule(table[i], r)
  THEN table
  ELSE Append(table, r)
=============================================================================
