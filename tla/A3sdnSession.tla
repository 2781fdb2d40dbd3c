---------------------------- MODULE A3sdnSession ----------------------------
(***************************************************************************)
(* The running network as an implementation of Session: what the           *)
(* connections, the two event loops and the counters amount to.            *)
(***************************************************************************)
EXTENDS A3sdn

(* A switch is a member from the first ACK it has read.                    *)
PhaseOf(s) ==
  IF ~alive[s] THEN "down"
  ELSE IF count[s]["rACK"] = 0 THEN "opening" ELSE "member"

Contract == INSTANCE Session WITH
  Ids <- Switches,
  serving <- ctrlUp,
  opened <- {s \in Switches : starts[s] > 0},
  registered <- Known(registry),
  phase <- [s \in Switches |-> PhaseOf(s)],
  asked <- [s \in Switches |-> count[s]["tQUERY"]],
  learned <- [s \in Switches |-> count[s]["rADD"]],
  rules <- [s \in Switches |-> Len(table[s])]

(***************************************************************************)
(* The network implements the contract of Session.  Although messages are  *)
(* lost with the ones read before them or because of a RELAY that was cut, *)
(* connections of one switch overlap and either side may end, a switch is  *)
(* never acknowledged nor given a rule before it is registered, never      *)
(* acknowledged after a rule, and never given two rules for one question   *)
(* (check_sock, respondOPENPacket, respondQUERYPacket, respondADDPacket).  *)
(***************************************************************************)
ContractKept == Contract!Spec
=============================================================================
