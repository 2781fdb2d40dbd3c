------------------------------ MODULE MCA3sdn ------------------------------
(***************************************************************************)
(* Instances of A3sdn for TLC: the networks, ranges and traffic files the  *)
(* configurations choose from.  Switch i serves the single address i, so   *)
(* that ranges are disjoint; address 0 belongs to nobody.                  *)
(***************************************************************************)
EXTENDS A3sdnSession

(* A chain sw1 - sw2 - ...                                                 *)
ChainLeft == [s \in Switches |-> IF s - 1 \in Switches THEN s - 1 ELSE Null]
ChainRight == [s \in Switches |-> IF s + 1 \in Switches THEN s + 1 ELSE Null]

(* A ring of the first three switches; a fourth one stands alone.          *)
RingLeft == [s \in Switches |-> IF s = 1 THEN 3 ELSE IF s = 4 THEN Null ELSE s - 1]
RingRight == [s \in Switches |-> IF s = 3 THEN 1 ELSE IF s = 4 THEN Null ELSE s + 1]

OwnRange == [s \in Switches |-> {[low |-> s, high |-> s]}]

(* A switch that may be started with another range the next time.          *)
MovingRange ==
  [s \in Switches |-> {[low |-> s, high |-> s]}
     \cup IF s = 2 THEN {[low |-> 3, high |-> 3]} ELSE {}]

To(dsts) == [src : {0}, dst : dsts]

(* A chain of three.  Its ends send to each other, the middle to sw1 and   *)
(* itself; sw1 also sends to an address nobody serves, sw3 from a source   *)
(* beyond MAX_IP.                                                          *)
LineTraffic ==
  [s \in Switches |->
     IF s = 1 THEN To({0, 3})
     ELSE IF s = 2 THEN To({1, 2})
     ELSE To({1}) \cup [src : {MAX_IP + 1}, dst : {1}]]

(* The ends send to each other, the middle to both.                        *)
EndsTraffic ==
  [s \in Switches |-> To(IF s = 2 THEN {1, 3} ELSE {4 - s})]

(* Every switch sends to all others.                                       *)
OtherTraffic == [s \in Switches |-> To(Switches \ {s})]

(* Only one sends: sw1 to sw2, or sw3 to an address nobody serves.         *)
FirstToSecond == [s \in Switches |-> IF s = 1 THEN To({2}) ELSE {}]
ThirdToNobody == [s \in Switches |-> IF s = 3 THEN To({0}) ELSE {}]
=============================================================================
