---------------------------- MODULE MCSwitchPass ----------------------------
(* SwitchPass with small pipes, buffers and traffic files.                 *)
EXTENDS SwitchPass

Both == Ports

Route(p) == [kind |-> "route", dst |-> p]
Delay(d) == [kind |-> "delay", ms |-> d]
Other == [kind |-> "other"]

(* A delay, a line of another switch, a packet for the right neighbour.    *)
DelayThenRight == <<Delay(1), Other, Route(PORT_2)>>

(* The left neighbour sends what is for this switch; the right one what is *)
(* for the left, or what it will get back.                                 *)
FromBothSides == (PORT_1 :> {PORT_3}) @@ (PORT_2 :> {PORT_1, PORT_2})
=============================================================================
