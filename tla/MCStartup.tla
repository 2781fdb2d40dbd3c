------------------------------ MODULE MCStartup ------------------------------
(* Startup with the command lines of two neighbours, good and bad.         *)
EXTENDS Startup

Null == [form |-> "null", num |-> 0]
Sw(n) == [form |-> "sw", num |-> n]
NoMatch == [form |-> "other", num |-> 0]

Good(s) ==
  [id |-> Sw(s), left |-> IF s = 1 THEN Null ELSE Sw(1), right |-> IF s = 1 THEN Sw(2) ELSE Null,
   range |-> [low |-> s, high |-> s], host |-> "v4", port |-> 2, file |-> TRUE]

Bad(s) ==
  {[Good(s) EXCEPT !.id = Sw(MAX_SWITCHES + 1)], [Good(s) EXCEPT !.right = NoMatch],
   [Good(s) EXCEPT !.range = [low |-> 2, high |-> 1]],
   [Good(s) EXCEPT !.range = [low |-> 0, high |-> -1]],
   [Good(s) EXCEPT !.range = [low |-> 0, high |-> INT_MAX + 1]],
   [Good(s) EXCEPT !.host = "unknown"], [Good(s) EXCEPT !.host = "v6"],
   [Good(s) EXCEPT !.file = FALSE],
   [Good(s) EXCEPT !.port = 3], [Good(s) EXCEPT !.port = INT_MAX + 1]}

Alone(s) == [Good(s) EXCEPT !.left = Null, !.right = Null]

Lines == [s \in Switches |-> IF s = 1 THEN {Good(s), Alone(s)} \cup Bad(s)
                             ELSE {Good(s), [Good(s) EXCEPT !.id = Null]}]
Server == [nSwitches : {-1, 2, MAX_SWITCHES + 1}, port : {2}]

Earlier == {<<1, 2>>, <<2, 1>>}
=============================================================================
