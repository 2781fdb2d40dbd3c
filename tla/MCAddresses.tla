---------------------------- MODULE MCAddresses ----------------------------
(* A chain of three, each switch with one address, and lines at the edges  *)
(* of the integer types.                                                   *)
EXTENDS Addresses

Chain ==
  [s \in Switches |->
     [left |-> s - 1, right |-> IF s + 1 \in Switches THEN s + 1 ELSE Null,
      low |-> s - 1, high |-> s - 1]]

Sw(n) == [form |-> "sw", num |-> n]
Route(n, a, b) == [words |-> 3, name |-> Sw(n), delay |-> FALSE, first |-> a, second |-> b]
DelayLine(n, d) == [words |-> 3, name |-> Sw(n), delay |-> TRUE, first |-> 0, second |-> d]
Comment == [words |-> 1, name |-> [form |-> "other", num |-> 0], delay |-> FALSE,
            first |-> 0, second |-> 0]

(* A valid packet, one from the largest source, one from a negative one.   *)
Edges == {Route(1, 0, 2), Route(1, INT_MAX, 1), Route(1, -1, 2), Route(2, 2, -1)}

(* A time that is no int, a switch beyond the limit, a comment.            *)
Broken == {DelayLine(2, INT_MAX + 1), Route(MAX_SWITCHES + 1, 0, 1),
           DelayLine(1, 3), Comment, Route(1, INT_MAX + 1, 0)}

FilesOf(L) == {<<a, b, c>> : a, b, c \in L}
EdgeFiles == FilesOf(Edges)
BrokenFiles == FilesOf(Broken)
AllFiles == FilesOf(Edges \cup Broken)
=============================================================================
