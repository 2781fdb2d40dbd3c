------------------------------- MODULE Stream -------------------------------
(***************************************************************************)
(* Messages in a pipe or a socket as the reader meets them: bytes.  A      *)
(* message has MessageUnits of them, a read takes up to BufferUnits, and   *)
(* the program looks at the start of what it read.  There it finds a whole *)
(* message, or the rest of one that the read before has cut in two.        *)
(***************************************************************************)
EXTENDS Naturals, Sequences

CONSTANTS MessageUnits, BufferUnits

(* A message fits into the buffer, and a write of one is not divided.      *)
ASSUME UnitsAssumption ==
  MessageUnits \in Nat \ {0} /\ BufferUnits \in Nat /\ BufferUnits > MessageUnits

(* msgs: the messages not yet read to the end; cut: how much of the first  *)
(* one has been read.                                                      *)
Streams(M) == [msgs : Seq(M), cut : 0 .. MessageUnits - 1]

Empty == [msgs |-> <<>>, cut |-> 0]

IsEmpty(st) == st.msgs = <<>>

Put(st, m) == [st EXCEPT !.msgs = Append(@, m)]

(* The text that a read obtains starts with a message of its own.          *)
StartsWhole(st) == st.cut = 0

(* What one read of the buffer's size leaves.                              *)
AfterRead(st) ==
  LET left == Len(st.msgs) * MessageUnits - st.cut - BufferUnits
      keep == (left + MessageUnits - 1) \div MessageUnits
  IN IF left <= 0 THEN Empty
     ELSE [msgs |-> SubSeq(st.msgs, Len(st.msgs) - keep + 1, Len(st.msgs)),
           cut |-> keep * MessageUnits - left]
=============================================================================
