---------------------------- MODULE BoundedFifo ----------------------------
(***************************************************************************)
(* What aios-ringbuf promises to the two blocks it connects: a first-in    *)
(* first-out byte stream of bounded length.  A producer appends a chunk as *)
(* a whole or not at all, a consumer removes a prefix, and the bytes the   *)
(* consumer is handed are exactly the oldest ones, in order.               *)
(***************************************************************************)
EXTENDS Naturals, Sequences

CONSTANTS Byte,     \* the values of one byte that the checks tell apart
          Bound     \* the bytes the stream holds at most

VARIABLES fifo,     \* the bytes published and not yet consumed, oldest first
          out       \* the bytes the last completed read handed out

Init ==
  /\ fifo = <<>>
  /\ out = <<>>

\* A chunk is appended; it is what the stream has gained at its end.
Put ==
  /\ Len(fifo) <= Len(fifo')
  /\ Len(fifo') <= Bound
  /\ SubSeq(fifo', 1, Len(fifo)) = fifo
  /\ UNCHANGED out

Get ==
  \E n \in 0..Len(fifo) :
    /\ out' = SubSeq(fifo, 1, n)
    /\ fifo' = SubSeq(fifo, n + 1, Len(fifo))

Reset ==
  /\ fifo' = <<>>
  /\ UNCHANGED out

Next == Put \/ Get \/ Reset

Spec == Init /\ [][Next]_<<fifo, out>>
=============================================================================
