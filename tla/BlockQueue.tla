----------------------------- MODULE BlockQueue -----------------------------
(***************************************************************************)
(* What an audio stream promises (module-audio/Audio/AbstractStream.hpp):  *)
(* "The data is stored in blocks and accessed just like in a regular       *)
(* FIFO".  The reader may look at blocks before it gives them back.        *)
(***************************************************************************)
EXTENDS Naturals, Sequences

CONSTANTS Blocks,     \* what can be written
          Capacity    \* most blocks the stream holds

VARIABLES data,       \* blocks written and not given back
          peeked,     \* how many of them the reader has seen
          out         \* the blocks of this connection the reader has seen

vars == <<data, peeked, out>>

Init == data = <<>> /\ peeked = 0 /\ out = <<>>

Write(b) ==
    /\ Len(data) < Capacity
    /\ data' = Append(data, b)
    /\ UNCHANGED <<peeked, out>>

\* What is left after the reader gave back the blocks it has seen.
Rest == SubSeq(data, peeked + 1, Len(data))

\* The reader gives back what it has seen and looks at the next block.
ReadNext ==
    /\ data' = Rest
    /\ peeked' = IF Rest = <<>> THEN 0 ELSE 1
    /\ out' = IF Rest = <<>> THEN out ELSE Append(out, Head(Rest))

Reset == data' = <<>> /\ peeked' = 0 /\ out' = <<>>

Next ==
    \/ \E b \in Blocks : Write(b)
    \/ ReadNext
    \/ Reset

Spec == Init /\ [][Next]_vars
=============================================================================
