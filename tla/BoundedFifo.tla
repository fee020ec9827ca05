---------------------------- MODULE BoundedFifo ----------------------------
(***************************************************************************)
(* What a circular buffer promises its users: a queue of at most Size      *)
(* bytes.  A write takes as many bytes as there is room for and says how   *)
(* many; a read returns the oldest bytes.                                  *)
(***************************************************************************)
EXTENDS Integers, Sequences

CONSTANTS Byte, Size, MaxLen

VARIABLES
    q,      \* the bytes held, oldest first
    ret     \* the bytes the last operation accepted or returned

Take(s, n) == SubSeq(s, 1, n)
Drop(s, n) == SubSeq(s, n + 1, Len(s))
Least(a, b) == IF a <= b THEN a ELSE b

Init == q = <<>> /\ ret = <<>>

\* Bytes s are offered and the first n of them accepted, where n is at most
\* the room there is.
Write(s, n) ==
    /\ n <= Least(Len(s), Size - Len(q))
    /\ q' = q \o Take(s, n)
    /\ ret' = Take(s, n)

\* The n oldest bytes are returned.
Read(n) ==
    /\ n <= Len(q)
    /\ q' = Drop(q, n)
    /\ ret' = Take(q, n)

Next ==
    \/ \E k \in 0..MaxLen : \E s \in [1..k -> Byte] :
         \E n \in 0..Least(k, Size - Len(q)) : Write(s, n)
    \/ \E n \in 0..Least(MaxLen, Len(q)) : Read(n)

Spec == Init /\ [][Next]_<<q, ret>>

=============================================================================
