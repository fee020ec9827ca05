------------------------------ MODULE CBuffer ------------------------------
(***************************************************************************)
(* The circular buffer of cbuffer.c, used for every charpipe.  A write or  *)
(* a read wraps around the end of the array at most once, so the copying   *)
(* loop makes at most two rounds: here the two copies of one call.         *)
(***************************************************************************)
EXTENDS Integers, Sequences

CONSTANTS
    Byte,       \* byte values
    Size,       \* cb->size
    MaxLen      \* bound on the length a caller passes

ASSUME CBufferAssumption == Size \in Nat \ {0} /\ MaxLen \in Nat

VARIABLES
    buff,       \* cb->buff, positions 0..Size-1
    rpos,       \* cb->rpos
    count,      \* cb->count
    ret         \* history: the bytes the last call accepted or returned

cbVars == <<buff, rpos, count, ret>>

Least(a, b) == IF a <= b THEN a ELSE b

\* "if (pos >= cb->size) pos -= cb->size"
Wrap(pos) == IF pos >= Size THEN pos - Size ELSE pos

\* cbuffer_reset: the array itself is not cleared.
cbuffer_reset ==
    /\ buff \in [0..Size - 1 -> Byte]
    /\ rpos = 0
    /\ count = 0
    /\ ret = <<>>

-----------------------------------------------------------------------------
\* The length of the first copy of cbuffer_write, and the most that
\* cbuffer_write_peek offers: the room, cut at the end of the array.
WriteChunk(len) == Least(Least(Size - count, Size - Wrap(rpos + count)), len)

\* The length of the first copy of cbuffer_read, and the most that
\* cbuffer_read_peek offers: what is held, cut at the end of the array.
ReadChunk(len) == Least(Least(count, Size - rpos), len)

\* Mutant of SecondChunk: the loop ends after the first copy.
NoSecondChunk(len, c1) == 0

\* The length of the second copy of cbuffer_write after one of c1 bytes.
SecondChunk(len, c1) == Least(Size - count - c1, len - c1)

\* Mutant of Remaining: the second copy starts from the first byte again.
NotAdvanced(from, c1) == from

\* What is left to write: "from += avail".
Remaining(from, c1) == SubSeq(from, c1 + 1, Len(from))

\* cbuffer_write: one copy up to the end of the array and, if bytes and room
\* remain, one from its start.
cbuffer_write(from) ==
    LET wpos == Wrap(rpos + count)
        c1   == WriteChunk(Len(from))
        c2   == SecondChunk(Len(from), c1)
    IN  /\ buff' = [p \in 0..Size - 1 |->
                      IF p \in wpos..wpos + c1 - 1 THEN from[p - wpos + 1]
                      ELSE IF p \in 0..c2 - 1 THEN Remaining(from, c1)[p + 1]
                      ELSE buff[p]]
        /\ count' = count + c1 + c2
        /\ ret' = SubSeq(from, 1, c1 + c2)
        /\ UNCHANGED rpos

\* cbuffer_write_peek, the caller's copy into the space it returns, and
\* cbuffer_write_step for what was copied.
WritePeekStep(from) ==
    LET wpos == Wrap(rpos + count)
        c1   == WriteChunk(Len(from))
    IN  /\ buff' = [p \in 0..Size - 1 |->
                      IF p \in wpos..wpos + c1 - 1 THEN from[p - wpos + 1]
                      ELSE buff[p]]
        /\ count' = Least(count + c1, Size)
        /\ ret' = SubSeq(from, 1, c1)
        /\ UNCHANGED rpos

\* cbuffer_read: one copy up to the end of the array, one from its start.
cbuffer_read(len) ==
    LET c1 == ReadChunk(len)
        c2 == Least(count - c1, len - c1)
    IN  /\ ret' = [i \in 1..c1 + c2 |->
                     IF i <= c1 THEN buff[rpos + i - 1] ELSE buff[i - c1 - 1]]
        /\ count' = count - c1 - c2
        /\ rpos' = Wrap(rpos + c1 + c2)
        /\ UNCHANGED buff

\* cbuffer_read_peek, and cbuffer_read_step by at most what it offered (how
\* charpipehalf_poll and charbuffer_poll use the pair).
ReadPeekStep(len) ==
    LET c1 == ReadChunk(len)
    IN  /\ ret' = [i \in 1..c1 |-> buff[rpos + i - 1]]
        /\ count' = count - Least(c1, count)
        /\ rpos' = Wrap(rpos + Least(c1, count))
        /\ UNCHANGED buff

CbNext ==
    \/ \E k \in 0..MaxLen : \E from \in [1..k -> Byte] : cbuffer_write(from)
    \/ \E k \in 0..MaxLen : \E from \in [1..k -> Byte] : WritePeekStep(from)
    \/ \E len \in 0..MaxLen : cbuffer_read(len)
    \/ \E len \in 0..MaxLen : ReadPeekStep(len)

CbSpec == cbuffer_reset /\ [][CbNext]_cbVars

-----------------------------------------------------------------------------
\* The types of the buffer, which include what CBUFFER_ASSERT tests: rpos lies
\* in the array and count does not exceed its size.
CbTypeOK ==
    /\ buff \in [0..Size - 1 -> Byte]
    /\ rpos \in 0..Size - 1
    /\ count \in 0..Size

\* The bytes held, oldest first: what the queue of BoundedFifo stands for.
Contents == [i \in 1..count |-> buff[Wrap(rpos + i - 1)]]

\* The buffer is a bounded queue: every call of cbuffer.c, wrapping or not,
\* appends the bytes it accepts and removes the oldest ones it returns.
Fifo == INSTANCE BoundedFifo WITH q <- Contents
IsBoundedFifo == Fifo!Spec

\* cbuffer_write is never short while there is room: it accepts
\* min(len, room) bytes although it copies them in two pieces.
WriteIsFull ==
    [][\A k \in 0..MaxLen : \A from \in [1..k -> Byte] :
         cbuffer_write(from) => Len(ret') = Least(k, Size - count)]_cbVars

=============================================================================
