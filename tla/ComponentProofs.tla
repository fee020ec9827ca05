-------------------------- MODULE ComponentProofs --------------------------
(***************************************************************************)
(* Proofs about three components that stand by themselves: the circular    *)
(* buffer of the character pipes (CBuffer), the lock on image files        *)
(* (FileLock) and the timer (GoldfishTimer).                               *)
(***************************************************************************)
EXTENDS CBuffer, FileLock, GoldfishTimer, SequenceTheorems, TLAPS

-----------------------------------------------------------------------------
(***************************************************************************)
(* The circular buffer (CBuffer) implements the bounded queue (BoundedFifo) *)
(* for every size, byte set and length of call.  CbTypeOK, which is what     *)
(* CBUFFER_ASSERT tests, is inductive, and is all the refinement needs:    *)
(* the i-th byte held is at Wrap(rpos + i - 1), a write fills positions    *)
(* that follow the last of these, and a read moves rpos along them.        *)
(***************************************************************************)

\* A position wrapped once lies in the array.
LEMMA WrapInside ==
    ASSUME NEW p \in 0..2 * Size - 1
    PROVE  Wrap(p) \in 0..Size - 1
  BY CBufferAssumption DEF Wrap

\* c bytes read off an array b from position r on form a sequence.
LEMMA HeldSeq ==
    ASSUME NEW b \in [0..Size - 1 -> Byte], NEW r \in 0..Size - 1, NEW c \in 0..Size
    PROVE  /\ [i \in 1..c |-> b[Wrap(r + i - 1)]] \in Seq(Byte)
           /\ Len([i \in 1..c |-> b[Wrap(r + i - 1)]]) = c
<1>1. ASSUME NEW i \in 1..c PROVE b[Wrap(r + i - 1)] \in Byte
  <2>1. r + i - 1 \in 0..2 * Size - 1
    BY CBufferAssumption
  <2> QED
    BY <2>1, WrapInside
<1>2. c \in Nat
  BY CBufferAssumption
<1> DEFINE f == [i \in 1..c |-> b[Wrap(r + i - 1)]]
<1>3. f \in [1..c -> Byte]
  BY <1>1
<1> HIDE DEF f
<1>4. f \in Seq(Byte) /\ Len(f) = c
  BY <1>2, <1>3
<1> QED
  BY <1>4 DEF f

\* The bytes held form a sequence of count bytes, before and after a step.
LEMMA ContentsSeq ==
    /\ CbTypeOK => Contents \in Seq(Byte) /\ Len(Contents) = count
    /\ CbTypeOK' => Contents' \in Seq(Byte) /\ Len(Contents') = count'
<1>1. CbTypeOK => Contents \in Seq(Byte) /\ Len(Contents) = count
  BY HeldSeq, ZenonT(30) DEF Contents, CbTypeOK
<1>2. CbTypeOK' => Contents' \in Seq(Byte) /\ Len(Contents') = count'
  BY HeldSeq, ZenonT(30) DEF Contents, CbTypeOK
<1> QED
  BY <1>1, <1>2

\* A sequence whose first Len(s) elements are those of s and whose others are
\* those of t is their concatenation.
LEMMA IsConcat ==
    ASSUME NEW s \in Seq(Byte), NEW t \in Seq(Byte), NEW u \in Seq(Byte),
           Len(u) = Len(s) + Len(t),
           \A i \in 1..Len(s) : u[i] = s[i],
           \A i \in 1..Len(t) : u[Len(s) + i] = t[i]
    PROVE  u = s \o t
<1>1. /\ s \o t \in Seq(Byte)
      /\ Len(s \o t) = Len(s) + Len(t)
      /\ \A i \in 1..Len(s) + Len(t) :
           (s \o t)[i] = IF i <= Len(s) THEN s[i] ELSE t[i - Len(s)]
  BY ConcatProperties
<1>2. ASSUME NEW i \in 1..Len(u) PROVE u[i] = (s \o t)[i]
  <2>1. CASE i <= Len(s)
    BY <1>1, <2>1
  <2>2. CASE i > Len(s)
    <3>1. i - Len(s) \in 1..Len(t) /\ Len(s) + (i - Len(s)) = i
      BY <2>2
    <3> QED
      BY <1>1, <2>2, <3>1
  <2> QED
    BY <2>1, <2>2
<1> QED
  BY <1>1, <1>2, SeqEqual

\* A step that keeps the bytes held and puts n bytes of from behind them is a
\* write of the queue.
LEMMA AppendIsWrite ==
    ASSUME CbTypeOK, CbTypeOK', NEW k \in 0..MaxLen, NEW from \in [1..k -> Byte],
           NEW n \in 0..Least(k, Size - count),
           rpos' = rpos, count' = count + n, ret' = SubSeq(from, 1, n),
           \A i \in 1..count : buff'[Wrap(rpos + i - 1)] = buff[Wrap(rpos + i - 1)],
           \A i \in 1..n : buff'[Wrap(rpos + count + i - 1)] = from[i]
    PROVE  Fifo!Next
<1>1. k \in Nat /\ n \in Nat /\ n <= k /\ n <= Size - count /\ count \in Nat /\ rpos \in Nat
  BY CBufferAssumption DEF CbTypeOK, Least
<1>2. from \in Seq(Byte) /\ Len(from) = k
  BY <1>1, IsASeq, LenProperties
<1>3. /\ SubSeq(from, 1, n) \in Seq(Byte)
      /\ Len(SubSeq(from, 1, n)) = n
      /\ \A i \in 1..n : SubSeq(from, 1, n)[i] = from[i]
  BY <1>1, <1>2, SubSeqProperties
<1>4. Contents \in Seq(Byte) /\ Len(Contents) = count
  BY ContentsSeq
<1>5. Contents' \in Seq(Byte) /\ Len(Contents') = count + n
  BY ContentsSeq
<1>6. \A i \in 1..count : Contents'[i] = Contents[i]
  BY <1>1 DEF Contents
<1>7. \A i \in 1..n : Contents'[count + i] = SubSeq(from, 1, n)[i]
  BY <1>1, <1>3 DEF Contents
<1>8. Contents' = Contents \o SubSeq(from, 1, n)
  <2> DEFINE s == Contents
             t == SubSeq(from, 1, n)
             u == Contents'
  <2>1. s \in Seq(Byte) /\ t \in Seq(Byte) /\ u \in Seq(Byte)
    BY <1>3, <1>4, <1>5
  <2>2. Len(u) = Len(s) + Len(t)
    BY <1>3, <1>4, <1>5
  <2>3. \A i \in 1..Len(s) : u[i] = s[i]
    BY <1>4, <1>6
  <2>4. \A i \in 1..Len(t) : u[Len(s) + i] = t[i]
    BY <1>3, <1>4, <1>7
  <2> HIDE DEF s, t, u
  <2>5. u = s \o t
    BY <2>1, <2>2, <2>3, <2>4, IsConcat
  <2> QED
    BY <2>5 DEF s, t, u
<1>9. Fifo!Write(from, n)
  BY <1>1, <1>2, <1>4, <1>8 DEF Fifo!Write, Fifo!Take, Fifo!Least
<1>10. n \in 0..Fifo!Least(k, Size - Len(Contents))
  BY <1>1, <1>4, CBufferAssumption DEF Fifo!Least
<1> QED
  BY <1>9, <1>10 DEF Fifo!Next

\* A step that moves rpos along n of the bytes held, and returns them, is a read
\* of the queue.
LEMMA RemoveIsRead ==
    ASSUME CbTypeOK, CbTypeOK', NEW n \in 0..Least(MaxLen, count),
           buff' = buff, count' = count - n, rpos' = Wrap(rpos + n),
           ret' = [i \in 1..n |-> buff[Wrap(rpos + i - 1)]]
    PROVE  Fifo!Next
<1>1. n \in Nat /\ n <= MaxLen /\ n <= count /\ count \in Nat /\ rpos \in Nat
  BY CBufferAssumption DEF CbTypeOK, Least
<1>2. Contents \in Seq(Byte) /\ Len(Contents) = count
  BY ContentsSeq
<1>3. Contents' \in Seq(Byte) /\ Len(Contents') = count - n
  BY ContentsSeq
<1>4. \A i \in 1..count : Contents[i] \in Byte /\ Contents[i] = buff[Wrap(rpos + i - 1)]
  BY <1>2, LenProperties DEF Contents
<1>5. Contents' = SubSeq(Contents, n + 1, count)
  <2>1. \A i \in n + 1..count : Contents[i] \in Byte
    BY <1>1, <1>4
  <2>2. /\ SubSeq(Contents, n + 1, count) \in Seq(Byte)
        /\ Len(SubSeq(Contents, n + 1, count)) =
             IF n + 1 <= count THEN count - (n + 1) + 1 ELSE 0
        /\ \A i \in 1..count - (n + 1) + 1 :
             SubSeq(Contents, n + 1, count)[i] = Contents[(n + 1) + i - 1]
    BY <1>1, <2>1, SubSeqProperties
  <2>3. Len(SubSeq(Contents, n + 1, count)) = count - n
    BY <1>1, <2>2
  <2>4. ASSUME NEW i \in 1..count - n
        PROVE  Contents'[i] = SubSeq(Contents, n + 1, count)[i]
    <3>1. Contents'[i] = buff[Wrap(Wrap(rpos + n) + i - 1)]
      BY <1>1 DEF Contents
    <3>2. Wrap(Wrap(rpos + n) + i - 1) = Wrap(rpos + (n + i) - 1)
      BY <1>1, CBufferAssumption DEF Wrap, CbTypeOK
    <3>3. n + i \in 1..count /\ (n + 1) + i - 1 = n + i /\ i \in 1..count - (n + 1) + 1
      BY <1>1
    <3>4. Contents[n + i] = buff[Wrap(rpos + (n + i) - 1)]
      BY <1>4, <3>3
    <3> QED
      BY <2>2, <3>1, <3>2, <3>3, <3>4
  <2> QED
    BY <1>3, <2>2, <2>3, <2>4, SeqEqual
<1>6. ret' = SubSeq(Contents, 1, n)
  <2>1. SubSeq(Contents, 1, n) = [i \in 1..n |-> Contents[i]]
    BY <1>1, <1>2
  <2>2. \A i \in 1..n : Contents[i] = buff[Wrap(rpos + i - 1)]
    BY <1>1, <1>4
  <2> QED
    BY <2>1, <2>2
<1>7. Fifo!Read(n)
  BY <1>1, <1>2, <1>5, <1>6 DEF Fifo!Read, Fifo!Take, Fifo!Drop
<1>8. n \in 0..Fifo!Least(MaxLen, Len(Contents))
  BY <1>1, <1>2, CBufferAssumption DEF Fifo!Least
<1> QED
  BY <1>7, <1>8 DEF Fifo!Next

\* cbuffer_write copies min(len, room) bytes, in one or two pieces.
LEMMA WriteAmount ==
    ASSUME CbTypeOK, NEW k \in Nat
    PROVE  LET c1 == WriteChunk(k)
               c2 == SecondChunk(k, c1)
               wpos == Wrap(rpos + count)
           IN  /\ c1 \in Nat /\ c2 \in Nat
               /\ c1 + c2 = Least(k, Size - count)
               /\ wpos \in 0..Size - 1 /\ wpos + c1 <= Size
               /\ c2 > 0 => wpos + c1 = Size
  BY CBufferAssumption DEF CbTypeOK, WriteChunk, SecondChunk, Least, Wrap

\* cbuffer_write keeps the types and is a write of the queue.
LEMMA WriteStep ==
    ASSUME CbTypeOK, NEW k \in 0..MaxLen, NEW from \in [1..k -> Byte], cbuffer_write(from)
    PROVE  CbTypeOK' /\ Fifo!Next /\ Len(ret') = Least(k, Size - count)
<1> DEFINE wpos == Wrap(rpos + count)
           c1 == WriteChunk(k)
           c2 == SecondChunk(k, c1)
           n  == c1 + c2
<1>1. k \in Nat /\ rpos \in 0..Size - 1 /\ count \in 0..Size
  BY CBufferAssumption DEF CbTypeOK
<1>2. from \in Seq(Byte) /\ Len(from) = k
  BY <1>1
<1>3. /\ c1 \in Nat /\ c2 \in Nat /\ c1 + c2 = Least(k, Size - count)
      /\ wpos \in 0..Size - 1 /\ wpos + c1 <= Size
      /\ c2 > 0 => wpos + c1 = Size
  BY <1>1, WriteAmount
<1>4. /\ buff' = [p \in 0..Size - 1 |->
                    IF p \in wpos..wpos + c1 - 1 THEN from[p - wpos + 1]
                    ELSE IF p \in 0..c2 - 1 THEN Remaining(from, c1)[p + 1]
                    ELSE buff[p]]
      /\ count' = count + n /\ ret' = SubSeq(from, 1, n) /\ rpos' = rpos
  <2>1. count + c1 + c2 = count + n
    BY <1>1, <1>3
  <2> QED
    BY <1>2, <2>1 DEF cbuffer_write
<1>5. n \in Nat /\ n <= k /\ n <= Size - count /\ n = Least(k, Size - count)
  BY <1>1, <1>3, CBufferAssumption DEF Least
<1>6. wpos = IF rpos + count >= Size THEN rpos + count - Size ELSE rpos + count
  BY <1>1, CBufferAssumption DEF Wrap
<1> HIDE DEF wpos, c1, c2
<1>7. ASSUME NEW j \in 1..c2 PROVE Remaining(from, c1)[j] = from[c1 + j]
  <2>1. Remaining(from, c1) = SubSeq(from, c1 + 1, k)
    BY <1>2 DEF Remaining
  <2>2. c1 + 1 \in Int /\ k \in Int /\ \A i \in c1 + 1..k : from[i] \in Byte
    BY <1>1, <1>3
  <2>3. \A i \in 1..k - (c1 + 1) + 1 : SubSeq(from, c1 + 1, k)[i] = from[(c1 + 1) + i - 1]
    BY <2>2, SubSeqProperties
  <2>4. j \in 1..k - (c1 + 1) + 1 /\ (c1 + 1) + j - 1 = c1 + j
    BY <1>1, <1>3, <1>5
  <2> QED
    BY <2>1, <2>3, <2>4
<1>8. CbTypeOK'
  <2>1. ASSUME NEW p \in 0..Size - 1 PROVE buff'[p] \in Byte
    <3>1. CASE p \in wpos..wpos + c1 - 1
      <4>1. p - wpos + 1 \in 1..k
        BY <1>1, <1>3, <1>5, <3>1
      <4>2. buff'[p] = from[p - wpos + 1]
        BY <1>4, <3>1
      <4> QED
        BY <4>1, <4>2
    <3>2. CASE p \notin wpos..wpos + c1 - 1 /\ p \in 0..c2 - 1
      <4>1. p + 1 \in 1..c2 /\ c1 + (p + 1) \in 1..k
        BY <1>1, <1>3, <1>5, <3>2
      <4>2. buff'[p] = Remaining(from, c1)[p + 1]
        BY <1>4, <3>2
      <4> QED
        BY <1>7, <4>1, <4>2
    <3>3. CASE p \notin wpos..wpos + c1 - 1 /\ p \notin 0..c2 - 1
      BY <1>4, <3>3 DEF CbTypeOK
    <3> QED
      BY <3>1, <3>2, <3>3
  <2>2. buff' \in [0..Size - 1 -> Byte]
    BY <1>4, <2>1
  <2>3. count' \in 0..Size
    BY <1>1, <1>4, <1>5, CBufferAssumption
  <2> QED
    BY <1>1, <1>4, <2>2, <2>3 DEF CbTypeOK
<1>9. ASSUME NEW i \in 1..count
      PROVE  buff'[Wrap(rpos + i - 1)] = buff[Wrap(rpos + i - 1)]
  <2> DEFINE p == Wrap(rpos + i - 1)
  <2>1. p = IF rpos + i - 1 >= Size THEN rpos + i - 1 - Size ELSE rpos + i - 1
    BY <1>1, CBufferAssumption DEF Wrap
  <2> HIDE DEF p
  <2>2. p \in 0..Size - 1 /\ p \notin wpos..wpos + c1 - 1 /\ p \notin 0..c2 - 1
    BY <1>1, <1>3, <1>5, <1>6, <2>1, CBufferAssumption
  <2>3. buff'[p] = buff[p]
    BY <1>4, <2>2
  <2> QED
    BY <2>3 DEF p
<1>10. ASSUME NEW i \in 1..n PROVE buff'[Wrap(rpos + count + i - 1)] = from[i]
  <2> DEFINE p == Wrap(rpos + count + i - 1)
  <2>1. p = IF rpos + count + i - 1 >= Size THEN rpos + count + i - 1 - Size
            ELSE rpos + count + i - 1
    BY <1>1, <1>5, CBufferAssumption DEF Wrap
  <2> HIDE DEF p
  <2>2. CASE i <= c1
    <3>1. p \in 0..Size - 1 /\ p \in wpos..wpos + c1 - 1 /\ p - wpos + 1 = i
      BY <1>1, <1>3, <1>5, <1>6, <2>1, <2>2, CBufferAssumption
    <3> QED
      BY <1>4, <3>1 DEF p
  <2>3. CASE i > c1
    <3>1. /\ p \in 0..Size - 1 /\ p \notin wpos..wpos + c1 - 1 /\ p \in 0..c2 - 1
          /\ p + 1 = i - c1 /\ p + 1 \in 1..c2 /\ c1 + (p + 1) = i
      BY <1>1, <1>3, <1>5, <1>6, <2>1, <2>3, CBufferAssumption
    <3>2. buff'[p] = Remaining(from, c1)[p + 1]
      BY <1>4, <3>1
    <3> QED
      BY <1>7, <3>1, <3>2 DEF p
  <2> QED
    BY <1>3, <2>2, <2>3
<1>11. Len(ret') = n
  BY <1>1, <1>2, <1>4, <1>5
<1> HIDE DEF n
<1>12. n \in 0..Least(k, Size - count)
  BY <1>5
<1>13. Fifo!Next
  BY <1>4, <1>8, <1>9, <1>10, <1>12, AppendIsWrite
<1> QED
  BY <1>5, <1>8, <1>11, <1>13

\* Filling the space cbuffer_write_peek returns and stepping over it keeps the
\* types and is a write of the queue.
LEMMA WritePeekStepStep ==
    ASSUME CbTypeOK, NEW k \in 0..MaxLen, NEW from \in [1..k -> Byte], WritePeekStep(from)
    PROVE  CbTypeOK' /\ Fifo!Next
<1> DEFINE wpos == Wrap(rpos + count)
           n == WriteChunk(k)
<1>1. k \in Nat /\ rpos \in 0..Size - 1 /\ count \in 0..Size
  BY CBufferAssumption DEF CbTypeOK
<1>2. from \in Seq(Byte) /\ Len(from) = k
  BY <1>1
<1>3. /\ n \in Nat /\ n <= k /\ n <= Size - count
      /\ wpos \in 0..Size - 1 /\ wpos + n <= Size
      /\ wpos = IF rpos + count >= Size THEN rpos + count - Size ELSE rpos + count
  BY <1>1, CBufferAssumption DEF WriteChunk, Least, Wrap
<1>4. Least(count + n, Size) = count + n
  BY <1>1, <1>3, CBufferAssumption DEF Least
<1>5. /\ buff' = [p \in 0..Size - 1 |->
                    IF p \in wpos..wpos + n - 1 THEN from[p - wpos + 1] ELSE buff[p]]
      /\ count' = count + n /\ ret' = SubSeq(from, 1, n) /\ rpos' = rpos
  BY <1>2, <1>4 DEF WritePeekStep
<1> HIDE DEF wpos, n
<1>6. CbTypeOK'
  <2>1. ASSUME NEW p \in 0..Size - 1, p \in wpos..wpos + n - 1
        PROVE  from[p - wpos + 1] \in Byte
    <3>1. p - wpos + 1 \in 1..k
      BY <1>1, <1>3, <2>1
    <3> QED
      BY <3>1
  <2>2. buff' \in [0..Size - 1 -> Byte]
    BY <1>5, <2>1 DEF CbTypeOK
  <2>3. count' \in 0..Size
    BY <1>1, <1>3, <1>5, CBufferAssumption
  <2> QED
    BY <1>1, <1>5, <2>2, <2>3 DEF CbTypeOK
<1>7. ASSUME NEW i \in 1..count
      PROVE  buff'[Wrap(rpos + i - 1)] = buff[Wrap(rpos + i - 1)]
  <2> DEFINE p == Wrap(rpos + i - 1)
  <2>1. p \in 0..Size - 1 /\ p \notin wpos..wpos + n - 1
    BY <1>1, <1>3, CBufferAssumption DEF Wrap
  <2> HIDE DEF p
  <2>2. buff'[p] = buff[p]
    BY <1>5, <2>1
  <2> QED
    BY <2>2 DEF p
<1>8. ASSUME NEW i \in 1..n PROVE buff'[Wrap(rpos + count + i - 1)] = from[i]
  <2> DEFINE p == Wrap(rpos + count + i - 1)
  <2>1. p \in 0..Size - 1 /\ p \in wpos..wpos + n - 1 /\ p - wpos + 1 = i
    BY <1>1, <1>3, CBufferAssumption DEF Wrap
  <2> HIDE DEF p
  <2>2. buff'[p] = from[i]
    BY <1>5, <2>1
  <2> QED
    BY <2>2 DEF p
<1>9. n \in 0..Least(k, Size - count)
  BY <1>1, <1>3, CBufferAssumption DEF Least
<1>10. Fifo!Next
  BY <1>5, <1>6, <1>7, <1>8, <1>9, AppendIsWrite
<1> QED
  BY <1>6, <1>10

\* cbuffer_read keeps the types and is a read of the queue.
LEMMA ReadStep ==
    ASSUME CbTypeOK, NEW len \in 0..MaxLen, cbuffer_read(len)
    PROVE  CbTypeOK' /\ Fifo!Next
<1> DEFINE c1 == ReadChunk(len)
           c2 == Least(count - c1, len - c1)
           n  == c1 + c2
<1>1. len \in Nat /\ rpos \in 0..Size - 1 /\ count \in 0..Size
  BY CBufferAssumption DEF CbTypeOK
<1>2. /\ c1 \in Nat /\ c2 \in Nat /\ n = Least(len, count)
      /\ rpos + c1 <= Size /\ (c2 > 0 => rpos + c1 = Size)
  BY <1>1, CBufferAssumption DEF ReadChunk, Least
<1>3. n \in Nat /\ n <= count /\ n <= MaxLen /\ n <= Size
  BY <1>1, <1>2, CBufferAssumption DEF Least
<1>4. count - c1 - c2 = count - n /\ rpos + c1 + c2 = rpos + n
  BY <1>1, <1>2
<1>5. /\ ret' = [i \in 1..n |-> IF i <= c1 THEN buff[rpos + i - 1] ELSE buff[i - c1 - 1]]
      /\ count' = count - n /\ rpos' = Wrap(rpos + n) /\ buff' = buff
  BY <1>4 DEF cbuffer_read
<1> HIDE DEF c1, c2
<1>6. CbTypeOK'
  <2> HIDE DEF n
  <2>1. count - n \in 0..Size /\ Wrap(rpos + n) \in 0..Size - 1
    BY <1>1, <1>3, CBufferAssumption DEF Wrap
  <2> QED
    BY <1>5, <2>1 DEF CbTypeOK
<1>7. ASSUME NEW i \in 1..n
      PROVE  (IF i <= c1 THEN buff[rpos + i - 1] ELSE buff[i - c1 - 1])
                = buff[Wrap(rpos + i - 1)]
  <2>1. Wrap(rpos + i - 1) = IF i <= c1 THEN rpos + i - 1 ELSE i - c1 - 1
    BY <1>1, <1>2, <1>3, CBufferAssumption DEF Wrap
  <2> QED
    BY <2>1
<1>8. ret' = [i \in 1..n |-> buff[Wrap(rpos + i - 1)]]
  BY <1>5, <1>7
<1>9. n \in 0..Least(MaxLen, count)
  BY <1>1, <1>3, CBufferAssumption DEF Least
<1> HIDE DEF n
<1>10. Fifo!Next
  BY <1>5, <1>6, <1>8, <1>9, RemoveIsRead
<1> QED
  BY <1>6, <1>10

\* Taking bytes from where cbuffer_read_peek points and stepping over them keeps
\* the types and is a read of the queue.
LEMMA ReadPeekStepStep ==
    ASSUME CbTypeOK, NEW len \in 0..MaxLen, ReadPeekStep(len)
    PROVE  CbTypeOK' /\ Fifo!Next
<1> DEFINE n == ReadChunk(len)
<1>1. len \in Nat /\ rpos \in 0..Size - 1 /\ count \in 0..Size
  BY CBufferAssumption DEF CbTypeOK
<1>2. n \in Nat /\ n <= count /\ n <= len /\ n <= Size - rpos /\ Least(n, count) = n
  BY <1>1, CBufferAssumption DEF ReadChunk, Least
<1>3. /\ ret' = [i \in 1..n |-> buff[rpos + i - 1]]
      /\ count' = count - n /\ rpos' = Wrap(rpos + n) /\ buff' = buff
  BY <1>2 DEF ReadPeekStep
<1> HIDE DEF n
<1>4. CbTypeOK'
  BY <1>1, <1>2, <1>3, CBufferAssumption DEF CbTypeOK, Wrap
<1>5. ASSUME NEW i \in 1..n PROVE Wrap(rpos + i - 1) = rpos + i - 1
  BY <1>1, <1>2, CBufferAssumption DEF Wrap
<1>6. ret' = [i \in 1..n |-> buff[Wrap(rpos + i - 1)]]
  BY <1>3, <1>5
<1>7. n \in 0..Least(MaxLen, count)
  BY <1>1, <1>2, CBufferAssumption DEF Least
<1>8. Fifo!Next
  BY <1>3, <1>4, <1>6, <1>7, RemoveIsRead
<1> QED
  BY <1>4, <1>8

\* Every step keeps the types and is a step of the queue or leaves it alone.
LEMMA StepRefines ==
    ASSUME CbTypeOK, [CbNext]_cbVars
    PROVE  CbTypeOK' /\ [Fifo!Next]_<<Contents, ret>>
<1>1. CASE CbNext
  BY <1>1, WriteStep, WritePeekStepStep, ReadStep, ReadPeekStepStep DEF CbNext
<1>2. CASE UNCHANGED cbVars
  BY <1>2 DEF cbVars, CbTypeOK, Contents
<1> QED
  BY <1>1, <1>2

\* cbuffer_reset leaves an empty queue.
LEMMA InitRefines == cbuffer_reset => CbTypeOK /\ Fifo!Init
<1> SUFFICES ASSUME cbuffer_reset PROVE CbTypeOK /\ Fifo!Init
  OBVIOUS
<1>1. CbTypeOK
  BY CBufferAssumption DEF cbuffer_reset, CbTypeOK
<1>2. Contents \in Seq(Byte) /\ Len(Contents) = 0
  BY <1>1, ContentsSeq DEF cbuffer_reset
<1>3. Contents = <<>>
  BY <1>2, EmptySeq
<1> QED
  BY <1>1, <1>3 DEF cbuffer_reset, Fifo!Init

\* What CBUFFER_ASSERT tests holds at every call, for every size.
THEOREM CbAlwaysTyped == CbSpec => []CbTypeOK
<1>1. cbuffer_reset => CbTypeOK
  BY InitRefines
<1>2. CbTypeOK /\ [CbNext]_cbVars => CbTypeOK'
  BY StepRefines
<1> QED
  BY <1>1, <1>2, PTL DEF CbSpec

\* The circular buffer implements the bounded queue, for every size of the
\* array and of the calls: wrapping around its end is never visible.
THEOREM ImplementsBoundedFifo == CbSpec => IsBoundedFifo
<1>1. cbuffer_reset => Fifo!Init
  BY InitRefines
<1>2. CbTypeOK /\ [CbNext]_cbVars => [Fifo!Next]_<<Contents, ret>>
  BY StepRefines
<1> QED
  BY <1>1, <1>2, CbAlwaysTyped, PTL DEF CbSpec, IsBoundedFifo, Fifo!Spec

\* cbuffer_write accepts all there is room for, for every size.
THEOREM WriteAlwaysFull == CbSpec => WriteIsFull
<1>1. CbTypeOK /\ [CbNext]_cbVars =>
        [\A k \in 0..MaxLen : \A from \in [1..k -> Byte] :
           cbuffer_write(from) => Len(ret') = Least(k, Size - count)]_cbVars
  BY WriteStep
<1> QED
  BY <1>1, CbAlwaysTyped, PTL DEF CbSpec, WriteIsFull

-----------------------------------------------------------------------------
(***************************************************************************)
(* The safety of the file lock, for any set of instances and any number of *)
(* attempts.                                                               *)
(***************************************************************************)

Labels == {"start", "link", "stat", "open", "kill", "remove", "locked",
           "holding", "fail", "failed", "refused", "exited", "dead"}

LockTypes ==
    /\ lock \in Procs \cup {NoOne}
    /\ pc \in [Procs -> Labels]
    /\ judged \in [Procs -> Procs \cup {NoOne}]

\* While no file was taken from a living process, the lock's name leads to the
\* file of whoever believes it has the lock.
OwnersFile == thefts = {} => \A p \in Procs : Locked(p) => lock = p

\* A process about to remove a stale lock has read the pid of one that is gone.
JudgedGone ==
    \A p \in Procs :
        pc[p] = "remove" /\ judged[p] # NoOne => ~Alive(judged[p])

LockInv == LockTypes /\ OwnersFile /\ NoLockLeftBehind /\ JudgedGone

-----------------------------------------------------------------------------
\* The invariant holds before any instance has started.
LEMMA InitLock == LockInit => LockInv
  BY FileLockAssumption
  DEF LockInit, LockInv, LockTypes, Labels, OwnersFile, NoLockLeftBehind, JudgedGone, Locked

\* A step that moves one process between labels at which it neither has the
\* lock nor is about to remove it, and that leaves the files alone, keeps the
\* invariant (Create, CreateFails, a round of the loop without success).
LEMMA MoveLock ==
    ASSUME LockInv, NEW p \in Procs, NEW l \in Labels, Goto(p, l),
           UNCHANGED <<lock, judged, thefts>>,
           Alive(p), ~Locked(p),
           l \notin {"locked", "holding", "remove"},
           lock = p => l \in {"stat", "dead"}
    PROVE  LockInv'
  <1>1. LockTypes'
    BY DEF LockInv, LockTypes, Goto
  <1>2. OwnersFile'
    BY DEF LockInv, LockTypes, OwnersFile, Locked, Goto
  <1>3. NoLockLeftBehind'
    BY FileLockAssumption DEF LockInv, LockTypes, NoLockLeftBehind, Locked, Goto
  <1>4. JudgedGone'
    BY DEF LockInv, LockTypes, JudgedGone, Alive, Goto
  <1> QED
    BY <1>1, <1>2, <1>3, <1>4 DEF LockInv

\* A process that has linked its file and is not yet past lstat, or that has
\* the lock, is the only kind that owns the lock file while it lives.
LEMMA NotMine ==
    ASSUME LockInv, NEW p \in Procs, pc[p] \notin {"stat", "locked", "holding", "dead"}
    PROVE  lock # p
  BY FileLockAssumption DEF LockInv, NoLockLeftBehind, Locked

\* An unlink of the lock's name by a process without the lock keeps the
\* invariant: either nothing living loses its file, or a theft is recorded
\* (Remove, Fail).
LEMMA UnlinkLock ==
    ASSUME LockInv, NEW p \in Procs, NEW l \in {"link", "failed"}, NEW kind,
           Goto(p, l), lock' = NoOne, UNCHANGED judged,
           pc[p] \in {"remove", "fail"},
           thefts' = IF TakesAway(p) THEN thefts \cup {kind} ELSE thefts
    PROVE  LockInv'
  <1>1. LockTypes'
    BY DEF LockInv, LockTypes, Goto, Labels
  <1>2. OwnersFile'
    <2> SUFFICES ASSUME thefts' = {}, NEW q \in Procs, Locked(q)'
                 PROVE  FALSE
      BY DEF OwnersFile
    <2>1. ~TakesAway(p) /\ thefts = {}
      OBVIOUS
    <2>2. q # p /\ Locked(q)
      BY DEF LockInv, LockTypes, Goto, Locked
    <2>3. lock = q /\ Alive(q)
      BY <2>1, <2>2 DEF LockInv, OwnersFile, Locked, Alive
    <2> QED
      BY <2>1, <2>2, <2>3, FileLockAssumption DEF TakesAway
  <1>3. NoLockLeftBehind'
    BY DEF NoLockLeftBehind
  <1>4. JudgedGone'
    BY DEF LockInv, LockTypes, JudgedGone, Alive, Goto
  <1> QED
    BY <1>1, <1>2, <1>3, <1>4 DEF LockInv

-----------------------------------------------------------------------------
\* Every system call of filelock_lock, every exit and every crash keeps the
\* invariant.
LEMMA NextLock == LockInv /\ [LockNext]_lockVars => LockInv'
  <1> SUFFICES ASSUME LockInv, [LockNext]_lockVars PROVE LockInv'
    OBVIOUS
  <1>1. ASSUME NEW p \in Procs, Create(p) PROVE LockInv'
    BY <1>1, NotMine, MoveLock DEF Create, Alive, Locked, Labels
  <1>2. ASSUME NEW p \in Procs, CreateFails(p) PROVE LockInv'
    BY <1>2, NotMine, MoveLock DEF CreateFails, Alive, Locked, Labels
  <1>3. ASSUME NEW p \in Procs, Link(p) PROVE LockInv'
    <2>1. LockTypes'
      BY <1>3 DEF LockInv, LockTypes, Link, Goto, Labels
    <2>2. OwnersFile'
      BY <1>3, FileLockAssumption DEF LockInv, LockTypes, OwnersFile, Locked, Link, Goto
    <2>3. NoLockLeftBehind'
      <3>1. CASE lock = NoOne
        BY <1>3, <3>1 DEF LockInv, LockTypes, NoLockLeftBehind, Link, Goto
      <3>2. CASE lock # NoOne
        <4>1. lock' = lock /\ lock # p
          BY <1>3, <3>2, NotMine DEF Link
        <4> QED
          BY <1>3, <3>2, <4>1 DEF LockInv, LockTypes, NoLockLeftBehind, Locked, Link, Goto
      <3> QED
        BY <3>1, <3>2
    <2>4. JudgedGone'
      BY <1>3 DEF LockInv, LockTypes, JudgedGone, Alive, Link, Goto
    <2> QED
      BY <2>1, <2>2, <2>3, <2>4 DEF LockInv
  <1>4. ASSUME NEW p \in Procs, Stat(p) PROVE LockInv'
    <2>1. CASE lock = p
      <3>1. Goto(p, "locked") /\ UNCHANGED <<lock, judged, thefts>>
        BY <1>4, <2>1 DEF Stat, IsOurs
      <3>2. LockTypes'
        BY <3>1 DEF LockInv, LockTypes, Goto, Labels
      <3>3. OwnersFile'
        BY <2>1, <3>1 DEF LockInv, LockTypes, OwnersFile, Locked, Goto
      <3>4. NoLockLeftBehind'
        BY <2>1, <3>1 DEF LockInv, LockTypes, NoLockLeftBehind, Locked, Goto
      <3>5. JudgedGone'
        BY <1>4, <3>1 DEF LockInv, LockTypes, JudgedGone, Alive, Stat, Goto
      <3> QED
        BY <3>2, <3>3, <3>4, <3>5 DEF LockInv
    <2>2. CASE lock # p
      <3>1. \E l \in {"open", "fail", "link"} : Goto(p, l)
        BY <1>4, <2>2 DEF Stat, IsOurs, NextTry
      <3> QED
        BY <1>4, <2>2, <3>1, MoveLock DEF Stat, Alive, Locked, Labels
    <2> QED
      BY <2>1, <2>2
  <1>5. ASSUME NEW p \in Procs, Open(p) PROVE LockInv'
    <2>1. LockTypes'
      BY <1>5 DEF LockInv, LockTypes, Open, Goto, Labels
    <2>2. OwnersFile'
      BY <1>5 DEF LockInv, LockTypes, OwnersFile, Locked, Open, Goto
    <2>3. NoLockLeftBehind'
      <3>1. lock # p
        BY <1>5, NotMine DEF Open
      <3> QED
        BY <1>5, <3>1 DEF LockInv, LockTypes, NoLockLeftBehind, Locked, Open, Goto
    <2>4. JudgedGone'
      BY <1>5 DEF LockInv, LockTypes, JudgedGone, Alive, Open, Goto
    <2> QED
      BY <2>1, <2>2, <2>3, <2>4 DEF LockInv
  <1>6. ASSUME NEW p \in Procs, Kill(p) PROVE LockInv'
    <2>1. lock # p
      BY <1>6, NotMine DEF Kill
    <2>2. CASE Stale(p)
      <3>1. Goto(p, "remove") /\ UNCHANGED <<lock, judged, thefts>>
        BY <1>6, <2>2 DEF Kill
      <3>2. LockTypes'
        BY <3>1 DEF LockInv, LockTypes, Goto, Labels
      <3>3. OwnersFile'
        BY <3>1 DEF LockInv, LockTypes, OwnersFile, Locked, Goto
      <3>4. NoLockLeftBehind'
        BY <2>1, <3>1 DEF LockInv, LockTypes, NoLockLeftBehind, Locked, Goto
      <3>5. JudgedGone'
        BY <1>6, <2>2, <3>1 DEF LockInv, LockTypes, JudgedGone, Stale, Alive, Kill, Goto
      <3> QED
        BY <3>2, <3>3, <3>4, <3>5 DEF LockInv
    <2>3. CASE ~Stale(p)
      <3>1. \E l \in {"fail", "link"} : Goto(p, l)
        BY <1>6, <2>3 DEF Kill, NextTry
      <3> QED
        BY <1>6, <2>1, <3>1, MoveLock DEF Kill, Alive, Locked, Labels
    <2> QED
      BY <2>2, <2>3
  <1>7. ASSUME NEW p \in Procs, Remove(p) PROVE LockInv'
    BY <1>7, UnlinkLock DEF Remove, AfterRemoval
  <1>8. ASSUME NEW p \in Procs, Return(p) PROVE LockInv'
    <2>1. LockTypes'
      BY <1>8 DEF LockInv, LockTypes, Return, Goto, Labels
    <2>2. OwnersFile'
      BY <1>8 DEF LockInv, LockTypes, OwnersFile, Locked, Return, Goto
    <2>3. NoLockLeftBehind'
      BY <1>8, FileLockAssumption
      DEF LockInv, LockTypes, NoLockLeftBehind, Locked, Return, Goto
    <2>4. JudgedGone'
      BY <1>8 DEF LockInv, LockTypes, JudgedGone, Alive, Return, Goto
    <2> QED
      BY <2>1, <2>2, <2>3, <2>4 DEF LockInv
  <1>9. ASSUME NEW p \in Procs, Fail(p) PROVE LockInv'
    BY <1>9, UnlinkLock DEF Fail
  <1>10. ASSUME NEW p \in Procs, FailReturn(p) PROVE LockInv'
    BY <1>10, NotMine, MoveLock DEF FailReturn, Alive, Locked, Labels
  <1>11. ASSUME NEW p \in Procs, Exit(p) PROVE LockInv'
    <2>1. lock' = p => FALSE
      BY <1>11, NotMine, FileLockAssumption DEF Exit, AtExit, Locked
    <2>2. LockTypes'
      BY <1>11 DEF LockInv, LockTypes, Exit, AtExit, Goto, Labels
    <2>3. OwnersFile'
      BY <1>11, FileLockAssumption
      DEF LockInv, LockTypes, OwnersFile, Locked, Exit, AtExit, Goto
    <2>4. NoLockLeftBehind'
      BY <1>11, <2>1 DEF LockInv, LockTypes, NoLockLeftBehind, Locked, Exit, AtExit, Goto
    <2>5. JudgedGone'
      BY <1>11 DEF LockInv, LockTypes, JudgedGone, Alive, Exit, Goto
    <2> QED
      BY <2>2, <2>3, <2>4, <2>5 DEF LockInv
  <1>12. ASSUME NEW p \in Procs, Crash(p) PROVE LockInv'
    <2>1. LockTypes'
      BY <1>12 DEF LockInv, LockTypes, Crash, Goto, Labels
    <2>2. OwnersFile'
      BY <1>12 DEF LockInv, LockTypes, OwnersFile, Locked, Crash, Goto
    <2>3. NoLockLeftBehind'
      BY <1>12, FileLockAssumption
      DEF LockInv, LockTypes, NoLockLeftBehind, Locked, Crash, Goto
    <2>4. JudgedGone'
      BY <1>12 DEF LockInv, LockTypes, JudgedGone, Alive, Crash, Goto
    <2> QED
      BY <2>1, <2>2, <2>3, <2>4 DEF LockInv
  <1>13. ASSUME UNCHANGED lockVars PROVE LockInv'
    BY <1>13
    DEF lockVars, LockInv, LockTypes, OwnersFile, NoLockLeftBehind, JudgedGone, Locked, Alive
  <1> QED
    BY <1>1, <1>2, <1>3, <1>4, <1>5, <1>6, <1>7, <1>8, <1>9, <1>10, <1>11,
       <1>12, <1>13
    DEF LockNext, Step

\* The invariant holds in every reachable state.
LEMMA AlwaysLock == LockSpec => []LockInv
  BY InitLock, NextLock, PTL DEF LockSpec

-----------------------------------------------------------------------------
\* However many instances start, stop, fail and crash, two of them have the
\* lock only after a file was taken from a living one (filelock_lock).
THEOREM AlwaysExclusiveUntilTheft == LockSpec => []ExclusiveUntilTheft
  <1>1. LockInv => ExclusiveUntilTheft
    BY DEF LockInv, OwnersFile, ExclusiveUntilTheft, Exclusive
  <1> QED
    BY <1>1, AlwaysLock, PTL

\* A lock file always belongs to a process at work or to a crashed one: an
\* instance that gives up or exits leaves none (Fail, filelock_atexit).
THEOREM LockNeverLeftBehind == LockSpec => []NoLockLeftBehind
  <1>1. LockInv => NoLockLeftBehind
    BY DEF LockInv
  <1> QED
    BY <1>1, AlwaysLock, PTL

\* What is removed as stale from under a living process is never the file that
\* was judged: the test with kill is right, its use is late.
THEOREM AlwaysJudgedRightly == LockSpec => JudgedRightly
  <1>1. LockInv => [\A p \in Procs :
                    Remove(p) /\ TakesAway(p) => judged[p] # lock]_lockVars
    <2> SUFFICES ASSUME LockInv, NEW p \in Procs, Remove(p), TakesAway(p)
                 PROVE  judged[p] # lock
      OBVIOUS
    <2> QED
      BY DEF LockInv, JudgedGone, Remove, TakesAway
  <1> QED
    BY <1>1, AlwaysLock, PTL DEF JudgedRightly

-----------------------------------------------------------------------------
(***************************************************************************)
(* Proofs about the timer (GoldfishTimer) for every word size and clock.   *)
(* An alarm that is already due does not touch an earlier host timer, so   *)
(* that timer may expire for an alarm that was replaced.  The invariant    *)
(* that keeps this harmless is that the host timer then runs for an alarm  *)
(* in the past: what the guest wants is either the timer's expiry or due.  *)
(* For loads the invariant also says what the registers hold: while they   *)
(* are whole they are the alarm the guest wants, so that the difference    *)
(* saved leads back to it.                                                 *)
(***************************************************************************)

\* The types of the device's state.
TypeOK ==
    /\ clock \in Nat /\ now \in Nat
    /\ alarm_low \in 0..WordSize - 1
    /\ alarm_high \in Int /\ alarm_high >= -WordSize
    /\ high \in Int /\ high >= -WordSize
    /\ regs \in {"whole", "half", "lost"} /\ torn \in {0, 1}
    /\ armed \in {0, 1} /\ line \in {0, 1}
    /\ timer \in Int /\ wanted \in Int
    /\ lowAt \in Nat \cup {NoTime} /\ got \in Int

\* While the host timer runs, the guest has an alarm programmed.
TimerIsWanted == timer # NoTime => wanted # NoTime

\* The latch holds the time of the last TIMER_TIME_LOW read.
LatchHolds == lowAt # NoTime => now = lowAt

\* What the guest wrote is in the registers, unless a load has lost it.
RegistersKept ==
    /\ regs # "lost" => alarm_high = high
    /\ regs = "whole" /\ timer # NoTime => wanted = Alarm(alarm_low)

\* The inductive invariant.
IInv ==
    /\ TypeOK
    /\ ArmedIffTimerRuns /\ TimerIsWanted /\ RegistersKept
    /\ LatchHolds /\ TimeNotTorn

\* NoTime is a negative number.
LEMMA NoTimeNegative == NoTime \in Int /\ NoTime < 0
<1>1. WordSize * WordSize \in Nat
  BY TimerAssumption
<1> QED
  BY <1>1, TimerAssumption DEF NoTime

\* A signed and an unsigned word never make NoTime.
LEMMA WordsAreTime ==
    ASSUME NEW h \in Int, h >= -WordSize, NEW v \in 0..WordSize - 1
    PROVE  h * WordSize + v \in Int /\ h * WordSize + v # NoTime
<1>1. WordSize \in Nat /\ h + WordSize \in Nat /\ v \in Nat
  BY TimerAssumption
<1>2. (h + WordSize) * WordSize \in Nat
  BY <1>1
<1>3. (h + WordSize) * WordSize = h * WordSize + WordSize * WordSize
  BY <1>1
<1>4. h * WordSize \in Int /\ WordSize * WordSize \in Int
  BY <1>1
<1>5. NoTime = -(WordSize * WordSize) - 1
  BY <1>1, <1>4 DEF NoTime
<1> QED
  BY <1>1, <1>2, <1>3, <1>4, <1>5

\* An alarm put together from two words is never NoTime.
LEMMA AlarmIsTime ==
    ASSUME TypeOK, NEW v \in 0..WordSize - 1
    PROVE  Alarm(v) \in Int /\ Alarm(v) # NoTime
  BY WordsAreTime DEF Alarm, TypeOK

\* Nor is the alarm the guest means.
LEMMA WantedIsTime ==
    ASSUME TypeOK, NEW v \in 0..WordSize - 1
    PROVE  high * WordSize + v \in Int /\ high * WordSize + v # NoTime
  BY WordsAreTime DEF TypeOK

\* The two words of a time make up that time.
LEMMA WordsMakeTime ==
    ASSUME NEW t \in Nat
    PROVE  (t \div WordSize) * WordSize + (t % WordSize) = t
  BY TimerAssumption

\* goldfish_timer_and_rtc_init establishes IInv.
LEMMA InitIInv == Init => IInv
  BY NoTimeNegative, TimerAssumption
     DEF Init, IInv, TypeOK, ArmedIffTimerRuns, TimerIsWanted, RegistersKept,
         LatchHolds, TimeNotTorn

\* What a load does to an alarm: unless the registers were another alarm's,
\* the host timer is set for the alarm the guest wants, or that one is due.
LEMMA RestoredAlarm ==
    ASSUME IInv, Restore
    PROVE  /\ armed' \in {0, 1} /\ line' \in {0, 1} /\ timer' \in Int
           /\ armed' = 1 <=> timer' # NoTime
           /\ timer' # NoTime => wanted # NoTime
           /\ armed' = 1 /\ torn' = 0 => timer' = wanted
           /\ line = 0 /\ line' = 1 /\ torn' = 0 => wanted # NoTime /\ wanted <= clock
<1> DEFINE A == Alarm(alarm_low)
<1>1. A \in Int /\ A # NoTime
  BY AlarmIsTime DEF IInv, TypeOK
<1>2. regs = "whole" /\ timer # NoTime => wanted = A
  BY DEF IInv, RegistersKept
<1>3. SavedDiff = A - clock
  BY DEF SavedDiff
<1>4. clock \in Int /\ wanted \in Int
  BY DEF IInv, TypeOK
<1> HIDE DEF A
<1> QED
  BY <1>1, <1>2, <1>3, <1>4, NoTimeNegative
     DEF Restore, IInv, TypeOK, ArmedIffTimerRuns, TimerIsWanted

\* Every access of the guest, expiry, load and tick of the clock preserves
\* IInv.
LEMMA NextIInv == IInv /\ [Next]_vars => IInv'
<1> SUFFICES ASSUME IInv, [Next]_vars PROVE IInv'
  OBVIOUS
<1> USE NoTimeNegative
    DEF IInv, TypeOK, ArmedIffTimerRuns, TimerIsWanted, RegistersKept, LatchHolds,
        TimeNotTorn
<1>1. CASE ReadTimeLow
  BY <1>1 DEF ReadTimeLow, alarmVars, Alarm
<1>2. CASE ReadTimeHigh
  <2>1. lowAt \in Nat /\ now = lowAt
    BY <1>2 DEF ReadTimeHigh
  <2>2. got' = lowAt
    BY <1>2, <2>1, WordsMakeTime DEF ReadTimeHigh, TimeHigh
  <2> QED
    BY <1>2, <2>1, <2>2 DEF ReadTimeHigh, devVars, alarmVars, Alarm
<1>3. ASSUME NEW v \in 0..WordSize - 1, WriteAlarmHigh(v) PROVE IInv'
  <2>1. Signed(v) \in Int /\ Signed(v) >= -WordSize
    BY TimerAssumption DEF Signed
  <2> QED
    BY <1>3, <2>1 DEF WriteAlarmHigh
<1>4. ASSUME NEW v \in 0..WordSize - 1, WriteAlarmLow(v) PROVE IInv'
  <2>1. Alarm(v) \in Int /\ Alarm(v) # NoTime
    BY AlarmIsTime
  <2>2. wanted' \in Int /\ wanted' # NoTime /\ (regs # "lost" => wanted' = Alarm(v))
    BY <1>4, WantedIsTime DEF WriteAlarmLow, Alarm
  <2>3. Alarm(alarm_low)' = Alarm(v)
    BY <1>4 DEF WriteAlarmLow, Alarm
  <2> QED
    BY <1>4, <2>1, <2>2, <2>3 DEF WriteAlarmLow
<1>5. CASE ClearInterrupt
  BY <1>5 DEF ClearInterrupt, alarmVars, Alarm
<1>6. CASE ClearAlarm
  BY <1>6 DEF ClearAlarm
<1>7. CASE goldfish_timer_tick
  BY <1>7 DEF goldfish_timer_tick, alarmVars
<1>8. CASE Restore
  <2>1. TypeOK'
    BY <1>8, RestoredAlarm, TimerAssumption DEF Restore
  <2>2. RegistersKept' /\ LatchHolds' /\ TimeNotTorn'
    BY <1>8 DEF Restore
  <2>3. ArmedIffTimerRuns' /\ TimerIsWanted'
    BY <1>8, RestoredAlarm DEF Restore
  <2> QED
    BY <2>1, <2>2, <2>3
<1>9. CASE Advance
  BY <1>9 DEF Advance, devVars, alarmVars, Alarm
<1>10. CASE UNCHANGED vars
  BY <1>10 DEF vars, devVars, alarmVars, Alarm
<1> QED
  BY <1>1, <1>2, <1>3, <1>4, <1>5, <1>6, <1>7, <1>8, <1>9, <1>10 DEF Next

\* IInv holds throughout.
THEOREM AlwaysIInv == Spec => []IInv
  BY InitIInv, NextIInv, PTL DEF Spec

\* The flag that is saved with the machine tells whether the host timer runs.
THEOREM AlwaysArmedIffTimerRuns == Spec => []ArmedIffTimerRuns
<1>1. IInv => ArmedIffTimerRuns
  BY DEF IInv
<1> QED
  BY <1>1, AlwaysIInv, PTL

\* Times read in two accesses are never torn, for every width of a word.
THEOREM TimeNeverTorn == Spec => []TimeNotTorn
<1>1. IInv => TimeNotTorn
  BY DEF IInv
<1> QED
  BY <1>1, AlwaysIInv, PTL

\* A step that raises the interrupt does so for an alarm that is programmed and
\* due, although goldfish_timer_tick may come from an earlier alarm's timer.
LEMMA RisesInTime ==
    ASSUME IInv, [Next]_vars, line = 0, line' = 1, torn' = 0
    PROVE  wanted' # NoTime /\ wanted' <= clock
<1> USE DEF IInv, TypeOK
<1>1. CASE goldfish_timer_tick
  BY <1>1, NoTimeNegative
     DEF goldfish_timer_tick, alarmVars, ArmedIffTimerRuns, TimerIsWanted
<1>2. ASSUME NEW v \in 0..WordSize - 1, WriteAlarmLow(v)
      PROVE  wanted' # NoTime /\ wanted' <= clock
  <2>1. Alarm(v) \in Int /\ Alarm(v) # NoTime
    BY AlarmIsTime
  <2>2. wanted' = Alarm(v)
    BY <1>2 DEF WriteAlarmLow, Alarm, RegistersKept
  <2> QED
    BY <1>2, <2>1, <2>2 DEF WriteAlarmLow
<1>3. CASE Restore
  BY <1>3, RestoredAlarm DEF Restore
<1>4. ASSUME line' = line \/ line' = 0 PROVE FALSE
  BY <1>4
<1> QED
  BY <1>1, <1>2, <1>3, <1>4 DEF Next, vars, devVars, ReadTimeLow, ReadTimeHigh,
     WriteAlarmHigh, ClearInterrupt, ClearAlarm, Advance

\* The interrupt never rises early, for every word size and however often the
\* machine is saved and loaded.
THEOREM NeverRisesEarly == Spec => NeverEarly
<1>1. IInv /\ [Next]_vars =>
        [line = 0 /\ line' = 1 /\ torn' = 0 => wanted' # NoTime /\ wanted' <= clock]_vars
  BY RisesInTime
<1> QED
  BY <1>1, AlwaysIInv, PTL DEF Spec, NeverEarly

=============================================================================
