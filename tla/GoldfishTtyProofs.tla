------------------------- MODULE GoldfishTtyProofs -------------------------
(***************************************************************************)
(* Proofs about the goldfish tty (GoldfishTty) for every buffer size.      *)
(* The driver's count may be out of date when it is used.  The invariant   *)
(* that makes it harmless is that only READ_BUFFER removes bytes, so the   *)
(* count never exceeds what the buffer holds, and that the length register *)
(* still holds the count when the reader issues its command.               *)
(***************************************************************************)
EXTENDS GoldfishTty, SequenceTheorems, TLAPS

\* What the driver remembers of the device is safe to act on: the count it
\* read is still there, and under the lock it is what TTY_DATA_LEN holds.
CountSafe ==
    /\ counted <= Len(data)
    /\ lock = "reader" => ptr_len = counted /\ counted > 0

\* The inductive invariant.
IInv == TypeOK /\ IrqExact /\ InOrder /\ NeverAborts /\ CountSafe

\* goldfish_tty_add leaves the device in a state that satisfies IInv.
LEMMA InitIInv == Init => IInv
  BY TtyAssumption DEF Init, IInv, TypeOK, IrqExact, InOrder, NeverAborts, CountSafe

\* TTY_CMD_READ_BUFFER removes the first bytes and keeps the others in order.
LEMMA ReadBufferIInv == IInv /\ ReadBuffer => IInv'
<1> SUFFICES ASSUME IInv, ReadBuffer PROVE IInv'
  OBVIOUS
<1> USE TtyAssumption
<1>1. /\ ptr_len = counted /\ counted > 0 /\ counted <= Len(data)
      /\ counted \in Nat /\ Len(data) \in Nat /\ data \in Seq(Nat)
  BY DEF IInv, TypeOK, CountSafe, ReadBuffer
<1>2. /\ data' = SubSeq(data, counted + 1, Len(data))
      /\ line' = IF Len(data') = 0 /\ ready = 1 THEN 0 ELSE line
      /\ taken' = taken + counted /\ aborted' = aborted
      /\ lock' = "free" /\ counted' = 0
      /\ UNCHANGED <<ready, ptr_len, arrived, written>>
  BY <1>1 DEF ReadBuffer, TooLong
<1>3. /\ data' \in Seq(Nat) /\ Len(data') = Len(data) - counted
      /\ \A i \in 1..Len(data') : data'[i] = data[counted + i]
  BY <1>1, <1>2, SMTT(40)
<1>4. TypeOK'
  BY <1>1, <1>2, <1>3 DEF IInv, TypeOK
<1>5. IrqExact'
  <2>1. data # <<>>
    BY <1>1
  <2>2. data' = <<>> <=> Len(data') = 0
    BY <1>3
  <2> QED
    BY <2>1, <2>2, <1>2 DEF IInv, IrqExact, TypeOK
<1>6. InOrder'
  <2>1. taken \in Nat /\ taken + Len(data) = arrived
    BY DEF IInv, InOrder, TypeOK
  <2>2. taken' + Len(data') = arrived'
    <3>1. taken' = taken + counted /\ arrived' = arrived
      BY <1>2
    <3>2. Len(data') = Len(data) - counted /\ Len(data) \in Nat /\ counted \in Nat
      BY <1>1, <1>3
    <3> QED
      BY <2>1, <3>1, <3>2
  <2>3. ASSUME NEW i \in 1..Len(data') PROVE data'[i] = taken' + i
    <3>1. counted + i \in 1..Len(data)
      BY <1>1, <1>3
    <3>2. data[counted + i] = taken + (counted + i)
      BY <3>1 DEF IInv, InOrder
    <3>3. data'[i] = data[counted + i]
      BY <1>3
    <3> QED
      BY <1>1, <1>2, <2>1, <3>2, <3>3
  <2> QED
    BY <2>2, <2>3 DEF InOrder
<1> QED
  BY <1>1, <1>2, <1>3, <1>4, <1>5, <1>6 DEF IInv, NeverAborts, CountSafe

\* tty_receive adds bytes behind those that wait.
LEMMA ReceiveIInv == ASSUME NEW n \in 1..BufSize, IInv, tty_receive(n) PROVE IInv'
<1> USE TtyAssumption
<1> DEFINE new == [i \in 1..n |-> arrived + i]
<1>1. data \in Seq(Nat) /\ arrived \in Nat /\ n \in Nat /\ n > 0 /\ Len(data) \in Nat
  BY DEF IInv, TypeOK
<1>2. new \in Seq(Nat) /\ Len(new) = n
  BY <1>1
<1>3. data' = data \o new
  BY DEF tty_receive
<1>4. /\ data' \in Seq(Nat) /\ Len(data') = Len(data) + n
      /\ \A i \in 1..Len(data') :
            data'[i] = IF i <= Len(data) THEN data[i] ELSE new[i - Len(data)]
  <2> HIDE DEF new
  <2>1. /\ data \o new \in Seq(Nat)
        /\ Len(data \o new) = Len(data) + Len(new)
        /\ \A i \in 1..(Len(data) + Len(new)) : (data \o new)[i] =
              IF i <= Len(data) THEN data[i] ELSE new[i - Len(data)]
    BY <1>1, <1>2, ConcatProperties
  <2> QED
    BY <1>1, <1>2, <1>3, <2>1
<1>5. TypeOK'
  BY <1>1, <1>4 DEF IInv, TypeOK, tty_receive, tty_can_receive
<1>6. IrqExact'
  <2>1. data' # <<>> /\ Len(data') > 0
    BY <1>1, <1>4
  <2> QED
    BY <2>1 DEF IInv, IrqExact, TypeOK, tty_receive
<1>7. InOrder'
  <2>1. taken' = taken /\ arrived' = arrived + n /\ taken \in Nat
    BY DEF tty_receive, IInv, TypeOK
  <2>2. taken + Len(data) = arrived
    BY DEF IInv, InOrder
  <2>3. ASSUME NEW i \in 1..Len(data') PROVE data'[i] = taken + i
    <3>0. data'[i] = IF i <= Len(data) THEN data[i] ELSE new[i - Len(data)]
      BY <1>4
    <3>1. CASE i <= Len(data)
      <4>1. i \in 1..Len(data)
        BY <1>1, <1>4, <3>1
      <4>2. data[i] = taken + i
        BY <4>1 DEF IInv, InOrder
      <4> QED
        BY <3>0, <3>1, <4>2
    <3>2. CASE i > Len(data)
      <4>1. i - Len(data) \in 1..n
        BY <1>1, <1>4, <3>2
      <4>2. new[i - Len(data)] = arrived + (i - Len(data))
        BY <4>1
      <4>3. i \in Nat
        BY <1>1, <1>4
      <4> HIDE DEF new
      <4> QED
        BY <1>1, <2>1, <2>2, <3>0, <3>2, <4>2, <4>3
    <3> QED
      BY <1>1, <1>4, <3>1, <3>2
  <2>4. taken' + Len(data') = arrived'
    <3>1. Len(data') = Len(data) + n
      BY <1>4
    <3> HIDE DEF new
    <3> QED
      BY <1>1, <2>1, <2>2, <3>1
  <2>5. \A i \in 1..Len(data') : data'[i] = taken' + i
    BY <2>1, <2>3
  <2> QED
    BY <2>4, <2>5 DEF InOrder
<1> QED
  BY <1>1, <1>4, <1>5, <1>6, <1>7 DEF IInv, NeverAborts, CountSafe, TypeOK, tty_receive

\* Every access of the guest and every delivery preserves IInv.
LEMMA NextIInv == IInv /\ [Next]_vars => IInv'
<1> SUFFICES ASSUME IInv, [Next]_vars PROVE IInv'
  OBVIOUS
<1> USE TtyAssumption
<1>0. data # <<>> <=> Len(data) > 0
  BY DEF IInv, TypeOK
<1>1. CASE IntDisable
  BY <1>0, <1>1 DEF IntDisable, IInv, TypeOK, IrqExact, InOrder, NeverAborts, CountSafe
<1>2. CASE IntEnable
  BY <1>0, <1>2 DEF IntEnable, IInv, TypeOK, IrqExact, InOrder, NeverAborts, CountSafe
<1>3. CASE BytesReady
  BY <1>0, <1>3 DEF BytesReady, devVars, IInv, TypeOK, IrqExact, InOrder, NeverAborts, CountSafe
<1>4. CASE ReaderSetsLen
  BY <1>4 DEF ReaderSetsLen, IInv, TypeOK, IrqExact, InOrder, NeverAborts, CountSafe
<1>5. CASE ReadBuffer
  BY <1>5, ReadBufferIInv
<1>6. ASSUME NEW n \in 1..BufSize, WriterSetsLen(n) PROVE IInv'
  BY <1>6 DEF WriterSetsLen, IInv, TypeOK, IrqExact, InOrder, NeverAborts, CountSafe
<1>7. CASE WriteBuffer
  BY <1>7 DEF WriteBuffer, devVars, IInv, TypeOK, IrqExact, InOrder, NeverAborts, CountSafe
<1>8. CASE PutChar
  BY <1>8 DEF PutChar, devVars, IInv, TypeOK, IrqExact, InOrder, NeverAborts, CountSafe
<1>9. ASSUME NEW n \in 1..BufSize, tty_receive(n) PROVE IInv'
  BY <1>9, ReceiveIInv
<1>10. CASE UNCHANGED vars
  BY <1>10 DEF vars, devVars, IInv, TypeOK, IrqExact, InOrder, NeverAborts, CountSafe
<1> QED
  BY <1>1, <1>2, <1>3, <1>4, <1>5, <1>6, <1>7, <1>8, <1>9, <1>10 DEF Next

\* IInv holds throughout, for every buffer size and any number of bytes.
THEOREM AlwaysIInv == Spec => []IInv
  BY InitIInv, NextIInv, PTL DEF Spec

\* Whatever the order of the driver's accesses and of the bytes that come, the
\* interrupt is up exactly while bytes wait for a driver that enabled it.
THEOREM IrqAlwaysExact == Spec => []IrqExact
<1>1. IInv => IrqExact
  BY DEF IInv
<1> QED
  BY <1>1, AlwaysIInv, PTL

\* The cpu_abort in TTY_CMD_READ_BUFFER is out of the driver's reach for every
\* buffer size, although its count may be stale when it is used.
THEOREM AbortUnreachable == Spec => []NeverAborts
<1>1. IInv => NeverAborts
  BY DEF IInv
<1> QED
  BY <1>1, AlwaysIInv, PTL

\* No byte that was accepted is lost, repeated or reordered.
THEOREM AlwaysInOrder == Spec => []InOrder
<1>1. IInv => InOrder
  BY DEF IInv
<1> QED
  BY <1>1, AlwaysIInv, PTL

=============================================================================
