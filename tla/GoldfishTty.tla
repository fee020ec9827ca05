---------------------------- MODULE GoldfishTty ----------------------------
(***************************************************************************)
(* The goldfish tty (hw/goldfish_tty.c), a serial port with a receive      *)
(* buffer of 128 bytes, together with the guest driver that uses it        *)
(* (external, in the kernel): its interrupt handler reads TTY_BYTES_READY, *)
(* then, holding the port's lock, programs TTY_DATA_LEN with that count    *)
(* and issues READ_BUFFER; writers program TTY_DATA_LEN and issue          *)
(* WRITE_BUFFER under the same lock.  Bytes may come in between any two of *)
(* these accesses.  Received bytes are numbered in the order they arrive.  *)
(***************************************************************************)
EXTENDS Integers, Sequences

CONSTANTS
    BufSize,    \* sizeof(s->data)
    MaxBytes    \* bound on the bytes received and on those written

ASSUME TtyAssumption == BufSize \in Nat \ {0} /\ MaxBytes \in Nat

VARIABLES
    data,       \* s->data[0..data_count-1]
    ready,      \* s->ready: interrupts are enabled
    ptr_len,    \* s->ptr_len
    line,       \* the tty's interrupt
    aborted,    \* 1 once cpu_abort was called
    arrived,    \* number of bytes received from the character driver
    taken,      \* number of bytes read by the guest
    written,    \* number of bytes passed to the character driver
    counted,    \* guest reader: TTY_BYTES_READY as read, 0 when idle
    lock        \* guest: "free", or who is between DATA_LEN and TTY_CMD

devVars == <<data, ready, ptr_len, line, aborted>>
vars == <<devVars, arrived, taken, written, counted, lock>>

\* goldfish_tty_add: the state is allocated zeroed.
Init ==
    /\ data = <<>>
    /\ ready = 0
    /\ ptr_len = 0
    /\ line = 0
    /\ aborted = 0
    /\ arrived = 0
    /\ taken = 0
    /\ written = 0
    /\ counted = 0
    /\ lock = "free"

-----------------------------------------------------------------------------
\* goldfish_tty_write of TTY_CMD_INT_DISABLE (the guest closes the port).
IntDisable ==
    /\ lock = "free"
    /\ line' = IF ready = 1 /\ Len(data) > 0 THEN 0 ELSE line
    /\ ready' = 0
    /\ UNCHANGED <<data, ptr_len, aborted, arrived, taken, written, counted, lock>>

\* Mutant of IntEnable: bytes that arrived earlier are not announced.
IntEnableForgets ==
    /\ lock = "free"
    /\ ready' = 1
    /\ UNCHANGED <<data, ptr_len, line, aborted, arrived, taken, written, counted, lock>>

\* goldfish_tty_write of TTY_CMD_INT_ENABLE (the guest opens the port).
IntEnable ==
    /\ lock = "free"
    /\ line' = IF ready = 0 /\ Len(data) > 0 THEN 1 ELSE line
    /\ ready' = 1
    /\ UNCHANGED <<data, ptr_len, aborted, arrived, taken, written, counted, lock>>

\* goldfish_tty_read of TTY_BYTES_READY by the interrupt handler.
BytesReady ==
    /\ line = 1 /\ counted = 0
    /\ counted' = Len(data)
    /\ UNCHANGED <<devVars, arrived, taken, written, lock>>

\* goldfish_tty_write of TTY_DATA_LEN by the interrupt handler.
ReaderSetsLen ==
    /\ lock = "free" /\ counted > 0
    /\ lock' = "reader"
    /\ ptr_len' = counted
    /\ UNCHANGED <<data, ready, line, aborted, arrived, taken, written, counted>>

\* Mutant of TooLong: asking for all that is there is refused too.
TooLongStrict == ptr_len >= Len(data)

\* The test for cpu_abort in TTY_CMD_READ_BUFFER.
TooLong == ptr_len > Len(data)

\* goldfish_tty_write of TTY_CMD_READ_BUFFER.
ReadBuffer ==
    /\ lock = "reader"
    /\ lock' = "free" /\ counted' = 0
    /\ IF TooLong
       THEN aborted' = 1 /\ UNCHANGED <<data, line, taken>>
       ELSE /\ data' = SubSeq(data, ptr_len + 1, Len(data))
            /\ line' = IF Len(data') = 0 /\ ready = 1 THEN 0 ELSE line
            /\ taken' = taken + ptr_len
            /\ UNCHANGED aborted
    /\ UNCHANGED <<ready, ptr_len, arrived, written>>

\* goldfish_tty_write of TTY_DATA_LEN by a writer.
WriterSetsLen(n) ==
    /\ lock = "free" /\ written + n <= MaxBytes
    /\ lock' = "writer"
    /\ ptr_len' = n
    /\ UNCHANGED <<data, ready, line, aborted, arrived, taken, written, counted>>

\* goldfish_tty_write of TTY_CMD_WRITE_BUFFER: the loop passes ptr_len bytes
\* on, in pieces of at most 64.
WriteBuffer ==
    /\ lock = "writer"
    /\ lock' = "free"
    /\ written' = written + ptr_len
    /\ UNCHANGED <<devVars, arrived, taken, counted>>

\* goldfish_tty_write to TTY_PUT_CHAR.
PutChar ==
    /\ written + (IF lock = "writer" THEN ptr_len ELSE 0) < MaxBytes
    /\ written' = written + 1
    /\ UNCHANGED <<devVars, arrived, taken, counted, lock>>

\* tty_can_receive
tty_can_receive == BufSize - Len(data)

\* tty_receive of n bytes: the caller keeps to what tty_can_receive returned
\* (LineInOrder of SerialLine).
tty_receive(n) ==
    /\ n <= tty_can_receive
    /\ arrived + n <= MaxBytes
    /\ data' = data \o [i \in 1..n |-> arrived + i]
    /\ arrived' = arrived + n
    /\ line' = IF Len(data') > 0 /\ ready = 1 THEN 1 ELSE line
    /\ UNCHANGED <<ready, ptr_len, aborted, taken, written, counted, lock>>

Next ==
    /\ aborted = 0
    /\ \/ IntDisable
       \/ IntEnable
       \/ BytesReady
       \/ ReaderSetsLen
       \/ ReadBuffer
       \/ \E n \in 1..BufSize : WriterSetsLen(n)
       \/ WriteBuffer
       \/ PutChar
       \/ \E n \in 1..BufSize : tty_receive(n)

Spec == Init /\ [][Next]_vars

-----------------------------------------------------------------------------
\* The types of the device's and the driver's state.  The receive buffer,
\* which tty_receive fills with no check of its own, is never overrun.
TypeOK ==
    /\ data \in Seq(Nat) /\ Len(data) <= BufSize
    /\ ready \in {0, 1} /\ line \in {0, 1} /\ aborted \in {0, 1}
    /\ ptr_len \in Nat /\ arrived \in Nat /\ taken \in Nat /\ written \in Nat
    /\ counted \in 0..BufSize
    /\ lock \in {"free", "reader", "writer"}

\* The interrupt is high exactly while interrupts are enabled and bytes wait,
\* although each handler adjusts it only on the transition it sees.
IrqExact == line = 1 <=> ready = 1 /\ data # <<>>

\* The guest reads the received bytes once and in order.
InOrder ==
    /\ taken + Len(data) = arrived
    /\ \A i \in 1..Len(data) : data[i] = taken + i

\* The cpu_abort of READ_BUFFER is never reached by a driver that asks for
\* what TTY_BYTES_READY said, even if bytes arrive and writers use the length
\* register in between.
NeverAborts == aborted = 0

=============================================================================
