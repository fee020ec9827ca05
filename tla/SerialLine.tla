----------------------------- MODULE SerialLine -----------------------------
(***************************************************************************)
(* The serial line of the emulator as a whole: the goldfish tty and its    *)
(* driver in the guest at half "a" of a charpipe, the qemud serial object  *)
(* at half "b" (CharPipe, GoldfishTty).  A delivery to half "a" is a call  *)
(* of tty_receive, what the guest reads leaves the inbox of half "a", and  *)
(* what the guest writes is a charpipehalf_write to it.  The two modules   *)
(* keep their own account of the tty's buffer, data and inbox["a"]: that   *)
(* they agree is a property.                                               *)
(***************************************************************************)
EXTENDS GoldfishTty

CONSTANTS
    HostRoom,           \* what the qemud serial object accepts at once
    BipSize, MaxWrite   \* see CharPipe

VARIABLES running, handlers, bips, inbox, sent, used

Room == [a |-> BufSize, b |-> HostRoom]

Pipe == INSTANCE CharPipe WITH
    Readers <- {"a", "b"}, AtStartup <- {"a", "b"}, MaxSent <- MaxBytes,
    taken <- used

pipeVars == <<running, handlers, bips, inbox, sent, used>>
lineVars == <<vars, pipeVars>>

LineInit == Init /\ Pipe!Init

-----------------------------------------------------------------------------
\* A step of the pipe: the read handler of half "a" is tty_receive.
PipeStep(A) ==
    /\ A
    /\ LET n == Len(inbox'["a"]) - Len(inbox["a"])
       IN  IF n > 0 THEN tty_receive(n) ELSE UNCHANGED vars

\* A step of the guest: what it reads leaves the pipe's hands, what it writes
\* enters them.
GuestStep(A) ==
    /\ running /\ aborted = 0
    /\ A
    /\ CASE taken' > taken -> Pipe!Use("a", taken' - taken)
         [] written' > written -> Pipe!charpipehalf_write("a", written' - written)
         [] OTHER -> UNCHANGED pipeVars

\* goldfish_tty_add and qemud_serial_init install their handlers, the latter
\* after it has sent its probe; then the main loop runs.
StartUp ==
    PipeStep(Pipe!AddHandlers("a") \/ Pipe!AddHandlers("b") \/ Pipe!Start)

HostWrite(n) == PipeStep(Pipe!charpipehalf_write("b", n))
HostUse(n) == PipeStep(Pipe!Use("b", n))
MainLoopPoll == PipeStep(Pipe!charpipe_poll)

GuestOpen == GuestStep(IntEnable)
GuestClose == GuestStep(IntDisable)
GuestRead == GuestStep(BytesReady \/ ReaderSetsLen \/ ReadBuffer)
GuestWrite(n) == GuestStep(WriterSetsLen(n))
GuestSend == GuestStep(WriteBuffer)
GuestPut == GuestStep(PutChar)

LineNext ==
    \/ StartUp
    \/ \E n \in 1..MaxWrite : HostWrite(n) \/ HostUse(n)
    \/ MainLoopPoll
    \/ GuestOpen
    \/ GuestClose
    \/ GuestRead
    \/ \E n \in 1..MaxWrite : GuestWrite(n)
    \/ GuestSend
    \/ GuestPut

\* The main loop polls, qemud uses what it gets, the guest serves its
\* interrupt and does not hold the port's lock for ever.
LineSpec ==
    /\ LineInit /\ [][LineNext]_lineVars
    /\ WF_lineVars(StartUp) /\ WF_lineVars(MainLoopPoll) /\ WF_lineVars(HostUse(1))
    /\ WF_lineVars(GuestRead) /\ WF_lineVars(GuestSend)

-----------------------------------------------------------------------------
\* Bytes travel both ways exactly once and in order, although some take the
\* direct path of charpipehalf_write and some wait in its buffers, and what
\* the tty holds is what the pipe has delivered to it.  No reader gets more
\* than its can_read offered: tty_receive and qemud_serial_read copy without a
\* check of their own.
LineInOrder ==
    /\ Pipe!InOrder /\ InOrder /\ data = inbox["a"]
    /\ Pipe!NoOverrun /\ Len(data) <= BufSize

\* Whatever qemud writes is read by the guest in the end, unless it closes the
\* port, and whatever the guest writes reaches qemud: again and again each of
\* them has caught up.
BytesArrive ==
    /\ []<>(taken = sent["b"] \/ ready = 0)
    /\ []<>(used["b"] = written)

=============================================================================
