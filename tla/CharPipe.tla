----------------------------- MODULE CharPipe ------------------------------
(***************************************************************************)
(* A charpipe (charpipe.c): two character drivers joined back to back.     *)
(* What the user of one half writes goes straight to the read handler of   *)
(* the peer while nothing is buffered and the peer's can_read allows it;   *)
(* the rest is kept in a list of circular buffers ("bips") and delivered   *)
(* by charpipe_poll, which the main loop calls after every select.         *)
(*                                                                         *)
(* A bip is a bounded queue (CBuffer implements BoundedFifo).  The user of *)
(* a half holds what its read handler got in inbox; its can_read reports   *)
(* the room left there, as tty_can_receive does.  Bytes are numbered in    *)
(* the order they are written, so that loss and reordering show.           *)
(* charpipehalf_close is not modelled: nothing in the emulator closes a    *)
(* charpipe.                                                               *)
(***************************************************************************)
EXTENDS Integers, Sequences, SequencesExt

CONSTANTS
    Readers,    \* the halves whose user installs can_read and read handlers
    AtStartup,  \* those of them whose user does so before the main loop runs
    Room,       \* Room[h]: what the reader at h can hold
    BipSize,    \* BIP_BUFFER_SIZE
    MaxWrite,   \* bound on the length of one write
    MaxSent     \* bound on the bytes written to a half

Halves == {"a", "b"}

VARIABLES
    running,    \* the main loop runs
    handlers,   \* halves whose cs->chr_read and chr_can_read are set
    bips,       \* bips[h]: the list bip_first..bip_last, each its contents
    inbox,      \* inbox[h]: bytes delivered to the reader at h, not yet used
    sent,       \* sent[h]: number of bytes written to h
    taken       \* taken[h]: number of bytes the reader at h has used

vars == <<running, handlers, bips, inbox, sent, taken>>

Peer(h) == IF h = "a" THEN "b" ELSE "a"
Least(m, n) == IF m <= n THEN m ELSE n
Drop(s, n) == SubSeq(s, n + 1, Len(s))

\* qemu_chr_open_charpipe and charpipehalf_init.
Init ==
    /\ running = FALSE
    /\ handlers = {}
    /\ bips = [h \in Halves |-> <<>>]
    /\ inbox = [h \in Halves |-> <<>>]
    /\ sent = [h \in Halves |-> 0]
    /\ taken = [h \in Halves |-> 0]

\* qemu_chr_can_read of the user at h.
CanRead(h) == Room[h] - Len(inbox[h])

-----------------------------------------------------------------------------
\* qemu_chr_add_handlers by the user of a half.
AddHandlers(h) ==
    /\ h \in Readers \ handlers
    /\ handlers' = handlers \cup {h}
    /\ UNCHANGED <<running, bips, inbox, sent, taken>>

\* Start-up ends and the main loop begins.
Start ==
    /\ ~running
    /\ AtStartup \subseteq handlers
    /\ running' = TRUE
    /\ UNCHANGED <<handlers, bips, inbox, sent, taken>>

\* bytes cut into freshly allocated bips
Pieces(s) ==
    [k \in 1..(Len(s) + BipSize - 1) \div BipSize |->
        SubSeq(s, (k - 1) * BipSize + 1, Least(k * BipSize, Len(s)))]

\* The buffering loop of charpipehalf_write: the last bip is filled before a
\* new one is allocated.
Buffered(list, s) ==
    IF list = <<>> THEN Pieces(s)
    ELSE LET last == list[Len(list)]
             fits == Least(BipSize - Len(last), Len(s))
         IN  [list EXCEPT ![Len(list)] = last \o SubSeq(s, 1, fits)]
                \o Pieces(Drop(s, fits))

\* Mutant of Direct: buffered data does not stop the direct write.
DirectAlways(h, n) ==
    IF Peer(h) \in handlers THEN Least(n, CanRead(Peer(h))) ELSE 0

\* How much of n bytes charpipehalf_write hands to the peer directly.
Direct(h, n) ==
    IF bips[h] = <<>> /\ Peer(h) \in handlers
    THEN Least(n, CanRead(Peer(h)))
    ELSE 0

\* charpipehalf_write of n bytes by the user of h.  A user writes with its
\* handlers installed, if it has any, or during start-up: qemud_serial_init
\* sends its probe first and installs its handlers after.
charpipehalf_write(h, n) ==
    LET data   == [i \in 1..n |-> sent[h] + i]
        direct == Direct(h, n)
    IN  /\ h \in handlers \/ h \notin Readers \/ (h \in AtStartup /\ ~running)
        /\ sent[h] + n <= MaxSent
        /\ sent' = [sent EXCEPT ![h] = @ + n]
        /\ inbox' = [inbox EXCEPT ![Peer(h)] = @ \o SubSeq(data, 1, direct)]
        /\ bips' = [bips EXCEPT ![h] = Buffered(@, Drop(data, direct))]
        /\ UNCHANGED <<running, handlers, taken>>

\* What charpipehalf_poll(h) delivers: everything the peer can read.  The
\* limit is only observed when h itself has a can_read handler.
PollCount(h) ==
    LET held == Len(FlattenSeq(bips[h]))
    IN  IF Peer(h) \notin handlers THEN 0
        ELSE IF h \in handlers THEN Least(held, CanRead(Peer(h)))
        ELSE held

\* n bytes leave the list; bips that become empty are freed.
RECURSIVE Consumed(_, _)
Consumed(list, n) ==
    IF list = <<>> THEN list
    ELSE IF n >= Len(list[1]) THEN Consumed(Tail(list), n - Len(list[1]))
    ELSE [list EXCEPT ![1] = Drop(@, n)]

\* charpipe_poll: both halves are polled.  The two touch different state.
charpipe_poll ==
    LET n == [h \in Halves |-> PollCount(h)]
    IN  /\ running
        /\ bips' = [h \in Halves |-> Consumed(bips[h], n[h])]
        /\ inbox' = [h \in Halves |-> inbox[h] \o
                        SubSeq(FlattenSeq(bips[Peer(h)]), 1, n[Peer(h)])]
        /\ UNCHANGED <<running, handlers, sent, taken>>

\* The user of h makes use of n bytes it was given (external).
Use(h, n) ==
    /\ n <= Len(inbox[h])
    /\ inbox' = [inbox EXCEPT ![h] = Drop(@, n)]
    /\ taken' = [taken EXCEPT ![h] = @ + n]
    /\ UNCHANGED <<running, handlers, bips, sent>>

-----------------------------------------------------------------------------
\* Bytes arrive exactly once and in order, although some take the direct path
\* and some go through the buffers (charpipehalf_write, charpipehalf_poll).
InOrder ==
    \A h \in Halves :
        inbox[Peer(h)] \o FlattenSeq(bips[h])
            = [i \in 1..sent[h] - taken[Peer(h)] |-> taken[Peer(h)] + i]

\* No read handler is ever given more than its can_read handler offered, as
\* tty_receive and qemud_serial_read rely on.
NoOverrun == \A h \in handlers : Len(inbox[h]) <= Room[h]

=============================================================================
