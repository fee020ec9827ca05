------------------------------ MODULE SlirpIf ------------------------------
(***************************************************************************)
(* The output queues of the user-mode network stack (slirp-android/if.c).  *)
(* A queue is a list of lists, one inner list per session (socket).  The   *)
(* fast queue, for sessions that want low delay, goes before the batch     *)
(* queue, which is served one packet a session in turn.  Operators take a  *)
(* record of the queues to the record after a call.                        *)
(*                                                                         *)
(* A session has at most one list in the batch queue, so next_m, which     *)
(* points to such a list, is its session, or NoSession at the queue's head.*)
(***************************************************************************)
EXTENDS Integers, Sequences, SequencesExt, FiniteSetsExt

CONSTANTS
    Sessions,
    LowDelay,               \* sessions with IPTOS_LOWDELAY
    HogQueued, HogSent,     \* 6 and 3 in the code
    NoSession

\* A packet is the session it belongs to and its number there.
Packet(so, n) == [so |-> so, n |-> n]

\* if_init, and the counters of new sockets
NewQueues == [fastq |-> <<>>, batchq |-> <<>>, next_m |-> NoSession,
              so_queued |-> [so \in Sessions |-> 0],
              so_nqueued |-> [so \in Sessions |-> 0]]

if_queued(q) == Len(FlattenSeq(q.fastq \o q.batchq))

\* The position of a session's list in a queue, 0 if it has none.
PositionOf(queue, so) ==
    Max({0} \cup {i \in DOMAIN queue : Head(queue[i]).so = so})

AppendAt(queue, i, packet) == [queue EXCEPT ![i] = Append(@, packet)]

-----------------------------------------------------------------------------
\* Mutant of Enqueued: the batch queue is not looked at first.
EnqueuedFast(q, so, packet) ==
    IF so \in LowDelay THEN [q EXCEPT !.fastq = Append(@, <<packet>>)]
    ELSE LET b == PositionOf(q.batchq, so)
         IN  IF b > 0 THEN [q EXCEPT !.batchq = AppendAt(@, b, packet)]
             ELSE [q EXCEPT !.batchq = Append(@, <<packet>>)]

\* The first part of if_output: the packet joins its session's list in the
\* batch queue; without one, a packet that wants low delay goes to the end of
\* the fast queue, and any other starts a new list.
Enqueued(q, so, packet) ==
    LET b == PositionOf(q.batchq, so)
        f == Len(q.fastq)
    IN  CASE b > 0 -> [q EXCEPT !.batchq = AppendAt(@, b, packet)]
          [] b = 0 /\ so \in LowDelay ->
               IF f > 0 /\ Head(q.fastq[f]).so = so
               THEN [q EXCEPT !.fastq = AppendAt(@, f, packet)]
               ELSE [q EXCEPT !.fastq = Append(@, <<packet>>)]
          [] OTHER -> [q EXCEPT !.batchq = Append(@, <<packet>>)]

\* The second part: a session that has queued many packets without a pause and
\* sent some of them has its list moved to the front of the batch queue,
\* whichever queue the list is on.
Downgraded(q, so) ==
    LET b == PositionOf(q.batchq, so)
        f == PositionOf(q.fastq, so)
    IN  CASE ~(q.so_nqueued[so] >= HogQueued
               /\ q.so_nqueued[so] - q.so_queued[so] >= HogSent) -> q
          [] b > 0 -> [q EXCEPT !.batchq = <<q.batchq[b]>> \o RemoveAt(@, b)]
          [] OTHER -> [q EXCEPT !.fastq = RemoveAt(@, f),
                                !.batchq = <<q.fastq[f]>> \o @]

\* if_output up to its call of if_start.
if_output(q, so, packet) ==
    Downgraded([Enqueued(q, so, packet) EXCEPT !.so_queued[so] = @ + 1,
                                               !.so_nqueued[so] = @ + 1], so)

\* The queue after the first packet of its i-th list is taken: the rest of the
\* list keeps its place.
Without(queue, i) ==
    IF Len(queue[i]) = 1 THEN RemoveAt(queue, i)
    ELSE [queue EXCEPT ![i] = Tail(@)]

\* One round of if_start: which packet is taken, and the queues without it.
NextPacket(q) ==
    IF q.fastq # <<>> THEN Head(Head(q.fastq))
    ELSE IF q.next_m # NoSession
    THEN Head(q.batchq[PositionOf(q.batchq, q.next_m)])
    ELSE Head(Head(q.batchq))

Dequeued(q) ==
    LET so    == NextPacket(q).so
        b     == PositionOf(q.batchq, so)
        taken == IF q.fastq # <<>>
                 THEN [q EXCEPT !.fastq = Without(@, 1)]
                 ELSE [q EXCEPT !.batchq = Without(@, b),
                                !.next_m = IF b = Len(q.batchq) THEN NoSession
                                           ELSE Head(q.batchq[b + 1]).so]
        left  == q.so_queued[so] - 1
    IN  [taken EXCEPT !.so_queued[so] = left,
                      !.so_nqueued[so] = IF left = 0 THEN 0 ELSE @]

=============================================================================
