-------------------------- MODULE GoldfishEvents ---------------------------
(***************************************************************************)
(* The event queue of the goldfish events device                           *)
(* (hw/goldfish_events_device.c).  The user interface puts key, touch and  *)
(* trackball events into a ring of MAX_EVENTS words, three words an event; *)
(* the guest's interrupt handler takes one word per read of REG_READ.  The *)
(* words are numbered in the order they are put in.  MAX_EVENTS is a power *)
(* of two in the code, so that masking an index wraps it.                  *)
(***************************************************************************)
EXTENDS Integers

CONSTANTS
    MAX_EVENTS,
    MaxPut      \* bound on the events put into the queue

\* MAX_EVENTS is 256*4 in the code; what the ring needs is room for two events.
EventsAssumption == MAX_EVENTS \in Nat /\ MAX_EVENTS >= 8 /\ MaxPut \in Nat

VARIABLES
    events,     \* s->events
    first, last,
    line,       \* the device's interrupt
    accepted,   \* history: number of events put into the queue
    taken       \* history: number of words the guest has read

vars == <<events, first, last, line, accepted, taken>>

\* events_dev_init: the state is allocated zeroed.
Init ==
    /\ events = [p \in 0..MAX_EVENTS - 1 |-> 0]
    /\ first = 0
    /\ last = 0
    /\ line = 0
    /\ accepted = 0
    /\ taken = 0

\* index & (MAX_EVENTS-1), for an index less than one round too large
Mask(p) == IF p >= MAX_EVENTS THEN p - MAX_EVENTS ELSE p

\* How far position p lies behind position q in the ring.
Behind(p, q) == IF p < q THEN p - q + MAX_EVENTS ELSE p - q

\* "enqueued" of enqueue_event
Enqueued == Behind(last, first)

-----------------------------------------------------------------------------
\* Mutant of Fits: the queue is never taken for full.
FitsAlways(m) == m <= 5

\* The m-th of several enqueue_event calls in a row does not lose its event,
\* given that none before it did.
Fits(m) == Enqueued + 3 * m < MAX_EVENTS - 1

\* The interrupt after m events were put in: raised for an empty queue.
LineAfterPut(m) == IF first = last /\ m > 0 THEN 1 ELSE line

\* A handler that calls enqueue_event k times in a row: the first m events
\* are taken, the rest are lost because the queue is full.
Put(k) ==
    \E m \in 0..k :
        /\ m > 0 => Fits(m)
        /\ m < k => ~Fits(m + 1)
        /\ accepted + m <= MaxPut
        /\ events' = [p \in 0..MAX_EVENTS - 1 |->
                        IF Behind(p, last) < 3 * m
                        THEN 3 * accepted + Behind(p, last) + 1
                        ELSE events[p]]
        /\ last' = Mask(last + 3 * m)
        /\ line' = LineAfterPut(m)
        /\ accepted' = accepted + m
        /\ UNCHANGED <<first, taken>>

\* events_put_keycode and events_put_generic: one event.
events_put_keycode == Put(1)

\* events_put_mouse for the touch screen: x, y, z, button, and the sync.
PutTouch == Put(5)

\* events_put_mouse for the trackball: x, y, and the sync.
PutTrackball == Put(3)

\* events_read of REG_READ (dequeue_event).  A read of an empty queue returns
\* 0 and changes nothing.
dequeue_event ==
    IF first = last THEN UNCHANGED vars
    ELSE /\ taken' = taken + 1
         /\ first' = Mask(first + 1)
         /\ line' = IF first' = last THEN 0 ELSE line
         /\ UNCHANGED <<events, last, accepted>>

Next ==
    \/ events_put_keycode
    \/ PutTouch
    \/ PutTrackball
    \/ dequeue_event

Spec == Init /\ [][Next]_vars

-----------------------------------------------------------------------------
\* The types of the ring.
TypeOK ==
    /\ events \in [0..MAX_EVENTS - 1 -> Nat]
    /\ first \in 0..MAX_EVENTS - 1 /\ last \in 0..MAX_EVENTS - 1
    /\ line \in {0, 1}
    /\ accepted \in Nat /\ taken \in Nat

\* The guest reads the words of the accepted events in order, none lost, torn
\* or overwritten, wherever the ring wraps.
InOrder ==
    /\ taken + Enqueued = 3 * accepted
    /\ \A i \in 0..MAX_EVENTS - 1 :
         i < Enqueued => events[Mask(first + i)] = taken + i + 1

=============================================================================
