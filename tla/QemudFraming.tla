---------------------------- MODULE QemudFraming ---------------------------
(***************************************************************************)
(* Framed qemud clients (qemud_client_recv in android/hw-qemud.c).  A      *)
(* client in the guest writes frames, a size header and a payload each;    *)
(* the daemon (external) passes its bytes on in packets cut anywhere, and  *)
(* qemud_client_recv is called with one packet at a time.  Its loop is     *)
(* modelled round by round.  The service's clie_recv may close the client, *)
(* as boot_property_client_recv does.  A byte is <<k, i>>, the i-th byte   *)
(* of the k-th frame.                                                      *)
(***************************************************************************)
EXTENDS Integers, Sequences

CONSTANTS
    FRAME_HEADER_SIZE,
    Sizes,          \* payload sizes the client uses
    MaxFrames,      \* bound on the frames sent
    MayClose        \* does the service ever close the client?

VARIABLES
    sizes,          \* sizes[k]: payload size of the k-th frame
    unsent,         \* bytes written by the client, not yet in a packet
    msg,            \* what is left of the packet in qemud_client_recv
    looping,        \* qemud_client_recv is in its loop
    need_header,
    header,         \* bytes in c->header
    frame_size,     \* c->payload->size
    payload,        \* bytes in c->payload
    received,       \* payloads handed to clie_recv
    closed          \* the client object was freed

client == <<need_header, header, frame_size, payload, received, closed>>
vars == <<sizes, unsent, msg, looping, client>>

Least(m, n) == IF m <= n THEN m ELSE n
Take(s, n) == SubSeq(s, 1, n)
Drop(s, n) == SubSeq(s, n + 1, Len(s))

\* The bytes of frame k from the i-th to the j-th.
Bytes(k, i, j) == [m \in 1..j - i + 1 |-> <<k, i + m - 1>>]
HeaderOf(k) == Bytes(k, 1, FRAME_HEADER_SIZE)
PayloadOf(k) == Bytes(k, FRAME_HEADER_SIZE + 1, FRAME_HEADER_SIZE + sizes[k])

\* qemud_client_alloc and qemud_client_set_framing(c, 1)
Init ==
    /\ sizes = <<>> /\ unsent = <<>>
    /\ msg = <<>> /\ looping = 0
    /\ need_header = 1 /\ header = <<>>
    /\ frame_size = 0 /\ payload = <<>>
    /\ received = <<>>
    /\ closed = 0

\* hex2int of a frame header.
FrameSize(h) == IF h = HeaderOf(h[1][1]) THEN sizes[h[1][1]] ELSE -1

-----------------------------------------------------------------------------
\* The client in the guest writes a frame (external).
ClientWrite(n) ==
    /\ Len(sizes) < MaxFrames
    /\ sizes' = Append(sizes, n)
    /\ unsent' = unsent \o Bytes(Len(sizes) + 1, 1, FRAME_HEADER_SIZE + n)
    /\ UNCHANGED <<msg, looping, client>>

\* clie_recv gets a payload, and closes the client or not.
Deliver(data) ==
    /\ received' = Append(received, data)
    /\ closed' \in IF MayClose THEN {0, 1} ELSE {0}

\* The test of the special case of qemud_client_recv: the packet is exactly
\* one frame, and the header sink is full.
WholeFrame(m) ==
    /\ Len(m) > FRAME_HEADER_SIZE
    /\ need_header = 1
    /\ Len(header) = FRAME_HEADER_SIZE
    /\ FrameSize(Take(m, FRAME_HEADER_SIZE)) >= 0
    /\ Len(m) = FrameSize(Take(m, FRAME_HEADER_SIZE)) + FRAME_HEADER_SIZE

\* A packet of n bytes arrives for the client: the special case, or the loop
\* is entered.
qemud_client_recv(n) ==
    LET m == Take(unsent, n)
    IN  /\ looping = 0 /\ closed = 0
        /\ n <= Len(unsent)
        /\ unsent' = Drop(unsent, n)
        /\ IF WholeFrame(m)
           THEN /\ Deliver(Drop(m, FRAME_HEADER_SIZE))
                /\ UNCHANGED <<msg, looping>>
           ELSE /\ msg' = m /\ looping' = 1
                /\ UNCHANGED <<received, closed>>
        /\ UNCHANGED <<sizes, need_header, header, frame_size, payload>>

\* A round of the loop that reads the header and does not fill it, or finds
\* that the frame is empty or its header corrupted: nothing is reset.
RoundHeader ==
    LET n      == Least(FRAME_HEADER_SIZE - Len(header), Len(msg))
        filled == header \o Take(msg, n)
    IN  /\ looping = 1 /\ closed = 0 /\ need_header = 1 /\ msg # <<>>
        /\ Len(filled) < FRAME_HEADER_SIZE \/ FrameSize(filled) <= 0
        /\ header' = filled
        /\ msg' = Drop(msg, n)
        /\ UNCHANGED <<sizes, unsent, looping, need_header, frame_size, payload,
                       received, closed>>

\* Mutant of After: the packet is taken to end with the frame.
Nothing(rest, n) == <<>>

\* What is left of the packet: "msg += ..., msglen -= ..." in qemud_sink_fill.
After(rest, n) == Drop(rest, n)

\* As much of the payload is read as there is; a complete one is delivered.
ReadPayload(size, have, rest) ==
    LET n    == Least(size - Len(have), Len(rest))
        data == have \o Take(rest, n)
    IN  /\ payload' = data
        /\ msg' = After(rest, n)
        /\ IF Len(data) < size
           THEN need_header' = 0 /\ UNCHANGED <<received, closed>>
           ELSE need_header' = 1 /\ Deliver(data)

\* A round that completes the header of a frame with a payload: the payload
\* sink is prepared and the header sink reset.
RoundNewFrame ==
    LET h    == Least(FRAME_HEADER_SIZE - Len(header), Len(msg))
        full == header \o Take(msg, h)
    IN  /\ looping = 1 /\ closed = 0 /\ need_header = 1 /\ msg # <<>>
        /\ Len(full) = FRAME_HEADER_SIZE /\ FrameSize(full) > 0
        /\ header' = <<>>
        /\ frame_size' = FrameSize(full)
        /\ ReadPayload(FrameSize(full), <<>>, Drop(msg, h))
        /\ UNCHANGED <<sizes, unsent, looping>>

\* A round that goes on with a payload.
RoundPayload ==
    /\ looping = 1 /\ closed = 0 /\ need_header = 0 /\ msg # <<>>
    /\ ReadPayload(frame_size, payload, msg)
    /\ UNCHANGED <<sizes, unsent, looping, header, frame_size>>

\* The loop ends with the packet.
RoundEnd ==
    /\ looping = 1 /\ msg = <<>>
    /\ looping' = 0
    /\ UNCHANGED <<sizes, unsent, msg, client>>

\* The loop goes on after clie_recv has closed the client: c->need_header is
\* read from freed memory, and what follows is undefined.
RoundAfterClose ==
    /\ looping = 1 /\ closed = 1 /\ msg # <<>>
    /\ looping' = 0 /\ msg' = <<>>
    /\ UNCHANGED <<sizes, unsent, client>>

-----------------------------------------------------------------------------
\* The payloads of the frames among the first k that are not empty, in order.
Payloads[k \in 0..MaxFrames] ==
    IF k = 0 THEN <<>>
    ELSE IF sizes[k] > 0 THEN Append(Payloads[k - 1], PayloadOf(k))
    ELSE Payloads[k - 1]

\* However the daemon cuts the client's bytes into packets, the service gets
\* the payloads of the frames whole, in order and none twice; if no frame was
\* empty, it gets all of them.
FramesReassembled ==
    LET sent == Payloads[Len(sizes)]
    IN  /\ Len(received) <= Len(sent)
        /\ received = Take(sent, Len(received))
        /\ (unsent = <<>> /\ looping = 0 /\ closed = 0
              /\ \A k \in 1..Len(sizes) : sizes[k] > 0) => received = sent

=============================================================================
