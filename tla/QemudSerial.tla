---------------------------- MODULE QemudSerial ----------------------------
(***************************************************************************)
(* The receiving side of the qemud serial link (QemudSink and QemudSerial  *)
(* in android/hw-qemud.c).  The guest's qemud daemon (external) sends      *)
(* packets: a header of fixed size with channel and length, then the       *)
(* payload.  The charpipe hands the bytes over in pieces of any size up to *)
(* what qemud_serial_can_read allows (LineInOrder of SerialLine), and        *)
(* qemud_serial_read puts the packets together again.                      *)
(*                                                                         *)
(* A byte is <<k, i>>, the i-th byte of the k-th packet.  Headers are not  *)
(* encoded: a header decodes to the length of its packet if it is the      *)
(* header of a packet, read with the layout its daemon uses, and to a bad  *)
(* length otherwise.                                                       *)
(***************************************************************************)
EXTENDS Integers, Sequences

CONSTANTS
    HEADER_SIZE,
    MAX_SERIAL_PAYLOAD,
    MaxPackets      \* bound on the packets sent

VARIABLES
    daemon,         \* "normal" or "legacy"
    sizes,          \* sizes[k]: payload size of the k-th packet sent
    wire,           \* bytes sent and not yet read
    need_header, overflow, in_size,
    version,        \* s->version
    header,         \* bytes in the header sink
    payload,        \* bytes in the payload sink
    received        \* payloads handed to recv_func

parser == <<need_header, overflow, in_size, version, header, payload, received>>
vars == <<daemon, sizes, wire, parser>>

Least(m, n) == IF m <= n THEN m ELSE n
Take(s, n) == SubSeq(s, 1, n)
Drop(s, n) == SubSeq(s, n + 1, Len(s))

\* The bytes of packet k, whose payload has n bytes, from the i-th on.
Bytes(k, i, n) == [j \in 1..HEADER_SIZE + n - i + 1 |-> <<k, i + j - 1>>]

\* qemud_serial_init
Init ==
    /\ daemon \in {"normal", "legacy"}
    /\ sizes = <<>>
    /\ wire = <<>>
    /\ need_header = 1 /\ overflow = 0 /\ in_size = 0
    /\ version = "unknown"
    /\ header = <<>> /\ payload = <<>>
    /\ received = <<>>

-----------------------------------------------------------------------------
\* The daemon sends a packet (external).
DaemonSend(n) ==
    /\ Len(sizes) < MaxPackets
    /\ sizes' = Append(sizes, n)
    /\ wire' = wire \o Bytes(Len(sizes) + 1, 1, n)
    /\ UNCHANGED <<daemon, parser>>

\* The version after a first header: a legacy daemon answers the probe sent by
\* qemud_serial_send_legacy_probe with a packet whose header no normal daemon
\* sends.
Detected(first) ==
    IF version # "unknown" THEN version
    ELSE IF daemon = "legacy" /\ first[1] = 1 THEN "legacy" ELSE "normal"

\* hex2int of the length in a header, as the layout of version v has it.
InSize(h, v) ==
    IF v = daemon /\ h = Take(Bytes(h[1][1], 1, 0), HEADER_SIZE)
    THEN sizes[h[1][1]] ELSE -1

\* Mutant of qemud_serial_can_read: the space of the payload sink is not
\* looked at while the sink is still empty.
CanReadStarved ==
    IF overflow > 0 THEN overflow
    ELSE IF need_header = 1 THEN HEADER_SIZE - Len(header)
    ELSE Len(payload)

\* qemud_serial_can_read
qemud_serial_can_read ==
    IF overflow > 0 THEN overflow
    ELSE IF need_header = 1 THEN HEADER_SIZE - Len(header)
    ELSE in_size - Len(payload)

\* qemud_serial_read while s->overflow > 0: the bytes are passed over.
SkipOverflow(n) ==
    /\ overflow > 0
    /\ n <= Least(Len(wire), qemud_serial_can_read)
    /\ wire' = Drop(wire, n)
    /\ UNCHANGED <<daemon, sizes, parser>>

\* qemud_serial_read while a header is needed.  When it is complete, a packet
\* without payload is dropped, a huge one sets overflow, and for any other the
\* payload sink is prepared.
ReadHeader(n) ==
    LET filled == header \o Take(wire, n)
        ver    == Detected(filled[1])
        size   == InSize(filled, ver)
    IN  /\ overflow = 0 /\ need_header = 1
        /\ n <= Least(Len(wire), qemud_serial_can_read)
        /\ wire' = Drop(wire, n)
        /\ IF Len(filled) < HEADER_SIZE
           THEN /\ header' = filled
                /\ UNCHANGED <<need_header, overflow, in_size, version, payload>>
           ELSE /\ header' = <<>>
                /\ version' = ver
                /\ in_size' = size
                /\ \/ /\ size <= 0
                      /\ UNCHANGED <<need_header, overflow, payload>>
                   \/ /\ size > MAX_SERIAL_PAYLOAD
                      /\ overflow' = size
                      /\ UNCHANGED <<need_header, payload>>
                   \/ /\ size \in 1..MAX_SERIAL_PAYLOAD
                      /\ need_header' = 0
                      /\ payload' = <<>>
                      /\ UNCHANGED overflow
        /\ UNCHANGED <<daemon, sizes, received>>

\* Mutant of Complete: any piece is taken for the whole payload.
Started(data) == Len(data) > 0

\* The payload sink is full: qemud_sink_needed is 0.
Complete(data) == Len(data) >= in_size

\* qemud_serial_read while the payload is read; a complete one goes to
\* recv_func.
ReadPayload(n) ==
    /\ overflow = 0 /\ need_header = 0
    /\ n <= Least(Len(wire), qemud_serial_can_read)
    /\ wire' = Drop(wire, n)
    /\ payload' = payload \o Take(wire, n)
    /\ IF Complete(payload')
       THEN need_header' = 1 /\ received' = Append(received, payload')
       ELSE UNCHANGED <<need_header, received>>
    /\ UNCHANGED <<daemon, sizes, overflow, in_size, version, header>>

-----------------------------------------------------------------------------
\* The packets that carry a payload the emulator accepts.
Legal(k) == sizes[k] \in 1..MAX_SERIAL_PAYLOAD

\* The payloads of the legal packets among the first k, in order.
Payloads[k \in 0..MaxPackets] ==
    IF k = 0 THEN <<>>
    ELSE IF Legal(k)
    THEN Append(Payloads[k - 1], Bytes(k, HEADER_SIZE + 1, sizes[k]))
    ELSE Payloads[k - 1]

\* Whatever pieces the bytes come in, whichever daemon sends them, the
\* receiver is given the payloads of the packets sent, whole and in order, and
\* when everything has been read none is missing (unless one was too large:
\* see HugePacketSkipped).
Reassembled ==
    LET sent == Payloads[Len(sizes)]
    IN  /\ Len(received) <= Len(sent)
        /\ received = Take(sent, Len(received))
        /\ wire = <<>> /\ overflow = 0 => received = sent

\* All legal packets have arrived, whatever came between them.
HugePacketSkipped == wire = <<>> => received = Payloads[Len(sizes)]

=============================================================================
