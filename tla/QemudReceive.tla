---------------------------- MODULE QemudReceive ----------------------------
(***************************************************************************)
(* The way of a client's frames into the emulator: the daemon (external)   *)
(* cuts what the client writes into packets, the serial line cuts the      *)
(* packets into pieces, qemud_serial_read puts the packets together        *)
(* (QemudSerial) and qemud_client_recv, called from it for each packet,    *)
(* the frames (QemudFraming).                                              *)
(***************************************************************************)
EXTENDS QemudFraming, SequencesExt

CONSTANTS
    HEADER_SIZE, MAX_SERIAL_PAYLOAD, MaxPackets,    \* see QemudSerial
    MaxLength       \* bound on the length of a packet, above MAX_SERIAL_PAYLOAD

VARIABLES
    daemon, packets, wire, needPacket, overflow, in_size, version,
    packetHeader, packet, arrived

Serial == INSTANCE QemudSerial WITH
    sizes <- packets, need_header <- needPacket,
    header <- packetHeader, payload <- packet, received <- arrived

serialVars == <<daemon, packets, wire, needPacket, overflow, in_size, version,
                packetHeader, packet, arrived>>
receiveVars == <<vars, serialVars>>

ReceiveInit == Init /\ Serial!Init

\* Bytes of the client that are in packets on the line.
OnTheWay ==
    FoldSeq(LAMBDA n, sum : sum + n, 0, packets)
      - FoldSeq(LAMBDA p, sum : sum + Len(p), 0, arrived)

-----------------------------------------------------------------------------
Write(n) == ClientWrite(n) /\ UNCHANGED serialVars

\* The daemon puts bytes of the client into a packet.
Packet(n) ==
    /\ OnTheWay + n <= Len(unsent)
    /\ Serial!DaemonSend(n)
    /\ UNCHANGED vars

\* qemud_multiplexer_serial_recv: the client gets the packet; a packet for a
\* client that was closed is ignored.
Dispatch(n) ==
    IF closed = 0 THEN qemud_client_recv(n)
    ELSE /\ unsent' = Drop(unsent, n)
         /\ UNCHANGED <<sizes, msg, looping, client>>

\* The pipe delivers n bytes.  qemud_client_recv runs to its end before the
\* next ones.
OnPipeRead(A) ==
    /\ looping = 0
    /\ A
    /\ IF Len(arrived') > Len(arrived) THEN Dispatch(Len(Last(arrived')))
       ELSE UNCHANGED vars

ReadHeader(n) == OnPipeRead(Serial!ReadHeader(n))
ReadPacket(n) == OnPipeRead(Serial!ReadPayload(n))
SkipOverflow(n) == OnPipeRead(Serial!SkipOverflow(n))

Loop ==
    /\ RoundHeader \/ RoundNewFrame \/ RoundPayload \/ RoundEnd \/ RoundAfterClose
    /\ UNCHANGED serialVars

\* The client and the daemon have nothing more to send.
Finished ==
    /\ Len(sizes) = MaxFrames /\ looping = 0
    /\ unsent = <<>> \/ Len(packets) = MaxPackets
    /\ UNCHANGED receiveVars

ReceiveNext ==
    \/ \E n \in Sizes : Write(n)
    \/ \E n \in 0..MaxLength : Packet(n)
    \/ \E n \in 1..HEADER_SIZE : ReadHeader(n)
    \/ \E n \in 1..MAX_SERIAL_PAYLOAD : ReadPacket(n)
    \/ \E n \in 1..MaxLength : SkipOverflow(n)
    \/ Loop
    \/ Finished

\* The pipe delivers (SerialLine's GuestBytesArrive) and a loop runs on.
ReceiveSpec ==
    /\ ReceiveInit /\ [][ReceiveNext]_receiveVars
    /\ WF_receiveVars(ReadHeader(1)) /\ WF_receiveVars(ReadPacket(1))
    /\ WF_receiveVars(SkipOverflow(1)) /\ WF_receiveVars(Loop)

-----------------------------------------------------------------------------
\* Whatever pieces the line delivers and whichever daemon sends, the packets
\* are handed to the multiplexer whole, in order and, once all bytes have been
\* read, all of them.
PacketsReassembled == Serial!Reassembled

\* What was sent is received: qemud_serial_can_read never stops asking while
\* bytes are under way, and the loop of qemud_client_recv comes to its end,
\* frames having a payload.
Drained == []<>(wire = <<>> /\ looping = 0)

\* "skip overflow bytes": a packet larger than MAX_SERIAL_PAYLOAD is passed
\* over and the packets after it still arrive.
HugePacketSkipped == Serial!HugePacketSkipped

=============================================================================
