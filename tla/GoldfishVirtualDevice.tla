----------------------- MODULE GoldfishVirtualDevice -----------------------
(***************************************************************************)
(* The virtual device (hw/goldfish_virtual_device.c): the guest hands over *)
(* a command buffer by writing its length to a register, and the device    *)
(* sends the buffer over a TCP connection to a renderer process on the     *)
(* host (external); a read of another register waits for the renderer's    *)
(* four-byte answer.  The device's calls block the emulator, so the guest  *)
(* does nothing between the steps of one access, but the renderer runs     *)
(* beside them: it may not be there yet, may die at any time and be        *)
(* restarted.  SIGPIPE is ignored, so a send without a peer just fails.    *)
(*                                                                         *)
(* The bytes of all commands are numbered through, so a command is its     *)
(* last byte's number.  The input buffers, which no code fills, are left   *)
(* out.                                                                    *)
(***************************************************************************)
EXTENDS Integers, Sequences, SequencesExt

CONSTANTS
    Lengths,        \* lengths of a command
    MaxCommands,    \* bound on the commands
    MaxDeaths       \* bound on the deaths of the renderer

ASSUME LengthsAssumption == Lengths \subseteq Nat \ {0}

Statuses == {"OUT1_EMPTY", "OUT2_EMPTY"}

VARIABLES
    connected,      \* params->connected: -1, or the result of connect() == -1
    socket,         \* what socketfd is: "none" (invalid), "new", "open",
                    \* "closing" (the peer is gone), "reset" (known to be gone)
    pc,             \* "guest", or the call the device is in
    buffer,         \* the output buffer being sent, 1 or 2
    sent,           \* bytes handed to send() so far
    ends,           \* the last bytes of the commands written so far
    int_status, int_enable,
    line,           \* the device's interrupt
    got,            \* bytes sent over the present connection
    lost,           \* bytes sent over earlier ones, or to a peer that is gone
    replies,        \* answers on their way to the device
    read,           \* answers the guest has got
    rendererUp, deaths

devVars == <<connected, socket, pc, buffer, sent, int_status, int_enable, line>>
guestVars == <<ends, read>>
rendererVars == <<rendererUp, deaths>>
wire == <<got, lost, replies>>
vars == <<devVars, guestVars, rendererVars, wire>>

\* goldfish_virtualDevice_init: a socket is created and not connected.
Init ==
    /\ connected = -1 /\ socket \in {"new", "none"}
    /\ pc = "guest" /\ buffer = 1 /\ sent = 0
    /\ int_status = {} /\ int_enable = {} /\ line = 0
    /\ ends = <<>> /\ read = <<>>
    /\ got = <<>> /\ lost = {} /\ replies = <<>>
    /\ rendererUp = FALSE /\ deaths = 0

Total == IF ends = <<>> THEN 0 ELSE Last(ends)

Level(status, enable) == IF status \cap enable # {} THEN 1 ELSE 0

-----------------------------------------------------------------------------
\* VIRTUALDEVICE_INITIALISE, by the guest's driver when it is loaded.
Initialise ==
    /\ pc = "guest" /\ int_enable = {}
    /\ int_enable' = Statuses
    /\ int_status' = Statuses
    /\ line' = Level(int_status', int_enable')
    /\ UNCHANGED <<connected, socket, pc, buffer, sent, guestVars,
                   rendererVars, wire>>

\* A read of VIRTUALDEVICE_INT_STATUS: the line goes down, the status stays.
ReadIntStatus ==
    /\ pc = "guest" /\ line = 1
    /\ line' = IF int_status \cap int_enable # {} THEN 0 ELSE line
    /\ UNCHANGED <<connected, socket, pc, buffer, sent, int_status, int_enable,
                   guestVars, rendererVars, wire>>

\* VIRTUALDEVICE_OUTPUT_BUFFER_b_AVAILABLE: the device copies the buffer and
\* begins to send it.  The guest waits for the answer to one command before
\* it writes the next.
WriteBuffer(b, n) ==
    /\ pc = "guest" /\ int_enable # {}
    /\ Len(ends) = Len(read) /\ Len(ends) < MaxCommands
    /\ ends' = Append(ends, Total + n)
    /\ buffer' = b
    /\ pc' = IF connected < 0 THEN "connect" ELSE "send"
    /\ UNCHANGED <<connected, socket, sent, int_status, int_enable, line, read,
                   rendererVars, wire>>

\* Mutant of AfterConnect: a failure is stored as the -1 connect() returns, and
\* a command that finds no connection is skipped.
AfterConnectDrops(failed) ==
    /\ connected' = IF failed THEN -1 ELSE 0
    /\ pc' = IF failed THEN "done" ELSE "send"

\* goldfish_virtualDevice_connectSocket after connect(): what is stored is the
\* result of the comparison with -1, and either value passes the test that
\* follows in goldfish_virtualDevice_writeSocket.
AfterConnect(failed) ==
    /\ connected' = IF failed THEN 1 ELSE 0
    /\ pc' = IF connected' >= 0 THEN "send" ELSE "done"

\* connect(): a new socket reaches a renderer that listens.
Connect ==
    /\ pc = "connect"
    /\ \/ /\ socket = "new" /\ rendererUp
          /\ socket' = "open"
          /\ AfterConnect(FALSE)
       \/ /\ ~(socket = "new" /\ rendererUp)
          /\ UNCHANGED socket
          /\ AfterConnect(TRUE)
    /\ UNCHANGED <<buffer, sent, int_status, int_enable, line, guestVars,
                   rendererVars, wire>>

\* Mutant of createSocket: no socket is created.
NoSocket == socket' = "none"

\* goldfish_virtualDevice_createSocket; socket() may fail.
createSocket == socket' \in {"new", "none"}

\* close() and goldfish_virtualDevice_createSocket after an error.
Reopen ==
    /\ connected' = -1
    /\ createSocket
    /\ got' = <<>> /\ replies' = <<>>
    /\ lost' = lost \cup ToSet(got)

\* Mutant of Advanced: the next send() begins where this one did.
NotAdvanced(k) == sent

\* "srcAddress += bytesWritten"
Advanced(k) == sent + k

\* One send() of goldfish_virtualDevice_writeSocket.  It takes any part of the
\* rest.  A peer that is gone shows only at the send() after the first.
Send ==
    /\ pc = "send" /\ sent < Total
    /\ \/ \E k \in 1..(Total - sent) :
            /\ sent' = Advanced(k)
            /\ \/ /\ socket = "open"
                  /\ got' = got \o [i \in 1..k |-> sent + i]
                  /\ UNCHANGED <<socket, lost>>
               \/ /\ socket = "closing"
                  /\ socket' = "reset"
                  /\ lost' = lost \cup (sent + 1)..(sent + k)
                  /\ UNCHANGED got
            /\ UNCHANGED <<connected, pc, replies>>
       \/ /\ socket \notin {"open", "closing"}
          /\ Reopen
          /\ pc' = "connect"
          /\ UNCHANGED sent
    /\ UNCHANGED <<buffer, int_status, int_enable, line, guestVars,
                   rendererVars>>

\* The end of the access: after buffer 2, and only it, the guest is told that
\* the buffer is empty.
WriteDone ==
    /\ pc \in {"send", "done"} /\ (pc = "send" => sent = Total)
    /\ pc' = "guest"
    /\ IF buffer = 2
       THEN /\ int_status' = int_status \cup {"OUT2_EMPTY"}
            /\ line' = Level(int_status', int_enable)
       ELSE UNCHANGED <<int_status, line>>
    /\ sent' = Total
    /\ UNCHANGED <<connected, socket, buffer, int_enable, guestVars,
                   rendererVars, wire>>

\* A read of VIRTUALDEVICE_HOST_COMMAND_REGION_WRITE_DONE.
StartRead ==
    /\ pc = "guest" /\ Len(read) < Len(ends)
    /\ pc' = "recv"
    /\ UNCHANGED <<connected, socket, buffer, sent, int_status, int_enable,
                   line, guestVars, rendererVars, wire>>

\* recv(): an answer, the end of the stream, or an error.  After the last two
\* the guest gets a value that was never set, 0 here; only the error makes
\* the device give up the socket.
Recv ==
    /\ pc = "recv"
    /\ pc' = "guest"
    /\ \/ /\ socket \in {"open", "closing", "reset"} /\ replies # <<>>
          /\ read' = Append(read, Head(replies))
          /\ replies' = Tail(replies)
          /\ UNCHANGED <<connected, socket, got, lost>>
       \/ /\ socket = "closing" /\ replies = <<>>
          /\ read' = Append(read, 0)
          /\ UNCHANGED <<connected, socket, got, lost, replies>>
       \/ /\ socket \notin {"open", "closing"}
          /\ read' = Append(read, 0)
          /\ Reopen
    /\ UNCHANGED <<buffer, sent, int_status, int_enable, line, ends,
                   rendererVars>>

-----------------------------------------------------------------------------
\* The bytes of the command whose last byte is c.
BytesOf(c) == {b \in 1..c : \A e \in ToSet(ends) : e < c => b > e}

\* Commands the renderer has received whole and not answered.
Unanswered ==
    {c \in ToSet(ends) : /\ BytesOf(c) \subseteq ToSet(got)
                         /\ c \notin ToSet(replies) \cup ToSet(read)}

Reply ==
    /\ rendererUp /\ socket = "open"
    /\ \E c \in Unanswered : replies' = Append(replies, c)
    /\ UNCHANGED <<devVars, guestVars, rendererVars, got, lost>>

RendererStarts ==
    /\ ~rendererUp
    /\ rendererUp' = TRUE
    /\ UNCHANGED <<devVars, guestVars, deaths, wire>>

\* The host closes a dead renderer's connection, or resets it if the renderer
\* has left bytes unread.
RendererDies ==
    /\ rendererUp /\ deaths < MaxDeaths
    /\ rendererUp' = FALSE
    /\ deaths' = deaths + 1
    /\ socket' \in IF socket = "open" THEN {"closing", "reset"} ELSE {socket}
    /\ UNCHANGED <<connected, pc, buffer, sent, int_status, int_enable, line,
                   guestVars, wire>>

Device == Connect \/ Send \/ WriteDone \/ Recv

Guest ==
    \/ Initialise
    \/ ReadIntStatus
    \/ \E b \in {1, 2}, n \in Lengths : WriteBuffer(b, n)
    \/ StartRead

Next == Guest \/ Device \/ Reply \/ RendererStarts \/ RendererDies

\* The emulator's thread keeps running, a renderer that is gone is started
\* again and answers, and socket(), called after close() has freed a
\* descriptor, does not fail for ever.
Spec ==
    /\ Init /\ [][Next]_vars
    /\ WF_vars(Device) /\ WF_vars(Guest) /\ WF_vars(Reply)
    /\ WF_vars(RendererStarts)
    /\ SF_vars(Send /\ socket' = "new")

-----------------------------------------------------------------------------
\* What one renderer receives is an uninterrupted piece of the guest's stream,
\* and no byte is sent to a second renderer: over partial sends, errors and
\* reconnections goldfish_virtualDevice_writeSocket keeps its place.
StreamInOrder ==
    /\ \A i \in 1..Len(got) : got[i] = got[1] + i - 1
    /\ \A i \in 1..Len(got) : got[i] \notin lost

\* A write to the buffer registers comes back however often the renderer dies
\* in the middle, once there is one again.  (While there is none the loop of
\* goldfish_virtualDevice_writeSocket tries again and again, and the emulator
\* with it.)
WriteReturns == pc \in {"connect", "send"} ~> pc = "guest"

\* As long as no renderer dies every command is answered with its own answer,
\* also when the guest writes it before the renderer has been started.
CommandsAnswered ==
    [](deaths = 0) =>
        \A n \in 1..MaxCommands :
            Len(ends) >= n ~> (Len(read) >= n /\ read[n] = ends[n])

=============================================================================
