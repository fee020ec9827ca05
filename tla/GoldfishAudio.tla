--------------------------- MODULE GoldfishAudio ---------------------------
(***************************************************************************)
(* The goldfish audio device (hw/goldfish_audio.c).  The guest's driver    *)
(* (external) hands over sound in two output buffers in turn and asks for  *)
(* recordings into one input buffer; the host's audio layer (external)     *)
(* calls back when it can take or has sound.  The driver writes from one   *)
(* thread, reads from another and gets the interrupt between any two of    *)
(* their steps.                                                            *)
(*                                                                         *)
(* Sound is counted in frames, which are numbered in the order they are    *)
(* made.  The audio layer takes and gives whole frames and as many as it   *)
(* has announced; a buffer whose length is no multiple of a frame is not   *)
(* modelled.                                                               *)
(***************************************************************************)
EXTENDS Integers, Sequences

CONSTANTS
    BufferSize,     \* bound on the frames in one buffer of the driver
    MaxFrames       \* bound on the frames played, and on those recorded

ASSUME AudioAssumption == BufferSize \in Nat

Out == {1, 2}       \* AUDIO_INT_WRITE_BUFFER_1_EMPTY and _2_EMPTY
Full == 3           \* AUDIO_INT_READ_BUFFER_FULL

VARIABLES
    int_status, int_enable, line,
    current_buffer,
    out,            \* out[b]: the frames in out_buff<b> from offset on
    made,           \* number of frames handed over so far
    played,         \* number of those played, or dropped when closing
    length, offset, \* of in_buff
    data,           \* in_buff->data
    memory,         \* the guest's memory at in_buff->address
    heard,          \* number of frames recorded so far
    status,         \* driver: the flags it knows of
    reading         \* driver: "no", "waiting" or "done"

outVars == <<current_buffer, out, made, played>>
inVars == <<length, offset, data, memory, heard>>
vars == <<int_status, int_enable, line, outVars, inVars, status, reading>>

Least(m, n) == IF m <= n THEN m ELSE n
Drop(s, n) == SubSeq(s, n + 1, Len(s))
Level(s, enable) == IF s \cap enable # {} THEN 1 ELSE 0
Silence == [i \in 1..BufferSize |-> 0]

\* goldfish_audio_init
Init ==
    /\ int_status = {} /\ int_enable = {} /\ line = 0
    /\ current_buffer = 0
    /\ out = [b \in Out |-> <<>>]
    /\ made = 0 /\ played = 0
    /\ length = 0 /\ offset = 0
    /\ data = Silence /\ memory = Silence /\ heard = 0
    /\ status = {} /\ reading = "no"

-----------------------------------------------------------------------------
(* The guest's accesses.                                                   *)

\* enable_audio: whatever is in the buffers is dropped.
enable_audio ==
    /\ out' = [b \in Out |-> <<>>]
    /\ length' = 0 /\ offset' = 0
    /\ current_buffer' = 0

\* A write to AUDIO_INT_ENABLE when the device is opened or closed.
IntEnable(mask) ==
    /\ mask # int_enable
    /\ enable_audio
    /\ int_enable' = mask
    /\ int_status' = Out
    /\ line' = Level(Out, mask)
    /\ played' = made
    /\ status' = Out \cap mask /\ reading' = "no"
    /\ UNCHANGED <<made, data, memory, heard>>

\* A read of AUDIO_INT_STATUS by the interrupt handler: the line goes down,
\* the flags stay.
ReadIntStatus ==
    LET pending == int_status \cap int_enable
    IN  /\ line = 1
        /\ line' = IF pending # {} THEN 0 ELSE line
        /\ status' = IF pending # {} THEN pending ELSE status
        /\ UNCHANGED <<int_status, int_enable, outVars, inVars, reading>>

\* The buffer the driver fills next.
NextBuffer == IF 1 \in status THEN 1 ELSE 2

\* Mutant of FirstToPlay: the buffer is not made the current one.
FirstToPlayKept == current_buffer

\* current_buffer once a buffer has been handed over.
FirstToPlay == IF current_buffer = 0 THEN NextBuffer ELSE current_buffer

\* A write to AUDIO_WRITE_BUFFER_1 or _2 of a buffer with n frames.
WriteBuffer(n) ==
    /\ status \cap Out # {} /\ int_enable # {}
    /\ made + n <= MaxFrames
    /\ current_buffer' = FirstToPlay
    /\ out' = [out EXCEPT ![NextBuffer] = [i \in 1..n |-> made + i]]
    /\ made' = made + n
    /\ int_status' = int_status \ {NextBuffer}
    /\ status' = status \ {NextBuffer}
    /\ UNCHANGED <<int_enable, line, played, inVars, reading>>

\* start_read, with goldfish_audio_buff_set_length
start_read(n) == length' = n /\ offset' = 0

\* A write of n to AUDIO_START_READ; the driver forgets an earlier FULL.
StartRead(n) ==
    /\ reading # "waiting" /\ int_enable # {}
    /\ start_read(n)
    /\ int_status' = int_status \ {Full}
    /\ line' = Level(int_status', int_enable)
    /\ status' = status \ {Full}
    /\ reading' = "waiting"
    /\ UNCHANGED <<int_enable, outVars, data, memory, heard>>

\* b->data with the n frames from heard on stored at the offset.
Received(n) ==
    [i \in 1..BufferSize |->
        IF i \in offset + 1..offset + n THEN heard + i - offset ELSE data[i]]

\* Mutant of ReadAvailable: what the callbacks stored is taken to be right.
ReadAvailableOnly ==
    /\ reading = "waiting" /\ Full \in status
    /\ reading' = "done"
    /\ UNCHANGED <<int_status, int_enable, line, outVars, inVars, status>>

\* A read of AUDIO_READ_BUFFER_AVAILABLE once the buffer is full, with
\* goldfish_audio_buff_write.
ReadAvailable ==
    /\ reading = "waiting" /\ Full \in status
    /\ reading' = "done"
    /\ memory' = [i \in 1..BufferSize |-> IF i <= length THEN data[i] ELSE memory[i]]
    /\ UNCHANGED <<int_status, int_enable, line, outVars, length, offset, data,
                   heard, status>>

-----------------------------------------------------------------------------
(* The audio layer's callbacks, which come while a voice is active.        *)

Other(b) == 3 - b

\* The end of both callbacks.
Announce(new) ==
    IF new # {} /\ new # int_status
    THEN /\ int_status' = int_status \cup new
         /\ line' = Level(int_status', int_enable)
    ELSE UNCHANGED <<int_status, line>>

\* Mutant of Playing: the first buffer always comes first.
PlayingFirst == IF out[1] # <<>> THEN 1 ELSE 2

\* The buffer the callback begins with.
Playing == current_buffer

\* Mutant of Emptied: a buffer that runs empty while the other one still plays
\* is not announced.
EmptiedLast(rest) ==
    {c \in Out : out[c] # <<>> /\ rest[c] = <<>> /\ rest[Other(c)] = <<>>}

\* The buffers that ran empty in the callback.
Emptied(rest) == {c \in Out : out[c] # <<>> /\ rest[c] = <<>>}

\* goldfish_audio_callback with room for so many frames: the current buffer is
\* sent, and the other one once it is empty.  Nothing happens without one.
goldfish_audio_callback(free) ==
    LET b    == Playing
        sent == Least(free, Len(out[1]) + Len(out[2]))
        rest == [out EXCEPT ![b] = Drop(@, Least(sent, Len(@))),
                            ![Other(b)] = IF sent > Len(out[b])
                                          THEN Drop(@, sent - Len(out[b])) ELSE @]
    IN  /\ int_enable \cap Out # {} /\ current_buffer # 0
        /\ out' = rest
        /\ played' = played + sent
        /\ current_buffer' = IF rest[b] # <<>> THEN b
                             ELSE IF rest[Other(b)] # <<>> THEN Other(b) ELSE 0
        /\ Announce(Emptied(rest))
        /\ UNCHANGED <<int_enable, made, inVars, status, reading>>

\* goldfish_audio_in_callback with so many frames available.  The new frames
\* go to their place in data; into the guest's memory, at that place, go the
\* first ones of data (goldfish_audio_buff_recv).
goldfish_audio_in_callback(avail) ==
    LET n == Least(avail, length - offset)
    IN  /\ Full \in int_enable /\ length - offset # 0
        /\ heard + n <= MaxFrames
        /\ data' = Received(n)
        /\ memory' = [i \in 1..BufferSize |->
                        IF i \in offset + 1..offset + n THEN data'[i - offset]
                        ELSE memory[i]]
        /\ offset' = offset + n
        /\ heard' = heard + n
        /\ Announce(IF offset' = length THEN {Full} ELSE {})
        /\ UNCHANGED <<int_enable, outVars, length, status, reading>>

-----------------------------------------------------------------------------
Next ==
    \/ \E mask \in {{}, Out \cup {Full}} : IntEnable(mask)
    \/ ReadIntStatus
    \/ \E n \in 1..BufferSize :
          \/ WriteBuffer(n)
          \/ StartRead(n)
          \/ goldfish_audio_callback(n)
          \/ goldfish_audio_in_callback(n)
    \/ ReadAvailable

\* The host keeps playing what it is given.
Spec == Init /\ [][Next]_vars /\ WF_vars(goldfish_audio_callback(1))

-----------------------------------------------------------------------------
\* Sound is played in the order it was made, though it sits in two buffers:
\* the current buffer, then the other one, hold the frames made and not yet
\* played, none lost or repeated when goldfish_audio_callback goes from one
\* to the other.
PlaysInOrder ==
    LET b == IF current_buffer = 2 THEN 2 ELSE 1
    IN  out[b] \o out[Other(b)] = [i \in 1..made - played |-> played + i]

\* No wake-up is lost: what the driver has yet to learn, an empty buffer or a
\* recording that is complete, holds the interrupt high.  Reading the status
\* lowers the line for all flags at once and clears none, and the callbacks
\* raise it only when they see a difference.
NewsAnnounced ==
    int_enable # {} =>
        /\ \A b \in Out : out[b] = <<>> => b \in status \/ line = 1
        /\ reading = "waiting" /\ offset = length => Full \in status \/ line = 1

\* A recording the driver has been told is complete is in its memory whole and
\* in order: what goldfish_audio_buff_recv puts there for a recording that
\* comes in several pieces is corrected before it is read.
RecordExact ==
    reading = "done" =>
        \A i \in 1..length : memory[i] = heard - length + i

\* The device never sticks: again and again all that was handed over has been
\* played (or dropped by closing).
AllPlayed == []<>(played = made)

=============================================================================
