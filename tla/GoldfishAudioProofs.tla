------------------------ MODULE GoldfishAudioProofs ------------------------
(***************************************************************************)
(* Proofs about the goldfish audio device (GoldfishAudio) for every buffer *)
(* size.  Three facts carry them: the current buffer holds the frames that *)
(* come next and the other one those behind; int_status holds exactly the  *)
(* news there are; and the driver knows all of it or the line is high.     *)
(***************************************************************************)
EXTENDS GoldfishAudio, SequenceTheorems, TLAPS

\* The k frames that follow frame f, in order.
Frames(f, k) == [i \in 1..k |-> f + i]

\* The buffer that is, or would be, played first.
Front == IF current_buffer = 2 THEN 2 ELSE 1

\* The front buffer holds k frames and the other one the m that follow them.
Held(k, m) ==
    /\ made = played + k + m
    /\ out = [b \in Out |-> IF b = Front THEN Frames(played, k)
                            ELSE Frames(played + k, m)]
    /\ current_buffer = 0 <=> k = 0
    /\ k = 0 => m = 0

PlayInv ==
    /\ made \in Nat /\ played \in Nat
    /\ current_buffer \in 0..2
    /\ \E k, m \in Nat : Held(k, m)

\* int_status says what there is to know, and status what the driver knows.
NewsInv ==
    /\ int_enable \in {{}, Out \cup {Full}}
    /\ int_status \in SUBSET (Out \cup {Full})
    /\ int_enable = {} => status = {} /\ current_buffer = 0 /\ length = 0 /\ reading = "no"
    /\ int_enable # {} =>
          /\ \A b \in Out : b \in int_status <=> out[b] = <<>>
          /\ status \subseteq int_status
          /\ line = 1 \/ int_status \subseteq status

\* in_buff holds the last frames heard; Full says that it is complete.
RecordInv ==
    /\ length \in 0..BufferSize /\ offset \in 0..length /\ heard \in Nat
    /\ \A i \in 1..offset : data[i] = heard - offset + i
    /\ Full \in int_status => offset = length
    /\ reading = "waiting" /\ offset = length => Full \in int_status
    /\ reading = "done" => offset = length
    /\ reading \in {"no", "waiting", "done"}

\* The inductive invariant.
IInv == PlayInv /\ NewsInv /\ RecordInv /\ RecordExact

-----------------------------------------------------------------------------
\* Frames(f, k) is a sequence of k frames.
LEMMA FramesSeq ==
    ASSUME NEW f \in Nat, NEW k \in Nat
    PROVE  /\ Frames(f, k) \in Seq(Nat) /\ Len(Frames(f, k)) = k
           /\ Frames(f, k) = <<>> <=> k = 0
           /\ \A i \in 1..k : Frames(f, k)[i] = f + i
<1>1. Frames(f, k) \in [1..k -> Nat]
  BY DEF Frames
<1>2. Frames(f, k) \in Seq(Nat) /\ Len(Frames(f, k)) = k
  BY <1>1 DEF Frames
<1>3. \A i \in 1..k : Frames(f, k)[i] = f + i
  BY DEF Frames
<1>4. Frames(f, k) = <<>> <=> k = 0
  BY <1>2, EmptySeq
<1> QED
  BY <1>2, <1>3, <1>4

\* Without its first n frames it is a shorter run that begins later.
LEMMA DropFrames ==
    ASSUME NEW f \in Nat, NEW k \in Nat, NEW n \in 0..k
    PROVE  Drop(Frames(f, k), n) = Frames(f + n, k - n)
<1> DEFINE s == Frames(f, k)
           t == Frames(f + n, k - n)
           d == SubSeq(s, n + 1, k)
<1>1. s \in Seq(Nat) /\ Len(s) = k /\ \A i \in 1..k : s[i] = f + i
  BY FramesSeq
<1>2. f + n \in Nat /\ k - n \in Nat
  OBVIOUS
<1>3. /\ t \in Seq(Nat) /\ Len(t) = k - n
      /\ \A i \in 1..k - n : t[i] = (f + n) + i
  BY <1>2, FramesSeq
<1> HIDE DEF s, t
<1>4. d \in Seq(Nat) /\ Len(d) = k - n /\ \A i \in 1..k - n : d[i] = s[n + i]
  BY <1>1, SMTT(40)
<1> HIDE DEF d
<1>5. \A i \in 1..k - n : d[i] = t[i]
  <2> TAKE i \in 1..k - n
  <2>1. n + i \in 1..k
    OBVIOUS
  <2>2. d[i] = f + (n + i)
    BY <2>1, <1>1, <1>4
  <2> QED
    BY <2>2, <1>3
<1>6. d = t
  BY <1>3, <1>4, <1>5, SeqEqual
<1> QED
  BY <1>1, <1>6 DEF d, s, t, Drop

\* Two runs, one behind the other, make one.
LEMMA ConcatFrames ==
    ASSUME NEW f \in Nat, NEW k \in Nat, NEW m \in Nat
    PROVE  Frames(f, k) \o Frames(f + k, m) = Frames(f, k + m)
<1> DEFINE s == Frames(f, k)
           t == Frames(f + k, m)
           u == Frames(f, k + m)
           c == s \o t
<1>1. s \in Seq(Nat) /\ Len(s) = k /\ \A i \in 1..k : s[i] = f + i
  BY FramesSeq
<1>2. f + k \in Nat /\ k + m \in Nat
  OBVIOUS
<1>3. t \in Seq(Nat) /\ Len(t) = m /\ \A i \in 1..m : t[i] = (f + k) + i
  BY <1>2, FramesSeq
<1>4. u \in Seq(Nat) /\ Len(u) = k + m /\ \A i \in 1..k + m : u[i] = f + i
  BY <1>2, FramesSeq
<1> HIDE DEF s, t, u
<1>5. /\ c \in Seq(Nat) /\ Len(c) = k + m
      /\ \A i \in 1..k + m : c[i] = IF i <= k THEN s[i] ELSE t[i - k]
  BY <1>1, <1>3, ConcatProperties
<1> HIDE DEF c
<1>6. \A i \in 1..k + m : c[i] = u[i]
  <2> TAKE i \in 1..k + m
  <2>1. CASE i <= k
    BY <2>1, <1>1, <1>4, <1>5
  <2>2. CASE ~(i <= k)
    <3>1. i - k \in 1..m
      BY <2>2
    <3>2. t[i - k] = (f + k) + (i - k)
      BY <3>1, <1>3
    <3>3. c[i] = t[i - k]
      BY <2>2, <1>5
    <3>4. u[i] = f + i
      BY <1>4
    <3> QED
      BY <3>2, <3>3, <3>4
  <2> QED
    BY <2>1, <2>2
<1>7. c = u
  BY <1>4, <1>5, <1>6, SeqEqual
<1> QED
  BY <1>7 DEF c, s, t, u

-----------------------------------------------------------------------------
\* Played in order, by the contents of the two buffers.
LEMMA HeldInOrder == PlayInv => PlaysInOrder
<1> SUFFICES ASSUME PlayInv PROVE PlaysInOrder
  OBVIOUS
<1>1. PICK k, m \in Nat : Held(k, m)
  BY DEF PlayInv
<1>2. made \in Nat /\ played \in Nat /\ made - played = k + m
  BY <1>1 DEF PlayInv, Held
<1>3. Front \in Out /\ Other(Front) \in Out /\ Other(Front) # Front
  BY DEF Front, Out, Other
<1>4. out[Front] = Frames(played, k) /\ out[Other(Front)] = Frames(played + k, m)
  BY <1>1, <1>3 DEF Held
<1>5. out[Front] \o out[Other(Front)] = Frames(played, made - played)
  <2>1. Frames(played, k) \o Frames(played + k, m) = Frames(played, k + m)
    BY <1>2, ConcatFrames
  <2> QED
    BY <1>2, <1>4, <2>1
<1>6. Frames(played, made - played) = [i \in 1..made - played |-> played + i]
  BY DEF Frames
<1> QED
  BY <1>5, <1>6, Zenon DEF PlaysInOrder, Front

\* goldfish_audio_init establishes the invariant.
LEMMA InitIInv == Init => IInv
<1> SUFFICES ASSUME Init PROVE IInv
  OBVIOUS
<1> USE AudioAssumption
<1>1. Held(0, 0)
  <2>1. Frames(0, 0) = <<>> /\ Frames(0 + 0, 0) = <<>>
    BY FramesSeq
  <2> QED
    BY <2>1 DEF Held, Init, Front, Out
<1>2. PlayInv
  BY <1>1 DEF PlayInv, Init
<1>3. NewsInv
  BY DEF NewsInv, Init, Out, Full
<1>4. RecordInv /\ RecordExact
  BY DEF RecordInv, RecordExact, Init, Full
<1> QED
  BY <1>2, <1>3, <1>4 DEF IInv

\* Steps that leave the buffers to be played alone.
LEMMA PlaySame == PlayInv /\ UNCHANGED outVars => PlayInv'
<1> SUFFICES ASSUME PlayInv, UNCHANGED outVars PROVE PlayInv'
  OBVIOUS
<1>1. PICK k, m \in Nat : Held(k, m)
  BY DEF PlayInv
<1>2. Held(k, m)'
  BY <1>1 DEF Held, outVars, Front
<1> QED
  BY <1>2 DEF PlayInv, outVars

\* Steps that leave in_buff alone and keep the completion flag.
LEMMA RecordSame ==
    ASSUME RecordInv, RecordExact, UNCHANGED <<inVars, reading>>,
           Full \in int_status' <=> Full \in int_status
    PROVE  RecordInv' /\ RecordExact'
  BY DEF RecordInv, RecordExact, inVars

\* enable_audio drops what is in the buffers and makes all news old.
LEMMA IntEnableIInv ==
    ASSUME NEW mask \in {{}, Out \cup {Full}}, IInv, IntEnable(mask)
    PROVE  IInv'
<1> USE AudioAssumption
<1>1. made \in Nat /\ heard \in Nat
  BY DEF IInv, PlayInv, RecordInv
<1>2. /\ out' = [b \in Out |-> <<>>] /\ current_buffer' = 0 /\ played' = made
      /\ made' = made /\ length' = 0 /\ offset' = 0 /\ heard' = heard
      /\ int_enable' = mask /\ int_status' = Out /\ status' = Out \cap mask
      /\ line' = Level(Out, mask) /\ reading' = "no"
  BY DEF IntEnable, enable_audio
<1>3. Held(0, 0)'
  <2>1. Frames(made, 0) = <<>> /\ Frames(made + 0, 0) = <<>>
    BY <1>1, FramesSeq
  <2>2. made = made + 0 + 0
    BY <1>1
  <2> QED
    BY <1>2, <2>1, <2>2 DEF Held, Out, Front
<1>4. PlayInv'
  BY <1>1, <1>2, <1>3 DEF PlayInv
<1>5. NewsInv'
  BY <1>2 DEF NewsInv, Out, Full
<1>6. RecordInv' /\ RecordExact'
  BY <1>1, <1>2 DEF RecordInv, RecordExact, Full, Out
<1> QED
  BY <1>4, <1>5, <1>6 DEF IInv

\* Reading the status tells the driver all there is.
LEMMA ReadIntStatusIInv == IInv /\ ReadIntStatus => IInv'
<1> SUFFICES ASSUME IInv, ReadIntStatus PROVE IInv'
  OBVIOUS
<1>1. PlayInv'
  BY PlaySame DEF IInv, ReadIntStatus
<1>2. RecordInv' /\ RecordExact'
  BY RecordSame DEF IInv, ReadIntStatus
<1>3. NewsInv'
  BY DEF NewsInv, IInv, ReadIntStatus, outVars, inVars
<1> QED
  BY <1>1, <1>2, <1>3 DEF IInv

\* start_read begins a recording that is not complete.
LEMMA StartReadIInv ==
    ASSUME NEW n \in 1..BufferSize, IInv, StartRead(n) PROVE IInv'
<1> USE AudioAssumption
<1>1. PlayInv'
  BY PlaySame DEF IInv, StartRead
<1>2. RecordInv' /\ RecordExact'
  BY DEF IInv, RecordInv, RecordExact, StartRead, start_read
<1>3. NewsInv'
  BY DEF NewsInv, IInv, StartRead, start_read, outVars, Level, Full, Out
<1> QED
  BY <1>1, <1>2, <1>3 DEF IInv

\* goldfish_audio_buff_write copies a complete recording.
LEMMA ReadAvailableIInv == IInv /\ ReadAvailable => IInv'
<1> SUFFICES ASSUME IInv, ReadAvailable PROVE IInv'
  OBVIOUS
<1> USE AudioAssumption
<1>1. PlayInv'
  BY PlaySame DEF IInv, ReadAvailable
<1>2. int_enable # {} /\ Full \in int_status /\ offset = length
  BY DEF IInv, NewsInv, RecordInv, ReadAvailable
<1>3. RecordInv'
  BY <1>2 DEF IInv, RecordInv, ReadAvailable
<1>4. RecordExact'
  BY <1>2 DEF IInv, RecordInv, RecordExact, ReadAvailable
<1>5. NewsInv'
  BY <1>2 DEF NewsInv, IInv, ReadAvailable, outVars
<1> QED
  BY <1>1, <1>3, <1>4, <1>5 DEF IInv

\* A buffer handed over goes behind the frames that wait.
LEMMA WriteBufferIInv ==
    ASSUME NEW n \in 1..BufferSize, IInv, WriteBuffer(n) PROVE IInv'
<1> USE AudioAssumption
<1> DEFINE w == NextBuffer
<1>1. PICK k, m \in Nat : Held(k, m)
  BY DEF IInv, PlayInv
<1>2. /\ n \in Nat /\ n > 0 /\ made \in Nat /\ played \in Nat /\ made = played + k + m
      /\ current_buffer \in 0..2
  BY <1>1 DEF IInv, PlayInv, Held
<1>3. /\ w \in Out /\ w \in status /\ w \in int_status /\ out[w] = <<>>
      /\ int_enable # {} /\ status \subseteq int_status
  BY DEF IInv, NewsInv, NextBuffer, WriteBuffer, Out
<1>4. /\ current_buffer' = FirstToPlay
      /\ out' = [out EXCEPT ![w] = Frames(made, n)]
      /\ made' = made + n /\ played' = played
      /\ int_status' = int_status \ {w} /\ status' = status \ {w}
      /\ UNCHANGED <<int_enable, line, inVars, reading>>
  BY DEF WriteBuffer, Frames
<1>5. /\ Frames(played, k) = <<>> <=> k = 0
      /\ Frames(played + k, m) = <<>> <=> m = 0
      /\ Frames(made, n) # <<>>
  <2>1. played + k \in Nat
    BY <1>2
  <2>2. Frames(played, k) = <<>> <=> k = 0
    BY <1>2, FramesSeq
  <2>3. Frames(played + k, m) = <<>> <=> m = 0
    BY <2>1, FramesSeq
  <2>4. Frames(made, n) # <<>>
    BY <1>2, FramesSeq
  <2> QED
    BY <2>2, <2>3, <2>4
<1>6. out = [b \in Out |-> IF b = Front THEN Frames(played, k) ELSE Frames(played + k, m)]
  BY <1>1 DEF Held
<1>7. current_buffer = 0 <=> k = 0
  BY <1>1 DEF Held
<1> HIDE DEF w
<1>8. \E k2, m2 \in Nat : Held(k2, m2)'
  <2>1. CASE k = 0
    <3>1. m = 0 /\ made = played /\ current_buffer = 0
      BY <1>1, <1>2, <2>1 DEF Held
    <3>2. current_buffer' = w /\ Front' = w
      BY <1>3, <1>4, <3>1 DEF FirstToPlay, Front, Out, w
    <3>3. made' = played' + n + 0 /\ played' + n \in Nat
      BY <1>2, <1>4, <3>1
    <3>4. Frames(played + k, m) = <<>> /\ Frames(played, k) = <<>>
      BY <1>5, <2>1, <3>1
    <3>5. Frames(played' + n, 0) = <<>>
      BY <3>3, FramesSeq
    <3>6. out' = [b \in Out |-> IF b = w THEN Frames(made, n) ELSE <<>>]
      BY <1>3, <1>4, <1>6, <3>4
    <3>7. Held(n, 0)'
      <4>1. current_buffer' # 0 /\ n # 0
        BY <1>2, <1>3, <3>2 DEF Out
      <4>2. out' = [b \in Out |-> IF b = Front' THEN Frames(played', n)
                                  ELSE Frames(played' + n, 0)]
        BY <1>4, <3>1, <3>2, <3>5, <3>6
      <4> QED
        BY <3>3, <4>1, <4>2 DEF Held
    <3> QED
      BY <1>2, <3>7
  <2>2. CASE k # 0
    <3>1. current_buffer # 0 /\ current_buffer' = current_buffer /\ Front' = Front
      BY <1>4, <1>7, <2>2 DEF FirstToPlay, Front
    <3>2. w # Front /\ m = 0
      <4>1. Front \in Out
        BY DEF Front, Out
      <4> QED
        BY <1>3, <1>5, <1>6, <2>2, <4>1
    <3>3. out' = [b \in Out |-> IF b = Front THEN Frames(played, k) ELSE Frames(made, n)]
      <4>1. \A b \in Out : b # Front => b = w
        BY <1>3, <3>2 DEF Out, Front
      <4> QED
        BY <1>3, <1>4, <1>6, <3>2, <4>1
    <3>4. made = played + k /\ made' = played' + k + n
      BY <1>2, <1>4, <3>2
    <3>5. Held(k, n)'
      BY <1>4, <2>2, <3>1, <3>3, <3>4 DEF Held
    <3> QED
      BY <1>2, <3>5
  <2> QED
    BY <2>1, <2>2
<1>9. PlayInv'
  <2>1. current_buffer' \in 0..2
    BY <1>2, <1>3, <1>4 DEF FirstToPlay, Out, w
  <2> QED
    BY <1>2, <1>4, <1>8, <2>1 DEF PlayInv
<1>10. NewsInv'
  <2>1. \A b \in Out : out'[b] = IF b = w THEN Frames(made, n) ELSE out[b]
    BY <1>3, <1>4, <1>6
  <2>2. \A b \in Out : b \in int_status' <=> out'[b] = <<>>
    BY <1>3, <1>4, <1>5, <2>1 DEF IInv, NewsInv
  <2> QED
    BY <1>3, <1>4, <2>2 DEF IInv, NewsInv, inVars
<1>11. RecordInv' /\ RecordExact'
  <2>1. w # Full
    BY <1>3 DEF Out, Full
  <2> QED
    BY <1>4, <2>1, RecordSame DEF IInv
<1> QED
  BY <1>9, <1>10, <1>11 DEF IInv

\* The callback takes what comes next, from one buffer or from both.
LEMMA CallbackPlays ==
    ASSUME NEW free \in 1..BufferSize, IInv, goldfish_audio_callback(free)
    PROVE  PlayInv' /\ \A b \in Out : out[b] = <<>> => out'[b] = <<>>
<1> USE AudioAssumption
<1> DEFINE b == Front
           o == Other(Front)
           sent == Least(free, Len(out[1]) + Len(out[2]))
<1>1. PICK k, m \in Nat : Held(k, m)
  BY DEF IInv, PlayInv
<1>2. /\ free \in Nat /\ made \in Nat /\ played \in Nat /\ made = played + k + m
      /\ current_buffer \in 1..2 /\ k # 0
  BY <1>1 DEF IInv, PlayInv, Held, goldfish_audio_callback
<1>3. b = current_buffer /\ b \in Out /\ o \in Out /\ o # b /\ o # 0
  BY <1>2 DEF Out, Front, Other
<1>4. /\ DOMAIN out = Out
      /\ out[b] = Frames(played, k) /\ out[o] = Frames(played + k, m)
  BY <1>1, <1>3 DEF Held
<1>5. Len(out[b]) = k /\ Len(out[o]) = m
  <2>1. played + k \in Nat
    BY <1>2
  <2>2. Len(Frames(played, k)) = k /\ Len(Frames(played + k, m)) = m
    BY <1>2, <2>1, FramesSeq
  <2> QED
    BY <1>4, <2>2
<1>6. sent = Least(free, k + m)
  <2>1. (b = 1 /\ o = 2) \/ (b = 2 /\ o = 1)
    BY <1>3 DEF Out, Other
  <2>2. Len(out[1]) + Len(out[2]) = k + m
    <3> HIDE DEF b, o
    <3>1. CASE b = 1 /\ o = 2
      BY <1>5, <3>1
    <3>2. CASE b = 2 /\ o = 1
      <4>1. Len(out[1]) = m /\ Len(out[2]) = k
        BY <1>5, <3>2
      <4>2. m + k = k + m
        OBVIOUS
      <4> QED
        BY <4>1, <4>2
    <3> QED
      BY <2>1, <3>1, <3>2
  <2> QED
    BY <2>2
<1>7. PICK s \in Nat : s = sent /\ s <= k + m
  <2> HIDE DEF sent
  <2>1. sent = IF free <= k + m THEN free ELSE k + m
    BY <1>6 DEF Least
  <2>2. sent \in Nat /\ sent <= k + m
    BY <1>2, <2>1
  <2> QED
    BY <2>2
<1> DEFINE first == Least(s, k)
<1>8. /\ first \in 0..k
      /\ s <= k => first = s
      /\ s >= k => first = k
  <2>1. first = IF s <= k THEN s ELSE k
    BY DEF Least
  <2> QED
    BY <2>1
<1> DEFINE fr == Drop(out[b], first)
           ot == IF s > k THEN Drop(out[o], s - k) ELSE out[o]
<1>9. /\ out' = [out EXCEPT ![b] = fr, ![o] = ot]
      /\ played' = played + s /\ made' = made
      /\ current_buffer' = IF out'[b] # <<>> THEN b ELSE IF out'[o] # <<>> THEN o ELSE 0
  <2>1. Playing = b /\ Other(Playing) = o
    BY <1>3 DEF Playing
  <2> QED
    BY <1>5, <1>7, <2>1 DEF goldfish_audio_callback
<1>10. DOMAIN out' = Out /\ out'[b] = fr /\ out'[o] = ot
  BY <1>3, <1>4, <1>9
<1> HIDE DEF b, o, sent, first, fr, ot
<1>11. fr = Frames(played + first, k - first)
  BY <1>2, <1>4, <1>8, DropFrames DEF fr
<1>12. \A x \in Out : x = b \/ x = o
  BY <1>3 DEF Out
<1>13. \E k2, m2 \in Nat : Held(k2, m2)'
  <2>1. CASE s < k
    <3>1. first = s /\ ot = out[o] /\ k - s \in Nat /\ k - s # 0
      BY <1>7, <1>8, <2>1 DEF ot
    <3>2. fr = Frames(played', k - s) /\ fr # <<>>
      <4>1. played' \in Nat /\ played' = played + first
        BY <1>2, <1>9, <3>1
      <4>2. Frames(played', k - s) # <<>>
        BY <3>1, <4>1, FramesSeq
      <4> QED
        BY <1>11, <3>1, <4>1, <4>2
    <3>3. current_buffer' = b /\ Front' = b
      BY <1>2, <1>3, <1>9, <1>10, <3>2 DEF Front
    <3>4. played' + (k - s) = played + k
      BY <1>2, <1>7, <1>9
    <3>5. out' = [x \in Out |-> IF x = b THEN Frames(played', k - s)
                                ELSE Frames(played' + (k - s), m)]
      <4>1. out' = [x \in Out |-> out'[x]]
        BY <1>9, <1>10
      <4> QED
        BY <1>3, <1>4, <1>10, <1>12, <3>1, <3>2, <3>4, <4>1
    <3>6. made' = played' + (k - s) + m
      BY <1>2, <1>9, <3>4
    <3>7. current_buffer' # 0
      BY <1>2, <1>3, <3>3
    <3>8. Held(k - s, m)'
      BY <3>1, <3>3, <3>5, <3>6, <3>7 DEF Held
    <3> QED
      BY <3>1, <3>8
  <2>2. CASE s >= k
    <3>0. PICK r \in Nat : r = k + m - s
      BY <1>7
    <3>1. r \in Nat /\ first = k /\ k - first = 0 /\ s - k \in 0..m
      BY <1>2, <1>7, <1>8, <2>2
    <3>2. fr = <<>>
      <4>1. played + first \in Nat
        BY <1>2, <3>1
      <4> QED
        BY <1>11, <3>1, <4>1, FramesSeq
    <3>3. ot = Frames(played', r)
      <4>1. CASE s > k
        <5>1. ot = Frames((played + k) + (s - k), m - (s - k))
          <6>1. played + k \in Nat
            BY <1>2
          <6>2. Drop(Frames(played + k, m), s - k)
                   = Frames((played + k) + (s - k), m - (s - k))
            BY <3>1, <6>1, DropFrames
          <6> QED
            BY <1>4, <4>1, <6>2 DEF ot
        <5>2. (played + k) + (s - k) = played + s /\ m - (s - k) = r
          BY <1>2, <1>7, <3>0
        <5> QED
          BY <1>9, <5>1, <5>2
      <4>2. CASE ~(s > k)
        <5>1. s = k /\ r = m
          BY <1>2, <1>7, <2>2, <3>0, <4>2
        <5> QED
          BY <1>4, <1>9, <4>2, <5>1 DEF ot
      <4> QED
        BY <4>1, <4>2
    <3>4. played' \in Nat /\ made' = played' + r + 0
      BY <1>2, <1>7, <1>9, <3>0
    <3>5. (ot = <<>> <=> r = 0) /\ Frames(played' + r, 0) = <<>>
      <4>1. played' + r \in Nat
        <5>1. made' = played' + r
          BY <3>0, <3>4
        <5> QED
          BY <1>2, <1>9, <5>1
      <4>2. Frames(played', r) = <<>> <=> r = 0
        BY <3>1, <3>4, FramesSeq
      <4>3. Frames(played' + r, 0) = <<>>
        BY <4>1, FramesSeq
      <4> QED
        BY <3>3, <4>2, <4>3
    <3>6. out' = [x \in Out |-> IF x = o THEN ot ELSE fr]
      <4>1. out' = [x \in Out |-> out'[x]]
        BY <1>9, <1>10
      <4> QED
        BY <1>3, <1>10, <1>12, <4>1
    <3>7. CASE r = 0
      <4>1. current_buffer' = 0
        BY <1>9, <1>10, <3>2, <3>5, <3>7
      <4>2. out' = [x \in Out |-> IF x = Front' THEN Frames(played', r)
                                  ELSE Frames(played' + r, 0)]
        <5>1. Frames(played', r) = <<>> /\ fr = <<>> /\ ot = <<>>
          BY <3>2, <3>3, <3>5, <3>7
        <5> QED
          BY <3>5, <3>6, <5>1
      <4>3. Held(r, 0)'
        BY <3>4, <3>7, <4>1, <4>2 DEF Held
      <4> QED
        BY <3>1, <4>3
    <3>8. CASE r # 0
      <4>1. current_buffer' = o /\ Front' = o
        BY <1>2, <1>3, <1>9, <1>10, <3>2, <3>5, <3>8 DEF Front, Out
      <4>2. out' = [x \in Out |-> IF x = Front' THEN Frames(played', r)
                                  ELSE Frames(played' + r, 0)]
        BY <3>2, <3>3, <3>5, <3>6, <4>1
      <4>3. Held(r, 0)'
        BY <1>3, <3>4, <3>8, <4>1, <4>2 DEF Held
      <4> QED
        BY <3>1, <4>3
    <3> QED
      BY <3>7, <3>8
  <2> QED
    BY <1>2, <1>7, <2>1, <2>2
<1>14. made' \in Nat /\ played' \in Nat /\ current_buffer' \in 0..2
  BY <1>2, <1>3, <1>7, <1>9 DEF Out
<1>15. out[b] # <<>>
  BY <1>2, <1>4, FramesSeq
<1>16. out[o] = <<>> => out'[o] = <<>>
  <2> SUFFICES ASSUME out[o] = <<>> PROVE out'[o] = <<>>
    OBVIOUS
  <2>1. m = 0
    BY <1>5
  <2>2. ~(s > k)
    BY <1>7, <2>1
  <2> QED
    BY <1>10, <2>2 DEF ot
<1>17. \A x \in Out : out[x] = <<>> => out'[x] = <<>>
  BY <1>12, <1>15, <1>16
<1> QED
  BY <1>13, <1>14, <1>17 DEF PlayInv

\* What ran empty in the callback was not announced before, so it is now, and
\* the line goes up.
LEMMA CallbackIInv ==
    ASSUME NEW free \in 1..BufferSize, IInv, goldfish_audio_callback(free)
    PROVE  IInv'
<1> DEFINE new == Emptied(out')
<1>1. PlayInv'
  BY CallbackPlays
<1>2. /\ Announce(new) /\ UNCHANGED <<int_enable, made, inVars, status, reading>>
      /\ int_enable \cap Out # {}
  BY DEF goldfish_audio_callback
<1>3. new \subseteq Out /\ new \cap int_status = {}
  BY <1>2 DEF Emptied, IInv, NewsInv
<1>4. int_status' = int_status \cup new
  BY <1>2, <1>3 DEF Announce
<1>5. ASSUME NEW b \in Out PROVE b \in int_status' <=> out'[b] = <<>>
  <2>1. out[b] = <<>> => out'[b] = <<>>
    BY CallbackPlays
  <2> QED
    BY <1>2, <1>4, <2>1 DEF Emptied, IInv, NewsInv
<1>6. line' = 1 \/ int_status' \subseteq status'
  <2>1. CASE new = {}
    BY <1>2, <2>1 DEF Announce, IInv, NewsInv
  <2>2. CASE new # {}
    <3>1. line' = Level(int_status', int_enable)
      BY <1>2, <1>3, <2>2 DEF Announce
    <3>2. int_status' \cap int_enable # {}
      BY <1>2, <1>3, <1>4, <2>2 DEF IInv, NewsInv
    <3> QED
      BY <3>1, <3>2 DEF Level
  <2> QED
    BY <2>1, <2>2
<1>7. NewsInv'
  BY <1>2, <1>3, <1>4, <1>5, <1>6 DEF IInv, NewsInv, inVars
<1>8. RecordInv' /\ RecordExact'
  <2>1. Full \notin Out
    BY DEF Full, Out
  <2> QED
    BY <1>2, <1>3, <1>4, <2>1, RecordSame DEF IInv
<1> QED
  BY <1>1, <1>7, <1>8 DEF IInv

\* Frames recorded go behind those in_buff has, and Full comes with the last.
LEMMA InCallbackIInv ==
    ASSUME NEW avail \in 1..BufferSize, IInv, goldfish_audio_in_callback(avail)
    PROVE  IInv'
<1> USE AudioAssumption
<1> DEFINE n == Least(avail, length - offset)
<1>1. /\ length \in 0..BufferSize /\ offset \in 0..length /\ heard \in Nat
      /\ length - offset # 0 /\ avail \in Nat /\ avail > 0
      /\ reading # "done" /\ Full \notin int_status
      /\ int_enable = Out \cup {Full}
  BY DEF IInv, RecordInv, NewsInv, goldfish_audio_in_callback, Out, Full
<1>2. n \in Nat /\ n > 0 /\ offset + n <= length
  <2>1. n = IF avail <= length - offset THEN avail ELSE length - offset
    BY DEF Least
  <2> QED
    BY <1>1, <2>1
<1>3. /\ data' = Received(n) /\ offset' = offset + n /\ heard' = heard + n
      /\ Announce(IF offset' = length THEN {Full} ELSE {})
      /\ UNCHANGED <<int_enable, outVars, length, status, reading>>
  BY DEF goldfish_audio_in_callback
<1> HIDE DEF n
<1>4. PlayInv'
  BY <1>3, PlaySame DEF IInv
<1>5. int_status' = IF offset' = length THEN int_status \cup {Full} ELSE int_status
  BY <1>1, <1>3 DEF Announce
<1>6. \A i \in 1..offset' : data'[i] = heard' - offset' + i
  <2> TAKE i \in 1..offset'
  <2>1. i \in 1..offset + n /\ i \in 1..BufferSize
    BY <1>1, <1>2, <1>3
  <2>2. data'[i] = IF i \in offset + 1..offset + n THEN heard + i - offset ELSE data[i]
    BY <1>3, <2>1 DEF Received
  <2>3. heard' - offset' + i = heard - offset + i
    BY <1>1, <1>2, <1>3, <2>1
  <2>4. CASE i \in offset + 1..offset + n
    BY <1>1, <2>1, <2>2, <2>3, <2>4
  <2>5. CASE i \notin offset + 1..offset + n
    <3>1. i \in 1..offset
      BY <1>1, <1>2, <2>1, <2>5
    <3>2. data[i] = heard - offset + i
      BY <3>1 DEF IInv, RecordInv
    <3> QED
      BY <2>2, <2>3, <2>5, <3>2
  <2> QED
    BY <2>4, <2>5
<1>7. RecordInv'
  <2>1. offset' \in 0..length' /\ heard' \in Nat /\ length' \in 0..BufferSize
    BY <1>1, <1>2, <1>3
  <2>2. Full \in int_status' <=> offset' = length'
    BY <1>1, <1>3, <1>5
  <2>3. reading' # "done" /\ reading' = reading
    BY <1>1, <1>3
  <2> QED
    BY <1>6, <2>1, <2>2, <2>3 DEF IInv, RecordInv
<1>8. RecordExact'
  BY <1>1, <1>3 DEF RecordExact
<1>9. NewsInv'
  <2>1. line' = 1 \/ int_status' \subseteq status'
    <3>1. CASE offset' = length
      <4>1. {Full} # int_status
        BY <1>1
      <4>2. line' = Level(int_status', int_enable) /\ Full \in int_status'
        BY <1>3, <1>5, <3>1, <4>1 DEF Announce
      <4> QED
        BY <1>1, <4>2 DEF Level
    <3>2. CASE offset' # length
      BY <1>1, <1>3, <3>2 DEF Announce, IInv, NewsInv
    <3> QED
      BY <3>1, <3>2
  <2>2. \A b \in Out : b \in int_status' <=> b \in int_status
    BY <1>5 DEF Out, Full
  <2>3. int_status' \in SUBSET (Out \cup {Full})
    BY <1>5 DEF IInv, NewsInv
  <2> QED
    BY <1>1, <1>3, <1>5, <2>1, <2>2, <2>3 DEF IInv, NewsInv, outVars
<1> QED
  BY <1>4, <1>7, <1>8, <1>9 DEF IInv

-----------------------------------------------------------------------------
\* Every step keeps the invariant.
LEMMA NextIInv == IInv /\ [Next]_vars => IInv'
<1> SUFFICES ASSUME IInv, [Next]_vars PROVE IInv'
  OBVIOUS
<1>1. CASE Next
  BY <1>1, IntEnableIInv, ReadIntStatusIInv, WriteBufferIInv, StartReadIInv,
     CallbackIInv, InCallbackIInv, ReadAvailableIInv DEF Next
<1>2. CASE UNCHANGED vars
  <2>1. UNCHANGED <<outVars, inVars, int_status, int_enable, line, status, reading>>
    BY <1>2 DEF vars
  <2>2. PlayInv' /\ RecordInv' /\ RecordExact'
    BY <2>1, PlaySame, RecordSame DEF IInv
  <2>3. NewsInv'
    BY <2>1 DEF IInv, NewsInv, outVars, inVars
  <2> QED
    BY <2>2, <2>3 DEF IInv
<1> QED
  BY <1>1, <1>2

\* The driver is told, or will be: the news there are hold the line up.
LEMMA NewsHeld == IInv => NewsAnnounced
  BY DEF IInv, NewsInv, RecordInv, NewsAnnounced

\* The invariant holds in every state the device can reach.
LEMMA AlwaysIInv == Spec => []IInv
  BY InitIInv, NextIInv, PTL DEF Spec

\* For every buffer size, goldfish_audio_callback plays the sound in the order
\* it was made, whichever buffers it is in and however the callbacks cut it.
THEOREM AlwaysPlaysInOrder == Spec => []PlaysInOrder
<1>1. IInv => PlaysInOrder
  BY HeldInOrder DEF IInv
<1> QED
  BY <1>1, AlwaysIInv, PTL

\* No wake-up is ever lost: an empty buffer or a complete recording that the
\* driver has not learnt of holds the interrupt line high.
THEOREM AlwaysNewsAnnounced == Spec => []NewsAnnounced
  BY NewsHeld, AlwaysIInv, PTL

\* A recording of any length, delivered in any number of pieces, is in the
\* guest's memory whole and in order once the driver has read it.
THEOREM AlwaysRecordExact == Spec => []RecordExact
<1>1. IInv => RecordExact
  BY DEF IInv
<1> QED
  BY <1>1, AlwaysIInv, PTL
=============================================================================
