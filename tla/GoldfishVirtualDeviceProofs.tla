-------------------- MODULE GoldfishVirtualDeviceProofs --------------------
(***************************************************************************)
(* Every renderer gets an uninterrupted piece of the guest's stream, for   *)
(* any lengths and number of commands and any number of deaths.  The       *)
(* bytes a connection carried are contiguous because, while it is open,    *)
(* the last of them is the last that was sent at all (AtTheEnd); none is   *)
(* sent again because bytes are numbered upwards and what was lost has     *)
(* been sent before (Behind).                                              *)
(***************************************************************************)
EXTENDS GoldfishVirtualDevice, TLAPS

\* The types of what the stream depends on.  The device never skips a command:
\* "done" is reached by no path.
TypeOK ==
    /\ sent \in Nat /\ ends \in Seq(Nat) /\ got \in Seq(Nat)
    /\ pc \in {"guest", "connect", "send", "recv"}

\* All that has left the device was sent.
Behind ==
    /\ \A i \in 1..Len(got) : got[i] <= sent
    /\ \A b \in lost : b \in Nat /\ b <= sent

\* The last byte of an open connection is the last byte sent.
AtTheEnd == socket = "open" /\ Len(got) > 0 => got[1] + Len(got) - 1 = sent

\* A connection that is not open yet has carried nothing.
NewIsEmpty == socket \in {"new", "none"} => got = <<>>

\* The inductive invariant.
IInv == TypeOK /\ Behind /\ AtTheEnd /\ NewIsEmpty /\ StreamInOrder

\* The end of the stream is a number.
LEMMA TotalIsNat == ASSUME ends \in Seq(Nat) PROVE Total \in Nat
<1>1. CASE ends = <<>>
  BY <1>1 DEF Total
<1>2. CASE ends # <<>>
  BY <1>2 DEF Total, Last
<1> QED
  BY <1>1, <1>2

\* Nothing has been sent at first.
LEMMA InitIInv == ASSUME Init PROVE IInv
  BY DEF Init, IInv, TypeOK, Behind, AtTheEnd, NewIsEmpty, StreamInOrder

\* A connection that is given up is followed by an empty one.
LEMMA ReopenIInv ==
    ASSUME IInv, Reopen, sent' = sent, ends' = ends,
           pc' \in {"guest", "connect"}
    PROVE  IInv'
<1>1. got' = <<>> /\ socket' \in {"new", "none"} /\ Len(got') = 0
  BY DEF Reopen, createSocket
<1>2. TypeOK'
  BY <1>1 DEF IInv, TypeOK
<1>3. \A b \in lost' : b \in Nat /\ b <= sent
  BY DEF IInv, TypeOK, Behind, Reopen, ToSet
<1> QED
  BY <1>1, <1>2, <1>3 DEF IInv, Behind, AtTheEnd, NewIsEmpty, StreamInOrder

\* What follows a sequence when the next k numbers are put behind it.
LEMMA Extended ==
    ASSUME NEW s \in Nat, NEW g \in Seq(Nat), NEW k \in Nat \ {0}
    PROVE  LET h == g \o [i \in 1..k |-> s + i]
           IN  /\ h \in Seq(Nat) /\ Len(h) = Len(g) + k
               /\ \A i \in 1..Len(g) : h[i] = g[i]
               /\ \A i \in 1..k : h[Len(g) + i] = s + i
<1> DEFINE new == [i \in 1..k |-> s + i]
<1>1. new \in Seq(Nat) /\ Len(new) = k /\ Len(g) \in Nat
  OBVIOUS
<1>2. \A i \in 1..k : new[i] = s + i
  OBVIOUS
<1> HIDE DEF new
<1> DEFINE h == g \o new
<1>3. h \in Seq(Nat) /\ Len(h) = Len(g) + k
  BY <1>1, SMTT(40)
<1>4. \A i \in 1..Len(g) : h[i] = g[i]
  BY <1>1, SMTT(40)
<1>5. \A i \in 1..k : h[Len(g) + i] = new[i]
  BY <1>1, SMTT(40)
<1> HIDE DEF h
<1>6. \A i \in 1..k : h[Len(g) + i] = s + i
  BY <1>2, <1>5
<1> QED
  BY <1>3, <1>4, <1>6 DEF h, new

\* The n numbers of g follow each other and end in s.
Contiguous(g, n, s) ==
    /\ \A i \in 1..n : g[i] = g[1] + i - 1
    /\ n > 0 => g[1] + n - 1 = s

\* h is the n numbers of g and the k numbers after s.
GoesOn(h, g, n, k, s) ==
    /\ \A i \in 1..n : h[i] = g[i]
    /\ \A i \in 1..k : h[n + i] = s + i

\* A contiguous sequence stays so when it goes on where it ended.
LEMMA StillContiguous ==
    ASSUME NEW s \in Nat, NEW n \in Nat, NEW k \in Nat \ {0},
           NEW g \in Seq(Nat), NEW h \in Seq(Nat), n <= Len(g),
           Contiguous(g, n, s), GoesOn(h, g, n, k, s)
    PROVE  Contiguous(h, n + k, s + k)
<1>1. \A i \in 1..n : h[i] = s - n + i
  <2> TAKE i \in 1..n
  <2>1. n > 0 /\ g[1] \in Nat
    OBVIOUS
  <2>2. g[1] + n - 1 = s /\ h[i] = g[1] + i - 1
    BY <2>1 DEF Contiguous, GoesOn
  <2> DEFINE a == g[1]
  <2>3. a \in Nat /\ a + n - 1 = s /\ h[i] = a + i - 1
    BY <2>1, <2>2
  <2> HIDE DEF a
  <2>4. a + i - 1 = s - n + i
    BY <2>3
  <2> QED
    BY <2>3, <2>4
<1>2. \A i \in n + 1..n + k : h[i] = s - n + i
  <2> TAKE i \in n + 1..n + k
  <2>1. PICK j \in 1..k : i = n + j
    <3>1. i - n \in 1..k /\ i = n + (i - n)
      OBVIOUS
    <3> QED
      BY <3>1
  <2> QED
    BY <2>1 DEF GoesOn
<1>3. \A i \in 1..n + k : h[i] = s - n + i
  <2> TAKE i \in 1..n + k
  <2>1. CASE i <= n
    BY <1>1, <2>1
  <2>2. CASE i > n
    BY <1>2, <2>2
  <2> QED
    BY <2>1, <2>2
<1>4. h[1] = s - n + 1
  BY <1>3
<1> QED
  BY <1>3, <1>4 DEF Contiguous

\* A successful send() over an open connection goes on where the last ended.
LEMMA SendOpenIInv ==
    ASSUME IInv, NEW k \in Nat \ {0}, socket = "open", sent' = sent + k,
           got' = got \o [i \in 1..k |-> sent + i],
           UNCHANGED <<socket, lost, ends, pc>>
    PROVE  IInv'
<1>1. sent \in Nat /\ sent' \in Nat /\ got \in Seq(Nat) /\ Len(got) \in Nat
  BY DEF IInv, TypeOK
<1>2. /\ got' \in Seq(Nat) /\ Len(got') = Len(got) + k
      /\ \A i \in 1..Len(got) : got'[i] = got[i]
      /\ \A i \in 1..k : got'[Len(got) + i] = sent + i
  BY <1>1, Extended
<1>3. TypeOK' /\ NewIsEmpty'
  BY <1>1, <1>2 DEF IInv, TypeOK, NewIsEmpty
<1>4. Contiguous(got, Len(got), sent)
  BY DEF IInv, AtTheEnd, StreamInOrder, Contiguous
<1>5. Contiguous(got', Len(got) + k, sent + k)
  <2>1. GoesOn(got', got, Len(got), k, sent)
    BY <1>2 DEF GoesOn
  <2>2. Len(got) <= Len(got) /\ k \in Nat \ {0}
    BY <1>1
  <2> QED
    BY <1>1, <1>2, <1>4, <2>1, <2>2, StillContiguous, Zenon
<1>6. AtTheEnd'
  BY <1>2, <1>5 DEF AtTheEnd, Contiguous
<1>7. \A b \in lost : b \in Nat /\ b <= sent
  BY DEF IInv, Behind
<1>8. \A i \in 1..Len(got) : got'[i] <= sent' /\ got'[i] \notin lost
  BY <1>1, <1>2 DEF IInv, Behind, StreamInOrder
<1>9. \A i \in 1..k : got'[Len(got) + i] <= sent' /\ got'[Len(got) + i] \notin lost
  <2> TAKE i \in 1..k
  <2>1. sent + i <= sent' /\ sent + i > sent /\ sent + i \in Nat
    BY <1>1
  <2>2. sent + i \notin lost
    BY <1>1, <1>7, <2>1
  <2> QED
    BY <1>2, <2>1, <2>2
<1>10. \A i \in 1..Len(got') : got'[i] <= sent' /\ got'[i] \notin lost
  <2> TAKE i \in 1..Len(got')
  <2>1. CASE i <= Len(got)
    BY <1>1, <1>2, <1>8, <2>1
  <2>2. CASE i > Len(got)
    <3>1. i - Len(got) \in 1..k /\ i = Len(got) + (i - Len(got))
      BY <1>1, <1>2, <2>2
    <3> QED
      BY <1>9, <3>1
  <2> QED
    BY <1>1, <1>2, <2>1, <2>2
<1>11. Behind'
  <2>1. \A b \in lost' : b \in Nat /\ b <= sent'
    BY <1>1, <1>7
  <2> QED
    BY <1>10, <2>1 DEF Behind
<1>12. StreamInOrder'
  BY <1>2, <1>5, <1>10 DEF StreamInOrder, Contiguous
<1> QED
  BY <1>3, <1>6, <1>11, <1>12 DEF IInv

\* What is sent to a peer that is gone is lost, and comes after all it got.
LEMMA SendClosingIInv ==
    ASSUME IInv, NEW k \in Nat \ {0}, sent' = sent + k, socket' = "reset",
           lost' = lost \cup (sent + 1)..(sent + k), UNCHANGED <<got, ends, pc>>
    PROVE  IInv'
<1>1. sent \in Nat /\ sent' \in Nat /\ got \in Seq(Nat) /\ Len(got) \in Nat
  BY DEF IInv, TypeOK
<1>2. TypeOK' /\ AtTheEnd' /\ NewIsEmpty'
  BY <1>1 DEF IInv, TypeOK, AtTheEnd, NewIsEmpty
<1>3. \A i \in 1..Len(got) : got[i] \in Nat /\ got[i] <= sent /\ got[i] \notin lost
  BY <1>1 DEF IInv, Behind, StreamInOrder
<1>4. \A i \in 1..Len(got) : got[i] <= sent' /\ got[i] \notin lost'
  BY <1>1, <1>3
<1>5. \A b \in lost' : b \in Nat /\ b <= sent'
  BY <1>1 DEF IInv, Behind
<1> QED
  BY <1>2, <1>4, <1>5 DEF IInv, Behind, StreamInOrder

\* Steps that leave the stream alone.
LEMMA OthersKeepIInv ==
    ASSUME IInv, UNCHANGED <<got, lost, sent>>, ends' \in Seq(Nat),
           pc' \in {"guest", "connect", "send", "recv"},
           socket' = "open" => socket = "open" \/ got = <<>>,
           socket' \in {"new", "none"} => socket \in {"new", "none"}
    PROVE  IInv'
<1>1. TypeOK' /\ Behind' /\ StreamInOrder' /\ NewIsEmpty'
  BY DEF IInv, TypeOK, Behind, StreamInOrder, NewIsEmpty
<1>2. AtTheEnd'
  <2>1. CASE got = <<>>
    BY <2>1 DEF AtTheEnd
  <2>2. CASE got # <<>>
    BY <2>2 DEF IInv, AtTheEnd
  <2> QED
    BY <2>1, <2>2
<1> QED
  BY <1>1, <1>2 DEF IInv

\* send() either goes on, meets a peer that is gone, or finds no connection.
LEMMA SendKeepsIInv == ASSUME IInv, Send PROVE IInv'
<1>1. Total \in Nat /\ sent \in Nat
  BY TotalIsNat DEF IInv, TypeOK
<1>2. ends' = ends
  BY DEF Send, guestVars
<1>3. ASSUME NEW k \in 1..(Total - sent), sent' = Advanced(k), pc' = pc,
             \/ /\ socket = "open" /\ got' = got \o [i \in 1..k |-> sent + i]
                /\ UNCHANGED <<socket, lost>>
             \/ /\ socket = "closing" /\ socket' = "reset"
                /\ lost' = lost \cup (sent + 1)..(sent + k) /\ UNCHANGED got
      PROVE IInv'
  <2>1. k \in Nat \ {0} /\ sent' = sent + k
    BY <1>1, <1>3 DEF Advanced
  <2>2. CASE /\ socket = "open" /\ got' = got \o [i \in 1..k |-> sent + i]
             /\ UNCHANGED <<socket, lost>>
    BY <1>2, <1>3, <2>1, <2>2, SendOpenIInv
  <2>3. CASE /\ socket = "closing" /\ socket' = "reset"
             /\ lost' = lost \cup (sent + 1)..(sent + k) /\ UNCHANGED got
    BY <1>2, <1>3, <2>1, <2>3, SendClosingIInv
  <2> QED
    BY <1>3, <2>2, <2>3
<1>4. CASE Reopen /\ pc' = "connect" /\ UNCHANGED sent
  BY <1>2, <1>4, ReopenIInv
<1> QED
  BY <1>3, <1>4 DEF Send

\* Every step keeps the invariant.
LEMMA NextIInv == ASSUME IInv, [Next]_vars PROVE IInv'
<1> USE DEF guestVars, rendererVars, wire, devVars
<1>0. /\ ends \in Seq(Nat) /\ pc \in {"guest", "connect", "send", "recv"}
      /\ socket \in {"new", "none"} => got = <<>>
  BY DEF IInv, TypeOK, NewIsEmpty
<1>1. CASE Initialise \/ ReadIntStatus \/ StartRead \/ Reply \/ RendererStarts
  BY <1>0, <1>1, OthersKeepIInv
  DEF Initialise, ReadIntStatus, StartRead, Reply, RendererStarts
<1>2. ASSUME NEW b \in {1, 2}, NEW n \in Lengths, WriteBuffer(b, n) PROVE IInv'
  <2>1. Append(ends, Total + n) \in Seq(Nat)
    BY <1>0, TotalIsNat, LengthsAssumption
  <2> QED
    BY <1>0, <1>2, <2>1, OthersKeepIInv DEF WriteBuffer
<1>3. CASE Connect
  <2>1. pc' = "send"
    BY <1>3 DEF Connect, AfterConnect
  <2> QED
    BY <1>0, <1>3, <2>1, OthersKeepIInv DEF Connect
<1>4. CASE Send
  BY <1>4, SendKeepsIInv
<1>5. CASE WriteDone
  BY <1>0, <1>5, OthersKeepIInv DEF WriteDone
<1>6. CASE Recv
  <2>1. CASE Reopen
    BY <1>6, <2>1, ReopenIInv DEF Recv
  <2>2. CASE UNCHANGED <<connected, socket, got, lost>>
    BY <1>0, <1>6, <2>2, OthersKeepIInv DEF Recv
  <2> QED
    BY <1>6, <2>1, <2>2 DEF Recv
<1>7. CASE RendererDies
  BY <1>0, <1>7, OthersKeepIInv DEF RendererDies
<1>8. CASE UNCHANGED vars
  BY <1>0, <1>8, OthersKeepIInv DEF vars
<1> QED
  BY <1>1, <1>2, <1>3, <1>4, <1>5, <1>6, <1>7, <1>8 DEF Next, Guest, Device

\* Over partial sends, errors and reconnections a renderer gets a contiguous
\* piece of the guest's stream and nothing twice
\* (goldfish_virtualDevice_writeSocket), for any commands and any deaths.
THEOREM StreamAlwaysInOrder == Spec => []StreamInOrder
<1>1. Init => IInv
  BY InitIInv
<1>2. IInv /\ [Next]_vars => IInv'
  BY NextIInv
<1>3. IInv => StreamInOrder
  BY DEF IInv
<1> QED
  BY <1>1, <1>2, <1>3, PTL DEF Spec
=============================================================================
