--------------------------- MODULE QemudInvariant ---------------------------
(***************************************************************************)
(* The invariant of the qemud multiplexer (QemudMux), for any services and *)
(* limits, any channel ids and any number of connections and messages, and *)
(* the steps of the guest, which keep it; QemudProofs has the steps of the *)
(* emulator and the results.                                               *)
(*                                                                         *)
(* Nothing on the line names a connection, so what keeps data and          *)
(* disconnects from reaching the wrong one is which messages can be under  *)
(* way together for one id; RequestInv to ChanInv say which.               *)
(***************************************************************************)
EXTENDS QemudMux, TLAPS

-----------------------------------------------------------------------------
(* The inductive invariant.                                                *)

Client == [conn : Nat \ {0}, channel : Channels, service : Services]
HostMsg ==
    [type : {"connect"}, channel : Channels, service : Services \cup {Unknown},
     conn : Nat \ {0}]
      \cup [type : {"data"}, channel : Channels, conn : Nat \ {0}]
      \cup [type : {"disconnect"}, channel : Channels]
GuestMsg ==
    [type : {"data"}, channel : Channels, conn : Nat \ {0}]
      \cup [type : {"ok", "ko", "disconnect"}, channel : Channels]

Hosted == Range(clients) \ {Control}

TypeInv ==
    /\ clients \in Seq(Client \cup {Control})
    /\ sclients \in [Services -> Seq(Client)]
    /\ num_clients \in [Services -> Nat]
    /\ toHost \in Seq(HostMsg) /\ toGuest \in Seq(GuestMsg)
    /\ chan \in [Channels -> [state : {"free", "connecting", "open"}, conn : Nat]]
    /\ conns \in Nat

\* Newest first, so that no client is listed twice.
Sorted(list) == \A i, j \in 1..Len(list) : i < j => list[i].conn > list[j].conn

ListInv ==
    /\ Len(clients) > 0 /\ clients[Len(clients)] = Control
    /\ Sorted(clients)
    /\ \A s \in Services :
         /\ Sorted(sclients[s])
         /\ Range(sclients[s]) = {c \in Range(clients) : c.service = s}
         /\ num_clients[s] = Len(sclients[s])
         /\ max_clients[s] > 0 => num_clients[s] <= max_clients[s]

\* Connections are numbered in the order their requests are on the line, a
\* request is alone there with its id, and an answer comes once.
HostOrder ==
    \A i, j \in 1..Len(toHost) : toHost[i].type = "connect" /\ i # j =>
       /\ toHost[j].channel # toHost[i].channel
       /\ toHost[j].type = "connect" /\ i < j => toHost[i].conn < toHost[j].conn

IsAnswer(a) == a.type = "ok" \/ a.type = "ko"

GuestOrder ==
    \A i, j \in 1..Len(toGuest) :
       IsAnswer(toGuest[i]) /\ IsAnswer(toGuest[j]) /\ i # j =>
          toGuest[i].channel # toGuest[j].channel

OrderInv == HostOrder /\ GuestOrder

\* A request on the line is of a connection newer than all clients, for which
\* nothing is on its way back.
RequestInv ==
    \A m \in Range(toHost) : m.type = "connect" =>
       /\ chan[m.channel].state = "connecting" /\ chan[m.channel].conn = m.conn
       /\ \A a \in Range(toGuest) : a.channel # m.channel
       /\ m.conn <= conns
       /\ \A c \in Hosted : c.conn < m.conn /\ c.channel # m.channel

\* The clients of the emulator: one for an id, known to the daemon, or being
\* told to it, or closed by it.
HostInv ==
    \A c \in Hosted :
       /\ c.conn <= conns
       /\ \A d \in Hosted : d.channel = c.channel => d = c
       /\ \/ chan[c.channel].state = "open" /\ chan[c.channel].conn = c.conn
          \/ /\ chan[c.channel].state = "connecting" /\ chan[c.channel].conn = c.conn
             /\ \E a \in Range(toGuest) : a.type = "ok" /\ a.channel = c.channel
          \/ /\ chan[c.channel].state = "free"
             /\ \E m \in Range(toHost) : m.type = "disconnect" /\ m.channel = c.channel
       /\ \A a \in Range(toGuest) :
            a.channel = c.channel => a.type # "ko" /\ a.type # "disconnect"
       /\ \A m \in Range(toHost) :
            m.channel = c.channel /\ m.type = "data" => m.conn = c.conn

\* What a message on the line says of its id.
ToHostInv ==
    \A m \in Range(toHost) :
       /\ m.type = "data" =>
            \/ chan[m.channel].state = "free"
            \/ chan[m.channel].state = "open" /\ chan[m.channel].conn = m.conn
       /\ m.type = "disconnect" => chan[m.channel].state = "free"

ToGuestInv ==
    \A a \in Range(toGuest) :
       /\ a.type = "data" =>
            chan[a.channel].state = "free" \/ chan[a.channel].conn = a.conn
       /\ a.type = "disconnect" => chan[a.channel].state # "connecting"
       /\ IsAnswer(a) => /\ chan[a.channel].state = "connecting"
                         /\ \A m \in Range(toHost) : m.channel # a.channel
       /\ a.type = "ok" =>
            \E c \in Hosted : c.channel = a.channel /\ c.conn = chan[a.channel].conn

WireInv == ToHostInv /\ ToGuestInv

\* What the daemon takes for a connection is asked for, answered, or known to
\* the emulator until its disconnect is under way.
ChanInv ==
    \A ch \in Channels :
       /\ chan[ch].state = "free" <=> chan[ch].conn = 0
       /\ chan[ch].state = "connecting" =>
            \/ \E m \in Range(toHost) : m.type = "connect" /\ m.channel = ch
            \/ \E a \in Range(toGuest) : IsAnswer(a) /\ a.channel = ch
       /\ chan[ch].state = "open" =>
            \/ \E c \in Hosted : c.channel = ch /\ c.conn = chan[ch].conn
            \/ \E a \in Range(toGuest) : a.type = "disconnect" /\ a.channel = ch

IInv ==
    /\ TypeInv /\ ListInv /\ OrderInv /\ RequestInv /\ HostInv /\ WireInv /\ ChanInv
    /\ DeliveredToPeer

-----------------------------------------------------------------------------
(* Lists and messages.                                                     *)

\* What taking the first of a queue leaves.
LEMMA Taken ==
    ASSUME NEW S, NEW q \in Seq(S), q # <<>>
    PROVE  /\ Head(q) \in S /\ Head(q) \in Range(q) /\ Tail(q) \in Seq(S)
           /\ Range(q) = Range(Tail(q)) \cup {Head(q)}
           /\ Len(q) \in Nat \ {0} /\ Len(Tail(q)) = Len(q) - 1 /\ Head(q) = q[1]
           /\ \A i \in 1..Len(Tail(q)) : i + 1 \in 1..Len(q) /\ Tail(q)[i] = q[i + 1]
<1>1. /\ Head(q) = q[1] /\ Head(q) \in S /\ Tail(q) \in Seq(S)
      /\ Len(q) \in Nat \ {0} /\ Len(Tail(q)) = Len(q) - 1
      /\ \A i \in 1..Len(Tail(q)) : i + 1 \in 1..Len(q) /\ Tail(q)[i] = q[i + 1]
  OBVIOUS
<1>2. Head(q) \in Range(q)
  BY <1>1 DEF Range
<1>3. \A x \in Range(Tail(q)) : x \in Range(q)
  BY <1>1 DEF Range
<1>4. ASSUME NEW x \in Range(q), x # Head(q) PROVE x \in Range(Tail(q))
  <2>1. PICK i \in 1..Len(q) : q[i] = x
    BY DEF Range
  <2>2. i - 1 \in 1..Len(Tail(q)) /\ Tail(q)[i - 1] = x
    BY <1>1, <1>4, <2>1
  <2>3. DOMAIN Tail(q) = 1..Len(Tail(q))
    BY <1>1
  <2> QED
    BY <2>2, <2>3, ZenonT(30) DEF Range
<1> QED
  BY <1>1, <1>2, <1>3, <1>4

\* What putting a queue behind another gives.
LEMMA Joined ==
    ASSUME NEW S, NEW q \in Seq(S), NEW r \in Seq(S)
    PROVE  /\ q \o r \in Seq(S) /\ Range(q \o r) = Range(q) \cup Range(r)
           /\ Len(q) \in Nat /\ Len(r) \in Nat /\ Len(q \o r) = Len(q) + Len(r)
           /\ \A i \in 1..Len(q \o r) :
                IF i <= Len(q) THEN (q \o r)[i] = q[i]
                ELSE i - Len(q) \in 1..Len(r) /\ (q \o r)[i] = r[i - Len(q)]
<1>1. /\ q \o r \in Seq(S) /\ Len(q) \in Nat /\ Len(r) \in Nat
      /\ Len(q \o r) = Len(q) + Len(r)
      /\ \A i \in 1..Len(q \o r) :
           IF i <= Len(q) THEN (q \o r)[i] = q[i]
           ELSE i - Len(q) \in 1..Len(r) /\ (q \o r)[i] = r[i - Len(q)]
  OBVIOUS
<1>2. ASSUME NEW x \in Range(q \o r) PROVE x \in Range(q) \cup Range(r)
  <2>1. PICK i \in 1..Len(q \o r) : (q \o r)[i] = x
    BY <1>1 DEF Range
  <2> QED
    BY <1>1, <2>1 DEF Range
<1>3. ASSUME NEW x \in Range(q) PROVE x \in Range(q \o r)
  <2>1. PICK i \in 1..Len(q) : q[i] = x
    BY DEF Range
  <2>2. i \in 1..Len(q \o r) /\ (q \o r)[i] = x
    BY <1>1, <2>1
  <2> QED
    BY <1>1, <2>2 DEF Range
<1>4. ASSUME NEW x \in Range(r) PROVE x \in Range(q \o r)
  <2>1. PICK i \in 1..Len(r) : r[i] = x
    BY DEF Range
  <2>2. Len(q) + i \in 1..Len(q \o r) /\ (q \o r)[Len(q) + i] = x
    BY <1>1, <2>1
  <2> QED
    BY <1>1, <2>2 DEF Range
<1> QED
  BY <1>1, <1>2, <1>3, <1>4

\* A queue of one message.
LEMMA Single ==
    ASSUME NEW S, NEW x \in S
    PROVE  /\ <<x>> \in Seq(S) /\ Range(<<x>>) = {x} /\ Len(<<x>>) = 1
           /\ <<x>>[1] = x
  BY DEF Range

\* What putting a client before a list adds to it.
LEMMA Prepended ==
    ASSUME NEW S, NEW x \in S, NEW q \in Seq(S)
    PROVE  Range(<<x>> \o q) = {x} \cup Range(q)
<1> DEFINE one == <<x>>
<1>1. one \in Seq(S) /\ Range(one) = {x}
  BY Single
<1> HIDE DEF one
<1>2. Range(one \o q) = Range(one) \cup Range(q)
  BY <1>1, Joined
<1> QED
  BY <1>1, <1>2 DEF one

\* What putting a message at the end of a queue gives.
LEMMA Appended ==
    ASSUME NEW S, NEW q \in Seq(S), NEW x \in S
    PROVE  /\ Append(q, x) \in Seq(S) /\ Range(Append(q, x)) = Range(q) \cup {x}
           /\ Len(q) \in Nat /\ Len(Append(q, x)) = Len(q) + 1
           /\ Append(q, x)[Len(q) + 1] = x
           /\ \A i \in 1..Len(q) : Append(q, x)[i] = q[i] /\ q[i] \in Range(q)
<1>1. /\ Append(q, x) \in Seq(S) /\ Len(q) \in Nat /\ Len(Append(q, x)) = Len(q) + 1
      /\ Append(q, x)[Len(q) + 1] = x
      /\ \A i \in 1..Len(q) : Append(q, x)[i] = q[i]
  OBVIOUS
<1>2. DOMAIN Append(q, x) = 1..Len(q) + 1 /\ DOMAIN q = 1..Len(q)
  BY <1>1
<1>3. \A y \in Range(Append(q, x)) : y \in Range(q) \cup {x}
  BY <1>1, <1>2 DEF Range
<1>4. \A y \in Range(q) \cup {x} : y \in Range(Append(q, x))
  BY <1>1, <1>2 DEF Range
<1>5. \A i \in 1..Len(q) : q[i] \in Range(q)
  BY <1>2 DEF Range
<1> QED
  BY <1>1, <1>3, <1>4, <1>5

\* A queue of two messages.
LEMMA Pair ==
    ASSUME NEW S, NEW x \in S, NEW y \in S
    PROVE  /\ <<x, y>> \in Seq(S) /\ Range(<<x, y>>) = {x, y} /\ Len(<<x, y>>) = 2
           /\ \A i \in 1..2 : <<x, y>>[i] \in {x, y}
<1>1. /\ <<x, y>> \in Seq(S) /\ Len(<<x, y>>) = 2 /\ DOMAIN <<x, y>> = 1..2
      /\ <<x, y>>[1] = x /\ <<x, y>>[2] = y
  OBVIOUS
<1>2. \A i \in 1..2 : i = 1 \/ i = 2
  OBVIOUS
<1>3. \A z : z \in Range(<<x, y>>) <=> z = x \/ z = y
  BY <1>1, <1>2 DEF Range
<1> QED
  BY <1>1, <1>2, <1>3

\* The empty queue.
LEMMA Nothing ==
    ASSUME NEW S
    PROVE  <<>> \in Seq(S) /\ Range(<<>>) = {} /\ Len(<<>>) = 0
  BY DEF Range

\* Unlinking a client from a list in which it is once.
LEMMA UnlinkedList ==
    ASSUME NEW S, NEW list \in Seq(S), NEW c \in Range(list),
           \A x \in S : x.conn \in Nat, Sorted(list)
    PROVE  /\ Unlinked(list, c) \in Seq(S)
           /\ Len(list) \in Nat \ {0} /\ Len(Unlinked(list, c)) = Len(list) - 1
           /\ Range(Unlinked(list, c)) = Range(list) \ {c}
           /\ Sorted(Unlinked(list, c))
           /\ list[Len(list)] # c => /\ Len(list) > 1
                                     /\ Unlinked(list, c)[Len(list) - 1] = list[Len(list)]
<1> DEFINE at == CHOOSE i \in DOMAIN list : list[i] = c
<1> DEFINE rest == [j \in 1..Len(list) - 1 |-> list[IF j < at THEN j ELSE j + 1]]
<1>1. at \in 1..Len(list) /\ list[at] = c /\ Len(list) \in Nat
  BY DEF Range
<1>2. Unlinked(list, c) = rest
  BY DEF Unlinked
<1> HIDE DEF at
<1>3. \A i, j \in 1..Len(list) : list[i] = list[j] => i = j
  <2> SUFFICES ASSUME NEW i \in 1..Len(list), NEW j \in 1..Len(list), i < j
               PROVE  list[i] # list[j]
    BY <1>1
  <2>1. list[i] \in S /\ list[j] \in S /\ list[i].conn > list[j].conn
    BY DEF Sorted
  <2> QED
    BY <2>1
<1>4. \A j \in 1..Len(list) - 1 : (IF j < at THEN j ELSE j + 1) \in 1..Len(list)
  BY <1>1
<1>5. rest \in Seq(S) /\ Len(rest) = Len(list) - 1
  BY <1>1, <1>4
<1>6. \A j \in 1..Len(list) - 1 :
        /\ j < at => rest[j] = list[j]
        /\ j >= at => rest[j] = list[j + 1]
  BY <1>1
<1>7. DOMAIN rest = 1..Len(list) - 1
  OBVIOUS
<1> HIDE DEF rest
<1>8. Sorted(rest)
  <2> SUFFICES ASSUME NEW i \in 1..Len(list) - 1, NEW j \in 1..Len(list) - 1, i < j
               PROVE  rest[i].conn > rest[j].conn
    BY <1>5, ZenonT(30) DEF Sorted
  <2>1. /\ i \in 1..Len(list) /\ i + 1 \in 1..Len(list)
        /\ j \in 1..Len(list) /\ j + 1 \in 1..Len(list)
    BY <1>1
  <2>2. CASE j < at
    <3>1. rest[i] = list[i] /\ rest[j] = list[j]
      BY <1>1, <1>6, <2>2
    <3> QED
      BY <2>1, <3>1 DEF Sorted
  <2>3. CASE i >= at
    <3>1. rest[i] = list[i + 1] /\ rest[j] = list[j + 1] /\ i + 1 < j + 1
      BY <1>1, <1>6, <2>3
    <3> QED
      BY <2>1, <3>1 DEF Sorted
  <2>4. CASE i < at /\ j >= at
    <3>1. rest[i] = list[i] /\ rest[j] = list[j + 1] /\ i < j + 1
      BY <1>1, <1>6, <2>4
    <3> QED
      BY <2>1, <3>1 DEF Sorted
  <2> QED
    BY <1>1, <2>2, <2>3, <2>4
<1>9. ASSUME NEW x \in Range(rest) PROVE x \in Range(list) \ {c}
  <2>1. PICK j \in 1..Len(list) - 1 : rest[j] = x
    BY <1>7 DEF Range
  <2>2. (IF j < at THEN j ELSE j + 1) \in 1..Len(list) /\ x = list[IF j < at THEN j ELSE j + 1]
    BY <1>1, <1>4, <1>6, <2>1
  <2>3. (IF j < at THEN j ELSE j + 1) # at
    BY <1>1
  <2> QED
    BY <1>1, <1>3, <2>2, <2>3 DEF Range
<1>10. ASSUME NEW x \in Range(list), x # c PROVE x \in Range(rest)
  <2>1. PICK i \in 1..Len(list) : list[i] = x
    BY DEF Range
  <2>2. i # at
    BY <1>1, <1>10, <2>1
  <2>3. CASE i < at
    <3>1. i \in 1..Len(list) - 1 /\ rest[i] = x
      BY <1>1, <1>6, <2>1, <2>3
    <3> QED
      BY <1>7, <3>1 DEF Range
  <2>4. CASE i > at
    <3>1. i - 1 \in 1..Len(list) - 1 /\ ~ (i - 1 < at)
      BY <1>1, <2>1, <2>4
    <3>2. rest[i - 1] = x
      <4>1. rest[i - 1] = list[(i - 1) + 1]
        BY <1>1, <1>6, <3>1
      <4>2. (i - 1) + 1 = i
        BY <1>1
      <4> QED
        BY <2>1, <4>1, <4>2
    <3> QED
      BY <1>7, <3>1, <3>2 DEF Range
  <2> QED
    BY <1>1, <2>2, <2>3, <2>4
<1>11. ASSUME list[Len(list)] # c
       PROVE  Len(list) > 1 /\ rest[Len(list) - 1] = list[Len(list)]
  <2>1. at < Len(list)
    BY <1>1, <1>11
  <2>2. /\ Len(list) - 1 \in 1..Len(list) - 1 /\ Len(list) - 1 >= at
        /\ (Len(list) - 1) + 1 = Len(list)
    BY <1>1, <2>1
  <2>3. rest[Len(list) - 1] = list[(Len(list) - 1) + 1]
    BY <1>6, <2>2
  <2> QED
    BY <1>1, <2>1, <2>2, <2>3
<1> QED
  BY <1>1, <1>2, <1>5, <1>8, <1>9, <1>10, <1>11

\* The fields of a message.
LEMMA HostMsgFields ==
    ASSUME NEW m \in HostMsg
    PROVE  /\ m.channel \in Channels
           /\ m.type \in {"connect", "data", "disconnect"}
           /\ m.type # "disconnect" => m.conn \in Nat \ {0}
           /\ m.type = "connect" => m.service \in Services \cup {Unknown}
  BY DEF HostMsg

\* The fields of a message to the guest.
LEMMA GuestMsgFields ==
    ASSUME NEW a \in GuestMsg
    PROVE  /\ a.channel \in Channels
           /\ a.type \in {"data", "ok", "ko", "disconnect"}
           /\ a.type = "data" => a.conn \in Nat \ {0}
  BY DEF GuestMsg

-----------------------------------------------------------------------------
(* The lists of clients.                                                   *)

\* A client other than the control client.
LEMMA HostedAreClients ==
    ASSUME TypeInv
    PROVE  /\ Hosted \subseteq Client /\ Control \notin Client
           /\ Range(clients) \subseteq Client \cup {Control}
           /\ \A s \in Services : Range(sclients[s]) \subseteq Client
<1>1. Range(clients) \subseteq Client \cup {Control}
  BY DEF TypeInv, Range
<1>2. Control \notin Client
  BY MuxAssumption DEF Control, Client
<1>3. \A s \in Services : Range(sclients[s]) \subseteq Client
  BY DEF TypeInv, Range
<1> QED
  BY <1>1, <1>2, <1>3 DEF Hosted

\* The fields of a client.
LEMMA ClientFields ==
    ASSUME NEW c \in Client \cup {Control}
    PROVE  /\ c.conn \in Nat
           /\ c # Control => /\ c \in Client /\ c.conn # 0
                             /\ c.channel \in Channels /\ c.service \in Services
           /\ c = Control => c.conn = 0 /\ c.channel = 0 /\ c.service = Unknown
  BY MuxAssumption DEF Client, Control

\* The newest client goes in front of both its lists.
LEMMA AddedClient ==
    ASSUME TypeInv, ListInv, NEW c \in Client,
           \A d \in Hosted : d.conn < c.conn, ~Busy(c.service),
           clients' = Listed(c),
           sclients' = [sclients EXCEPT ![c.service] = <<c>> \o @],
           num_clients' = [num_clients EXCEPT ![c.service] = @ + 1]
    PROVE  /\ clients' \in Seq(Client \cup {Control})
           /\ sclients' \in [Services -> Seq(Client)]
           /\ num_clients' \in [Services -> Nat]
           /\ ListInv' /\ Hosted' = Hosted \cup {c}
<1> DEFINE s == c.service
<1>1. c.conn \in Nat \ {0} /\ s \in Services /\ c # Control
  BY HostedAreClients DEF Client
<1>2. /\ clients \in Seq(Client \cup {Control}) /\ <<c>> \in Seq(Client \cup {Control})
      /\ clients' = <<c>> \o clients
  BY DEF TypeInv, Listed
<1>3. /\ clients' \in Seq(Client \cup {Control})
      /\ Range(clients') = {c} \cup Range(clients)
      /\ Len(clients) \in Nat \ {0} /\ Len(clients') = Len(clients) + 1
      /\ clients'[1] = c
      /\ \A i \in 1..Len(clients) : clients'[i + 1] = clients[i]
  <2>1. Range(<<c>>) = {c}
    BY Single
  <2>2. Len(clients) \in Nat \ {0}
    BY <1>2 DEF ListInv
  <2>3. /\ clients' \in Seq(Client \cup {Control}) /\ Len(clients') = Len(clients) + 1
        /\ clients'[1] = c
        /\ \A i \in 1..Len(clients) : clients'[i + 1] = clients[i]
    BY <1>2, <2>2
  <2>4. Range(<<c>> \o clients) = {c} \cup Range(clients)
    BY <1>2, Prepended
  <2>5. Range(clients') = {c} \cup Range(clients)
    BY <1>2, <2>4, Zenon
  <2> QED
    BY <2>2, <2>3, <2>5
<1>4. /\ sclients[s] \in Seq(Client) /\ sclients'[s] = <<c>> \o sclients[s]
      /\ \A t \in Services \ {s} : sclients'[t] = sclients[t]
      /\ sclients' \in [Services -> Seq(Client)]
  <2>1. <<c>> \in Seq(Client) /\ sclients[s] \in Seq(Client)
    BY <1>1 DEF TypeInv
  <2>2. <<c>> \o sclients[s] \in Seq(Client)
    BY <2>1
  <2> HIDE DEF s
  <2>3. sclients' = [sclients EXCEPT ![s] = <<c>> \o sclients[s]]
    BY DEF s
  <2> QED
    BY <1>1, <2>1, <2>2, <2>3 DEF TypeInv
<1>5. /\ Range(sclients'[s]) = {c} \cup Range(sclients[s])
      /\ Len(sclients[s]) \in Nat /\ Len(sclients'[s]) = Len(sclients[s]) + 1
      /\ sclients'[s][1] = c
      /\ \A i \in 1..Len(sclients[s]) : sclients'[s][i + 1] = sclients[s][i]
  <2>1. Range(<<c>>) = {c} /\ <<c>> \in Seq(Client)
    BY Single
  <2>2. /\ Len(sclients[s]) \in Nat /\ Len(sclients'[s]) = Len(sclients[s]) + 1
        /\ sclients'[s][1] = c
        /\ \A i \in 1..Len(sclients[s]) : sclients'[s][i + 1] = sclients[s][i]
    BY <1>4
  <2>3. Range(sclients'[s]) = Range(<<c>>) \cup Range(sclients[s])
    <3>1. Range(<<c>> \o sclients[s]) = {c} \cup Range(sclients[s])
      BY <1>4, Prepended
    <3> QED
      BY <1>4, <2>1, <3>1, Zenon
  <2> QED
    BY <2>1, <2>2, <2>3
<1>6. /\ num_clients'[s] = num_clients[s] + 1
      /\ \A t \in Services \ {s} : num_clients'[t] = num_clients[t]
      /\ num_clients' \in [Services -> Nat]
  BY <1>1 DEF TypeInv
<1>7. \A d \in Range(clients) : d.conn < c.conn
  BY <1>1, HostedAreClients, ClientFields DEF Hosted
<1> HIDE DEF s
<1>8. Sorted(clients')
  <2> SUFFICES ASSUME NEW i \in 1..Len(clients'), NEW j \in 1..Len(clients'), i < j
               PROVE  clients'[i].conn > clients'[j].conn
    BY DEF Sorted
  <2>1. /\ j - 1 \in 1..Len(clients) /\ clients'[j] = clients[j - 1]
        /\ clients[j - 1] \in Range(clients)
    <3>1. j - 1 \in 1..Len(clients) /\ (j - 1) + 1 = j
      BY <1>3
    <3> QED
      BY <1>2, <1>3, <3>1 DEF Range
  <2>2. CASE i = 1
    <3>1. clients[j - 1] \in Client \cup {Control}
      BY <2>1, HostedAreClients
    <3>2. clients[j - 1].conn \in Nat
      BY <3>1, ClientFields
    <3> QED
      BY <1>1, <1>3, <1>7, <2>1, <2>2, <3>2
  <2>3. CASE i > 1
    <3>1. i - 1 \in 1..Len(clients) /\ i - 1 < j - 1 /\ (i - 1) + 1 = i
      BY <1>3, <2>3
    <3>2. clients'[i] = clients[i - 1]
      BY <1>3, <3>1
    <3> QED
      BY <2>1, <3>1, <3>2 DEF ListInv, Sorted
  <2> QED
    BY <2>2, <2>3
<1>9. Sorted(sclients'[s])
  <2> SUFFICES ASSUME NEW i \in 1..Len(sclients'[s]), NEW j \in 1..Len(sclients'[s]), i < j
               PROVE  sclients'[s][i].conn > sclients'[s][j].conn
    BY DEF Sorted
  <2>1. /\ j - 1 \in 1..Len(sclients[s]) /\ sclients'[s][j] = sclients[s][j - 1]
        /\ sclients[s][j - 1] \in Range(sclients[s])
    <3>1. j - 1 \in 1..Len(sclients[s]) /\ (j - 1) + 1 = j
      BY <1>5
    <3>2. DOMAIN sclients[s] = 1..Len(sclients[s])
      BY <1>4
    <3> QED
      BY <1>5, <3>1, <3>2, ZenonT(30) DEF Range
  <2>2. CASE i = 1
    <3>1. sclients[s][j - 1] \in Range(clients) /\ sclients[s][j - 1] \in Client
      BY <1>1, <2>1, HostedAreClients DEF ListInv, s
    <3>2. sclients[s][j - 1].conn \in Nat
      BY <3>1, ClientFields
    <3> QED
      BY <1>1, <1>5, <1>7, <2>1, <2>2, <3>1, <3>2
  <2>3. CASE i > 1
    <3>1. i - 1 \in 1..Len(sclients[s]) /\ i - 1 < j - 1 /\ (i - 1) + 1 = i
      BY <1>5, <2>3
    <3>2. sclients'[s][i] = sclients[s][i - 1]
      BY <1>5, <3>1
    <3>3. Sorted(sclients[s])
      BY <1>1 DEF ListInv
    <3> QED
      BY <2>1, <3>1, <3>2, <3>3, ZenonT(30) DEF Sorted
  <2> QED
    BY <2>2, <2>3
<1>10. Len(clients') > 0 /\ clients'[Len(clients')] = Control
  BY <1>3 DEF ListInv
<1>11. ASSUME NEW t \in Services
       PROVE  /\ Sorted(sclients'[t])
              /\ Range(sclients'[t]) = {d \in Range(clients') : d.service = t}
              /\ num_clients'[t] = Len(sclients'[t])
              /\ max_clients[t] > 0 => num_clients'[t] <= max_clients[t]
  <2>1. /\ Sorted(sclients[t])
        /\ Range(sclients[t]) = {d \in Range(clients) : d.service = t}
        /\ num_clients[t] = Len(sclients[t])
        /\ max_clients[t] > 0 => num_clients[t] <= max_clients[t]
        /\ max_clients[t] \in Nat /\ num_clients[t] \in Nat
    BY MuxAssumption, ZenonT(30) DEF ListInv, TypeInv
  <2>2. CASE t # s
    BY <1>3, <1>4, <1>6, <2>1, <2>2 DEF s
  <2>3. CASE t = s
    BY <1>3, <1>5, <1>6, <1>9, <2>1, <2>3 DEF s, Busy
  <2> QED
    BY <2>2, <2>3
<1>12. ListInv'
  BY <1>8, <1>10, <1>11 DEF ListInv
<1> QED
  BY <1>1, <1>3, <1>4, <1>6, <1>12 DEF Hosted

\* A client leaves both its lists.
LEMMA RemovedClient ==
    ASSUME TypeInv, ListInv, NEW c \in Hosted, Removed(c)
    PROVE  /\ clients' \in Seq(Client \cup {Control})
           /\ sclients' \in [Services -> Seq(Client)]
           /\ num_clients' \in [Services -> Nat]
           /\ ListInv' /\ Hosted' = Hosted \ {c}
<1> DEFINE s == c.service
<1>1. c \in Client /\ c \in Range(clients) /\ c # Control /\ s \in Services
  BY HostedAreClients, ClientFields DEF Hosted
<1>2. \A d \in Client \cup {Control} : d.conn \in Nat
  BY ClientFields
<1>3. /\ clients \in Seq(Client \cup {Control}) /\ Sorted(clients)
      /\ clients[Len(clients)] = Control
      /\ clients' = Unlinked(clients, c)
  BY DEF TypeInv, ListInv, Removed
<1>4. /\ clients' \in Seq(Client \cup {Control}) /\ Len(clients) \in Nat
      /\ Len(clients) > 1 /\ Len(clients') = Len(clients) - 1
      /\ Range(clients') = Range(clients) \ {c} /\ Sorted(clients')
      /\ clients'[Len(clients) - 1] = Control
  BY <1>1, <1>2, <1>3, UnlinkedList
<1>5. /\ sclients[s] \in Seq(Client) /\ Sorted(sclients[s]) /\ c \in Range(sclients[s])
      /\ Range(sclients[s]) = {d \in Range(clients) : d.service = s}
  BY <1>1 DEF TypeInv, ListInv
<1>6. /\ Unlinked(sclients[s], c) \in Seq(Client)
      /\ Len(sclients[s]) \in Nat \ {0}
      /\ Len(Unlinked(sclients[s], c)) = Len(sclients[s]) - 1
      /\ Range(Unlinked(sclients[s], c)) = Range(sclients[s]) \ {c}
      /\ Sorted(Unlinked(sclients[s], c))
  BY <1>2, <1>5, UnlinkedList
<1> HIDE DEF s
<1>7. /\ sclients'[s] = Unlinked(sclients[s], c)
      /\ \A t \in Services \ {s} : sclients'[t] = sclients[t]
      /\ sclients' \in [Services -> Seq(Client)]
  <2>1. sclients' = [sclients EXCEPT ![s] = Unlinked(sclients[s], c)]
    BY DEF Removed, s
  <2> QED
    BY <1>1, <1>6, <2>1 DEF TypeInv
<1>8. /\ num_clients[s] = Len(sclients[s])
      /\ num_clients'[s] = num_clients[s] - 1
      /\ \A t \in Services \ {s} : num_clients'[t] = num_clients[t]
      /\ num_clients' \in [Services -> Nat]
  <2>1. num_clients' = [num_clients EXCEPT ![s] = num_clients[s] - 1]
    BY DEF Removed, CountedOut, s
  <2>2. num_clients[s] = Len(sclients[s])
    BY <1>1 DEF ListInv
  <2> QED
    BY <1>1, <1>6, <2>1, <2>2 DEF TypeInv
<1>9. ASSUME NEW t \in Services
      PROVE  /\ Sorted(sclients'[t])
             /\ Range(sclients'[t]) = {d \in Range(clients') : d.service = t}
             /\ num_clients'[t] = Len(sclients'[t])
             /\ max_clients[t] > 0 => num_clients'[t] <= max_clients[t]
  <2>1. /\ Sorted(sclients[t])
        /\ Range(sclients[t]) = {d \in Range(clients) : d.service = t}
        /\ num_clients[t] = Len(sclients[t])
        /\ max_clients[t] > 0 => num_clients[t] <= max_clients[t]
        /\ max_clients[t] \in Nat /\ num_clients[t] \in Nat
    BY MuxAssumption DEF ListInv, TypeInv
  <2>2. CASE t # s
    BY <1>4, <1>7, <1>8, <2>1, <2>2 DEF s
  <2>3. CASE t = s
    BY <1>4, <1>6, <1>7, <1>8, <2>1, <2>3 DEF s
  <2> QED
    BY <2>2, <2>3
<1>10. ListInv'
  BY <1>3, <1>4, <1>9 DEF ListInv
<1> QED
  BY <1>1, <1>4, <1>7, <1>8, <1>10 DEF Hosted

-----------------------------------------------------------------------------
(* The daemon's actions.                                                   *)

\* The members of the queues and lists have the fields of their kind.
LEMMA Members ==
    ASSUME TypeInv
    PROVE  /\ Range(toHost) \subseteq HostMsg /\ Range(toGuest) \subseteq GuestMsg
           /\ \A m \in Range(toHost) :
                /\ m.channel \in Channels
                /\ m.type \in {"connect", "data", "disconnect"}
                /\ m.type # "disconnect" => m.conn \in Nat \ {0}
                /\ m.type = "connect" => m.service \in Services \cup {Unknown}
           /\ \A a \in Range(toGuest) :
                /\ a.channel \in Channels
                /\ a.type \in {"data", "ok", "ko", "disconnect"}
                /\ a.type = "data" => a.conn \in Nat \ {0}
           /\ \A c \in Hosted : /\ c.conn \in Nat \ {0} /\ c.channel \in Channels
                                /\ c.service \in Services
<1>1. Range(toHost) \subseteq HostMsg /\ Range(toGuest) \subseteq GuestMsg
  BY DEF TypeInv, Range
<1> QED
  BY <1>1, HostMsgFields, GuestMsgFields, HostedAreClients, ClientFields

\* The start of qemud satisfies the invariant.
LEMMA InitIInv == Init => IInv
<1> SUFFICES ASSUME Init PROVE IInv
  OBVIOUS
<1>1. /\ clients = <<Control>> /\ toHost = <<>> /\ toGuest = <<>> /\ conns = 0
      /\ sclients = [s \in Services |-> <<>>] /\ num_clients = [s \in Services |-> 0]
      /\ chan = [ch \in Channels |-> Free] /\ delivered = {}
  BY DEF Init
<1>2. /\ Range(clients) = {Control} /\ Range(toHost) = {} /\ Range(toGuest) = {}
      /\ \A s \in Services : Range(sclients[s]) = {}
  BY <1>1, Single, Nothing, ZenonT(30)
<1>3. TypeInv
  BY <1>1 DEF TypeInv, Free
<1>4. ListInv
  BY <1>1, <1>2, MuxAssumption DEF ListInv, Sorted, Control
<1>5. OrderInv /\ RequestInv /\ HostInv /\ WireInv
  BY <1>1, <1>2 DEF OrderInv, HostOrder, GuestOrder, RequestInv, HostInv, WireInv,
                    ToHostInv, ToGuestInv, Hosted
<1>6. ChanInv
  BY <1>1, <1>2 DEF ChanInv, Free
<1> QED
  BY <1>1, <1>3, <1>4, <1>5, <1>6 DEF IInv, DeliveredToPeer

\* A request for a connection.
LEMMA GuestConnectIInv ==
    ASSUME IInv, NEW ch \in Channels, NEW s \in Services \cup {Unknown}, GuestConnect(ch, s)
    PROVE  IInv'
<1> DEFINE m == [type |-> "connect", channel |-> ch, service |-> s, conn |-> conns + 1]
<1>0. TypeInv /\ ListInv /\ OrderInv /\ RequestInv /\ HostInv /\ WireInv /\ ChanInv /\ DeliveredToPeer
  BY DEF IInv
<1>1. /\ conns \in Nat /\ conns' = conns + 1 /\ chan[ch] = Free
      /\ UNCHANGED <<clients, sclients, num_clients, toGuest, delivered>>
      /\ toHost' = Append(toHost, m)
      /\ chan' = [chan EXCEPT ![ch] = [state |-> "connecting", conn |-> conns + 1]]
  BY <1>0 DEF GuestConnect, host, TypeInv
<1>2. m \in HostMsg /\ m.type = "connect" /\ m.channel = ch /\ m.conn = conns + 1
  BY <1>1 DEF HostMsg
<1> HIDE DEF m
<1>3. /\ toHost' \in Seq(HostMsg) /\ Range(toHost') = Range(toHost) \cup {m}
      /\ Len(toHost) \in Nat /\ Len(toHost') = Len(toHost) + 1
      /\ toHost'[Len(toHost) + 1] = m
      /\ \A i \in 1..Len(toHost) : toHost'[i] = toHost[i] /\ toHost[i] \in Range(toHost)
  BY <1>0, <1>1, <1>2, Appended DEF TypeInv
<1>4. /\ chan'[ch] = [state |-> "connecting", conn |-> conns + 1]
      /\ chan'[ch].state = "connecting" /\ chan'[ch].conn = conns + 1
      /\ \A x \in Channels \ {ch} : chan'[x] = chan[x]
      /\ chan' \in [Channels -> [state : {"free", "connecting", "open"}, conn : Nat]]
  BY <1>0, <1>1 DEF TypeInv
<1>5. Hosted' = Hosted /\ Range(toGuest') = Range(toGuest)
  BY <1>1 DEF Hosted
<1>6. \A x \in Range(toHost) \cup Range(toGuest) : x.channel # ch
  BY DEF GuestConnect, InFlight
<1>7. \A c \in Hosted : c.channel # ch
  BY <1>0, <1>1, <1>6 DEF HostInv, Free
<1>8. TypeInv' /\ ListInv' /\ DeliveredToPeer'
  BY <1>0, <1>1, <1>3, <1>4 DEF TypeInv, ListInv, DeliveredToPeer
<1>9. OrderInv'
  BY <1>0, <1>1, <1>2, <1>3, <1>6, Members, SMTT(30) DEF OrderInv, HostOrder, GuestOrder, RequestInv
<1>10. RequestInv'
  BY <1>0, <1>1, <1>2, <1>3, <1>4, <1>5, <1>6, <1>7, Members DEF RequestInv, HostInv
<1>11. HostInv'
  BY <1>0, <1>1, <1>2, <1>3, <1>4, <1>5, <1>7, Members DEF HostInv
<1>12. WireInv'
  <2>1. ToHostInv'
    BY <1>0, <1>1, <1>2, <1>3, <1>4, <1>5, <1>6, Members DEF WireInv, ToHostInv
  <2>2. ToGuestInv'
    BY <1>0, <1>1, <1>2, <1>3, <1>4, <1>5, <1>6, Members DEF WireInv, ToGuestInv
  <2> QED
    BY <2>1, <2>2 DEF WireInv
<1>13. ChanInv'
  BY <1>0, <1>1, <1>2, <1>3, <1>4, <1>5, Members DEF ChanInv
<1> QED
  BY <1>8, <1>9, <1>10, <1>11, <1>12, <1>13 DEF IInv

\* A client of the daemon writes.
LEMMA GuestSendIInv ==
    ASSUME IInv, NEW ch \in Channels, GuestSend(ch)
    PROVE  IInv'
<1> DEFINE m == [type |-> "data", channel |-> ch, conn |-> chan[ch].conn]
<1>0. TypeInv /\ ListInv /\ OrderInv /\ RequestInv /\ HostInv /\ WireInv /\ ChanInv /\ DeliveredToPeer
  BY DEF IInv
<1>1. /\ chan[ch].state = "open"
      /\ UNCHANGED <<clients, sclients, num_clients, toGuest, chan, conns, delivered>>
      /\ toHost' = Append(toHost, m)
  BY DEF GuestSend, host
<1>2. chan[ch].conn \in Nat \ {0}
  <2>1. chan[ch].conn \in Nat
    BY <1>0 DEF TypeInv
  <2> QED
    BY <1>0, <1>1, <2>1 DEF ChanInv
<1>3. m \in HostMsg /\ m.type = "data" /\ m.channel = ch /\ m.conn = chan[ch].conn
  BY <1>2 DEF HostMsg
<1> HIDE DEF m
<1>4. /\ toHost' \in Seq(HostMsg) /\ Range(toHost') = Range(toHost) \cup {m}
      /\ Len(toHost) \in Nat /\ Len(toHost') = Len(toHost) + 1
      /\ toHost'[Len(toHost) + 1] = m
      /\ \A i \in 1..Len(toHost) : toHost'[i] = toHost[i] /\ toHost[i] \in Range(toHost)
  BY <1>0, <1>1, <1>3, Appended DEF TypeInv
<1>5. Hosted' = Hosted /\ Range(toGuest') = Range(toGuest)
  BY <1>1 DEF Hosted
<1>6. TypeInv' /\ ListInv' /\ DeliveredToPeer'
  BY <1>0, <1>1, <1>4 DEF TypeInv, ListInv, DeliveredToPeer
<1>7. OrderInv'
  BY <1>0, <1>1, <1>3, <1>4, Members DEF OrderInv, HostOrder, GuestOrder, RequestInv
<1>8. RequestInv'
  BY <1>0, <1>1, <1>3, <1>4, <1>5 DEF RequestInv
<1>9. HostInv'
  BY <1>0, <1>1, <1>3, <1>4, <1>5 DEF HostInv
<1>10. WireInv'
  <2>1. ToHostInv'
    BY <1>0, <1>1, <1>3, <1>4, <1>5 DEF WireInv, ToHostInv
  <2>2. ToGuestInv'
    BY <1>0, <1>1, <1>3, <1>4, <1>5 DEF WireInv, ToGuestInv
  <2> QED
    BY <2>1, <2>2 DEF WireInv
<1>11. ChanInv'
  BY <1>0, <1>1, <1>3, <1>4, <1>5 DEF ChanInv
<1> QED
  BY <1>6, <1>7, <1>8, <1>9, <1>10, <1>11 DEF IInv

\* A client of the daemon closes its socket.
LEMMA GuestCloseIInv ==
    ASSUME IInv, NEW ch \in Channels, GuestClose(ch)
    PROVE  IInv'
<1> DEFINE m == [type |-> "disconnect", channel |-> ch]
<1>0. TypeInv /\ ListInv /\ OrderInv /\ RequestInv /\ HostInv /\ WireInv /\ ChanInv /\ DeliveredToPeer
  BY DEF IInv
<1>1. /\ chan[ch].state = "open"
      /\ UNCHANGED <<clients, sclients, num_clients, toGuest, conns, delivered>>
      /\ toHost' = Append(toHost, m)
      /\ chan' = [chan EXCEPT ![ch] = Free]
  BY DEF GuestClose, host
<1>2. m \in HostMsg /\ m.type = "disconnect" /\ m.channel = ch
  BY DEF HostMsg
<1> HIDE DEF m
<1>3. /\ toHost' \in Seq(HostMsg) /\ Range(toHost') = Range(toHost) \cup {m}
      /\ Len(toHost) \in Nat /\ Len(toHost') = Len(toHost) + 1
      /\ toHost'[Len(toHost) + 1] = m
      /\ \A i \in 1..Len(toHost) : toHost'[i] = toHost[i] /\ toHost[i] \in Range(toHost)
  BY <1>0, <1>1, <1>2, Appended DEF TypeInv
<1>4. /\ chan'[ch].state = "free" /\ chan'[ch].conn = 0
      /\ \A x \in Channels \ {ch} : chan'[x] = chan[x]
      /\ chan' \in [Channels -> [state : {"free", "connecting", "open"}, conn : Nat]]
  BY <1>0, <1>1 DEF TypeInv, Free
<1>5. Hosted' = Hosted /\ Range(toGuest') = Range(toGuest)
  BY <1>1 DEF Hosted
<1>6. TypeInv' /\ ListInv' /\ DeliveredToPeer'
  BY <1>0, <1>1, <1>3, <1>4 DEF TypeInv, ListInv, DeliveredToPeer
<1>7. OrderInv'
  BY <1>0, <1>1, <1>2, <1>3, Members DEF OrderInv, HostOrder, GuestOrder, RequestInv
<1>8. RequestInv'
  BY <1>0, <1>1, <1>2, <1>3, <1>4, <1>5, Members DEF RequestInv
<1>9. HostInv'
  BY <1>0, <1>1, <1>2, <1>3, <1>4, <1>5, Members DEF HostInv
<1>10. WireInv'
  <2>1. ToHostInv'
    BY <1>0, <1>1, <1>2, <1>3, <1>4, <1>5, Members DEF WireInv, ToHostInv
  <2>2. ToGuestInv'
    <3>1. \A a \in Range(toGuest) : IsAnswer(a) => a.channel # ch
      BY <1>0, <1>1 DEF WireInv, ToGuestInv
    <3> QED
      BY <1>0, <1>2, <1>3, <1>4, <1>5, <3>1, Members, SMTT(30) DEF WireInv, ToGuestInv, IsAnswer
  <2> QED
    BY <2>1, <2>2 DEF WireInv
<1>11. ChanInv'
  BY <1>0, <1>1, <1>2, <1>3, <1>4, <1>5, Members DEF ChanInv
<1> QED
  BY <1>6, <1>7, <1>8, <1>9, <1>10, <1>11 DEF IInv

\* The daemon takes the first message sent to it.
LEMMA GuestReceiveIInv == IInv /\ GuestReceive => IInv'
<1> SUFFICES ASSUME IInv, GuestReceive PROVE IInv'
  OBVIOUS
<1> DEFINE m == Head(toGuest)
<1> DEFINE ch == m.channel
<1>0. TypeInv /\ ListInv /\ OrderInv /\ RequestInv /\ HostInv /\ WireInv /\ ChanInv /\ DeliveredToPeer
  BY DEF IInv
<1>1. /\ toGuest # <<>> /\ toGuest' = Tail(toGuest)
      /\ UNCHANGED <<clients, sclients, num_clients, toHost, conns>>
  BY DEF GuestReceive, host
<1>2. /\ toGuest' \in Seq(GuestMsg) /\ m \in Range(toGuest)
      /\ Range(toGuest) = Range(toGuest') \cup {m}
      /\ Len(toGuest) \in Nat \ {0} /\ Len(toGuest') = Len(toGuest) - 1
      /\ m = toGuest[1]
      /\ \A i \in 1..Len(toGuest') :
           i + 1 \in 1..Len(toGuest) /\ toGuest'[i] = toGuest[i + 1]
  BY <1>0, <1>1, Taken DEF TypeInv
<1>3. chan' = [chan EXCEPT ![ch] =
                 CASE m.type = "ok" /\ chan[ch].state = "connecting" ->
                        [chan[ch] EXCEPT !.state = "open"]
                   [] m.type \in {"ko", "disconnect"} -> Free
                   [] OTHER -> chan[ch]]
  BY DEF GuestReceive
<1>4. delivered' = IF m.type = "data" /\ chan[ch] # Free
                   THEN delivered \cup {<<m.conn, chan[ch].conn>>} ELSE delivered
  BY DEF GuestReceive
<1> HIDE DEF m
<1>5. ch \in Channels /\ m.type \in {"data", "ok", "ko", "disconnect"}
  BY <1>0, <1>2, Members
<1> HIDE DEF ch
<1>6. /\ \A x \in Channels \ {ch} : chan'[x] = chan[x]
      /\ m.type = "ok" => chan'[ch].state = "open" /\ chan'[ch].conn = chan[ch].conn
      /\ m.type \in {"ko", "disconnect"} => chan'[ch].state = "free" /\ chan'[ch].conn = 0
      /\ m.type = "data" => chan'[ch] = chan[ch]
      /\ chan' \in [Channels -> [state : {"free", "connecting", "open"}, conn : Nat]]
  <2>1. m.type = "ok" => chan[ch].state = "connecting"
    BY <1>0, <1>2 DEF WireInv, ToGuestInv, IsAnswer, ch
  <2>2. chan[ch] \in [state : {"free", "connecting", "open"}, conn : Nat]
    BY <1>0, <1>5 DEF TypeInv
  <2>3. CASE m.type = "ok"
    BY <1>0, <1>3, <1>5, <2>1, <2>2, <2>3, ZenonT(30) DEF TypeInv
  <2>4. CASE m.type \in {"ko", "disconnect"}
    BY <1>0, <1>3, <1>5, <2>2, <2>4 DEF TypeInv, Free
  <2>5. CASE m.type = "data"
    BY <1>0, <1>3, <1>5, <2>2, <2>5 DEF TypeInv
  <2> QED
    BY <1>5, <2>3, <2>4, <2>5
<1>7. Hosted' = Hosted /\ Range(toHost') = Range(toHost)
  BY <1>1 DEF Hosted
<1>8. GuestOrder' /\ (IsAnswer(m) => \A a \in Range(toGuest') : IsAnswer(a) => a.channel # ch)
  <2>1. GuestOrder'
    BY <1>0, <1>2 DEF OrderInv, GuestOrder
  <2>2. ASSUME IsAnswer(m), NEW a \in Range(toGuest'), IsAnswer(a) PROVE a.channel # ch
    <3>1. PICK i \in 1..Len(toGuest') : toGuest'[i] = a
      BY <1>2 DEF Range
    <3>2. i + 1 \in 1..Len(toGuest) /\ toGuest[i + 1] = a /\ 1 \in 1..Len(toGuest) /\ i + 1 # 1
      BY <1>2, <3>1
    <3> QED
      BY <1>0, <1>2, <2>2, <3>2 DEF OrderInv, GuestOrder, ch
  <2> QED
    BY <2>1, <2>2
<1>9. TypeInv' /\ ListInv' /\ OrderInv'
  BY <1>0, <1>1, <1>2, <1>6, <1>8 DEF TypeInv, ListInv, OrderInv, HostOrder
<1>10. DeliveredToPeer'
  <2>1. m.type = "data" /\ chan[ch] # Free => m.conn = chan[ch].conn
    BY <1>0, <1>2, <1>5 DEF WireInv, ToGuestInv, ChanInv, TypeInv, Free, ch
  <2> QED
    BY <1>0, <1>4, <2>1 DEF DeliveredToPeer
<1>11. RequestInv'
  BY <1>0, <1>1, <1>2, <1>5, <1>6, <1>7, Members DEF RequestInv, ch
<1>12. HostInv'
  <2> SUFFICES ASSUME NEW c \in Hosted
               PROVE  \/ chan'[c.channel].state = "open" /\ chan'[c.channel].conn = c.conn
                      \/ /\ chan'[c.channel].state = "connecting"
                         /\ chan'[c.channel].conn = c.conn
                         /\ \E a \in Range(toGuest') : a.type = "ok" /\ a.channel = c.channel
                      \/ /\ chan'[c.channel].state = "free"
                         /\ \E x \in Range(toHost') :
                               x.type = "disconnect" /\ x.channel = c.channel
    BY <1>0, <1>1, <1>2, <1>7 DEF HostInv
  <2>1. CASE c.channel # ch
    BY <1>0, <1>2, <1>6, <1>7, <2>1, Members DEF HostInv, ch
  <2>2. CASE c.channel = ch
    <3>1. m.type = "data" \/ m.type = "ok"
      BY <1>0, <1>2, <1>5, <2>2 DEF HostInv, ch
    <3>2. m.type = "data" => chan'[ch] = chan[ch] /\ m.type # "ok"
      BY <1>6
    <3>3. m.type = "ok" => chan[ch].state = "connecting"
      BY <1>0, <1>2 DEF WireInv, ToGuestInv, IsAnswer, ch
    <3> QED
      BY <1>0, <1>2, <1>5, <1>6, <1>7, <2>2, <3>1, <3>2, <3>3 DEF HostInv
  <2> QED
    BY <2>1, <2>2
<1>13. WireInv'
  <2>1. ToHostInv'
    BY <1>0, <1>1, <1>2, <1>5, <1>6, <1>7, <1>8, Members DEF WireInv, ToHostInv, IsAnswer, ch, ToGuestInv
  <2>2. ToGuestInv'
    BY <1>0, <1>1, <1>2, <1>5, <1>6, <1>7, <1>8, Members, SMTT(30) DEF HostInv, WireInv, ToGuestInv, IsAnswer, ch
  <2> QED
    BY <2>1, <2>2 DEF WireInv
<1>14. ChanInv'
  <2> SUFFICES ASSUME NEW x \in Channels
               PROVE  /\ chan'[x].state = "free" <=> chan'[x].conn = 0
                      /\ chan'[x].state = "connecting" =>
                           \/ \E h \in Range(toHost') : h.type = "connect" /\ h.channel = x
                           \/ \E a \in Range(toGuest') : IsAnswer(a) /\ a.channel = x
                      /\ chan'[x].state = "open" =>
                           \/ \E c \in Hosted' : c.channel = x /\ c.conn = chan'[x].conn
                           \/ \E a \in Range(toGuest') : a.type = "disconnect" /\ a.channel = x
    BY DEF ChanInv
  <2>1. CASE x # ch
    BY <1>0, <1>2, <1>6, <1>7, <2>1, Members DEF ChanInv, ch
  <2>2. CASE x = ch /\ m.type = "data"
    BY <1>0, <1>2, <1>5, <1>6, <1>7, <2>2 DEF ChanInv, IsAnswer, ch
  <2>3. CASE x = ch /\ m.type \in {"ko", "disconnect"}
    BY <1>6, <2>3
  <2>4. CASE x = ch /\ m.type = "ok"
    <3>1. /\ chan[ch].state = "connecting"
          /\ \E c \in Hosted : c.channel = ch /\ c.conn = chan[ch].conn
      BY <1>0, <1>2, <2>4 DEF WireInv, ToGuestInv, IsAnswer, ch
    <3>2. chan[ch].conn # 0
      BY <1>0, <1>5, <3>1 DEF ChanInv
    <3> QED
      BY <1>6, <1>7, <2>4, <3>1, <3>2
  <2> QED
    BY <1>5, <2>1, <2>2, <2>3, <2>4
<1> QED
  BY <1>9, <1>10, <1>11, <1>12, <1>13, <1>14 DEF IInv

=============================================================================
