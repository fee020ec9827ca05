---------------------------- MODULE QemudProofs ----------------------------
(***************************************************************************)
(* Proofs about the qemud multiplexer (QemudMux): the steps of the         *)
(* emulator keep the invariant of QemudInvariant, and what follows from it.*)
(***************************************************************************)
EXTENDS QemudInvariant

-----------------------------------------------------------------------------
(* The emulator's actions.                                                 *)

\* What is left on the line when the emulator takes the first message.
LEMMA HostTakes ==
    ASSUME TypeInv, OrderInv, toHost # <<>>, toHost' = Tail(toHost)
    PROVE  /\ toHost' \in Seq(HostMsg) /\ Head(toHost) \in Range(toHost)
           /\ Head(toHost) \in HostMsg
           /\ Range(toHost) = Range(toHost') \cup {Head(toHost)}
           /\ HostOrder'
           /\ Head(toHost).type = "connect" =>
                \A x \in Range(toHost') :
                   /\ x.channel # Head(toHost).channel
                   /\ x.type = "connect" => Head(toHost).conn < x.conn
<1> DEFINE m == Head(toHost)
<1>1. /\ toHost' \in Seq(HostMsg) /\ m \in Range(toHost) /\ m \in HostMsg
      /\ Range(toHost) = Range(toHost') \cup {m}
      /\ Len(toHost) \in Nat \ {0} /\ Len(toHost') = Len(toHost) - 1
      /\ m = toHost[1]
      /\ \A i \in 1..Len(toHost') :
           i + 1 \in 1..Len(toHost) /\ toHost'[i] = toHost[i + 1]
  BY Taken DEF TypeInv
<1> HIDE DEF m
<1>2. HostOrder'
  BY <1>1 DEF OrderInv, HostOrder
<1>3. ASSUME m.type = "connect", NEW x \in Range(toHost')
      PROVE  x.channel # m.channel /\ (x.type = "connect" => m.conn < x.conn)
  <2>1. PICK i \in 1..Len(toHost') : toHost'[i] = x
    BY <1>1 DEF Range
  <2>2. i + 1 \in 1..Len(toHost) /\ toHost[i + 1] = x /\ 1 \in 1..Len(toHost) /\ 1 < i + 1
    BY <1>1, <2>1
  <2>3. 1 # i + 1
    BY <2>2
  <2> QED
    BY <1>1, <1>3, <2>2, <2>3 DEF OrderInv, HostOrder
<1> QED
  BY <1>1, <1>2, <1>3 DEF m

\* What the emulator's answers add to the line.
LEMMA Answers ==
    ASSUME TypeInv, OrderInv, NEW ms \in Seq(GuestMsg), toGuest' = toGuest \o ms,
           \A i \in 1..Len(ms) : IsAnswer(ms[i]) =>
              /\ Len(ms) = 1
              /\ \A a \in Range(toGuest) : a.channel # ms[i].channel
    PROVE  /\ toGuest' \in Seq(GuestMsg) /\ Range(toGuest') = Range(toGuest) \cup Range(ms)
           /\ GuestOrder'
<1>1. /\ toGuest \in Seq(GuestMsg)
      /\ toGuest' \in Seq(GuestMsg) /\ Range(toGuest') = Range(toGuest) \cup Range(ms)
      /\ Len(toGuest) \in Nat /\ Len(ms) \in Nat /\ Len(toGuest') = Len(toGuest) + Len(ms)
      /\ \A i \in 1..Len(toGuest') :
           IF i <= Len(toGuest) THEN toGuest'[i] = toGuest[i]
           ELSE i - Len(toGuest) \in 1..Len(ms) /\ toGuest'[i] = ms[i - Len(toGuest)]
  BY Joined DEF TypeInv
<1>2. ASSUME NEW i \in 1..Len(toGuest'), NEW j \in 1..Len(toGuest'), i < j,
             IsAnswer(toGuest'[i]), IsAnswer(toGuest'[j])
      PROVE  toGuest'[i].channel # toGuest'[j].channel
  <2>1. CASE j <= Len(toGuest)
    <3>1. /\ i \in 1..Len(toGuest) /\ j \in 1..Len(toGuest) /\ i # j
          /\ toGuest'[i] = toGuest[i] /\ toGuest'[j] = toGuest[j]
      BY <1>1, <1>2, <2>1
    <3> QED
      BY <1>2, <3>1 DEF OrderInv, GuestOrder
  <2>2. CASE j > Len(toGuest)
    <3>1. j - Len(toGuest) \in 1..Len(ms) /\ toGuest'[j] = ms[j - Len(toGuest)]
      BY <1>1, <2>2
    <3>2. /\ Len(ms) = 1
          /\ \A a \in Range(toGuest) : a.channel # toGuest'[j].channel
      BY <1>2, <3>1
    <3>3. i \in 1..Len(toGuest) /\ toGuest'[i] = toGuest[i]
      BY <1>1, <1>2, <3>1, <3>2
    <3>4. toGuest[i] \in Range(toGuest)
      BY <1>1, <3>3 DEF Range
    <3> QED
      BY <3>2, <3>3, <3>4
  <2> QED
    BY <1>1, <2>1, <2>2
<1>3. GuestOrder'
  <2> SUFFICES ASSUME NEW i \in 1..Len(toGuest'), NEW j \in 1..Len(toGuest'), i # j,
                      IsAnswer(toGuest'[i]), IsAnswer(toGuest'[j])
               PROVE  toGuest'[i].channel # toGuest'[j].channel
    BY SMTT(30) DEF GuestOrder, IsAnswer
  <2>1. CASE i < j
    BY <1>2, <2>1, ZenonT(30)
  <2>2. CASE j < i
    BY <1>2, <2>2, ZenonT(30)
  <2> QED
    BY <2>1, <2>2
<1> QED
  BY <1>1, <1>3

\* Looking for a client by its channel.
LEMMA Found ==
    ASSUME TypeInv, ListInv, HostInv, NEW ch \in Channels
    PROVE  /\ Find(ch) # 0 => clients[Find(ch)] \in Hosted /\ clients[Find(ch)].channel = ch
           /\ Find(ch) = 0 => \A c \in Hosted : c.channel # ch
<1>0. clients \in Seq(Client \cup {Control}) /\ Len(clients) \in Nat /\ ch \in Nat \ {0}
  BY MuxAssumption DEF TypeInv
<1>1. CASE \E i \in DOMAIN clients : clients[i].channel = ch
  <2>1. PICK i \in 1..Len(clients) : clients[i].channel = ch
    BY <1>0, <1>1
  <2>2. \E k \in DOMAIN clients : /\ clients[k].channel = ch
                                  /\ \A j \in 1..k - 1 : clients[j].channel # ch
    <3>1. ASSUME NEW j \in 1..i - 1, clients[j].channel = ch PROVE FALSE
      <4>1. j \in 1..Len(clients) /\ j < i
        BY <1>0
      <4>2. /\ clients[i] \in Client \cup {Control} /\ clients[j] \in Client \cup {Control}
            /\ clients[i] # Control /\ clients[j] # Control
        BY <1>0, <2>1, <3>1, <4>1 DEF Control
      <4>3. clients[i] \in Hosted /\ clients[j] \in Hosted
        BY <1>0, <2>1, <4>1, <4>2 DEF Hosted, Range
      <4>4. clients[j] = clients[i]
        BY <2>1, <3>1, <4>3 DEF HostInv
      <4>5. clients[j].conn > clients[i].conn /\ clients[i].conn \in Nat
        BY <2>1, <4>1, <4>2, ClientFields DEF ListInv, Sorted
      <4> QED
        BY <4>4, <4>5
    <3> QED
      BY <1>0, <2>1, <3>1
  <2>3. Find(ch) \in DOMAIN clients /\ clients[Find(ch)].channel = ch
    BY <1>1, <2>2 DEF Find
  <2>4. clients[Find(ch)] \in Range(clients) /\ clients[Find(ch)] # Control
    BY <1>0, <2>3 DEF Range, Control
  <2>5. Find(ch) # 0
    BY <1>0, <2>3
  <2> QED
    BY <2>3, <2>4, <2>5 DEF Hosted
<1>2. CASE ~ \E i \in DOMAIN clients : clients[i].channel = ch
  <2>1. Find(ch) = 0
    BY <1>2 DEF Find
  <2>2. \A c \in Hosted : c.channel # ch
    BY <1>0, <1>2 DEF Hosted, Range
  <2> QED
    BY <2>1, <2>2
<1> QED
  BY <1>1, <1>2

\* A request is refused.
LEMMA RefusedIInv ==
    ASSUME IInv, Next1("connect"), Answer(Refusal(Head(toHost).channel)),
           UNCHANGED <<host, chan, conns, delivered>>
    PROVE  IInv'
<1> DEFINE m == Head(toHost)
<1> DEFINE a == [type |-> "ko", channel |-> m.channel]
<1>0. TypeInv /\ ListInv /\ OrderInv /\ RequestInv /\ HostInv /\ WireInv /\ ChanInv /\ DeliveredToPeer
  BY DEF IInv
<1>1. /\ toHost # <<>> /\ m.type = "connect" /\ toHost' = Tail(toHost)
      /\ toGuest' = toGuest \o <<a>>
      /\ UNCHANGED <<clients, sclients, num_clients, chan, conns, delivered>>
  BY DEF Next1, Answer, Refusal, host
<1>2. /\ toHost' \in Seq(HostMsg) /\ m \in Range(toHost) /\ m.channel \in Channels
      /\ Range(toHost) = Range(toHost') \cup {m} /\ HostOrder'
      /\ \A x \in Range(toHost') : x.channel # m.channel
  BY <1>0, <1>1, HostTakes, Members
<1> HIDE DEF m
<1>3. a \in GuestMsg /\ a.type = "ko" /\ a.channel = m.channel /\ IsAnswer(a)
  BY <1>2 DEF GuestMsg, IsAnswer
<1> HIDE DEF a
<1>4. /\ toGuest' \in Seq(GuestMsg) /\ Range(toGuest') = Range(toGuest) \cup {a}
      /\ GuestOrder'
  <2> DEFINE ms == <<a>>
  <2>1. /\ ms \in Seq(GuestMsg) /\ Range(ms) = {a} /\ Len(ms) = 1
        /\ \A i \in 1..Len(ms) : ms[i] = a
    BY <1>3, Single
  <2>2. \A x \in Range(toGuest) : x.channel # a.channel
    BY <1>0, <1>1, <1>2, <1>3 DEF RequestInv
  <2>3. toGuest' = toGuest \o ms
    BY <1>1
  <2> HIDE DEF ms
  <2>4. Range(toGuest') = Range(toGuest) \cup Range(ms) /\ toGuest' \in Seq(GuestMsg) /\ GuestOrder'
    BY <1>0, <2>1, <2>2, <2>3, Answers
  <2> QED
    BY <2>1, <2>4
<1>5. Hosted' = Hosted
  BY <1>1 DEF Hosted
<1>6. \A c \in Hosted : c.channel # m.channel
  BY <1>0, <1>1, <1>2 DEF RequestInv
<1>7. chan[m.channel].state = "connecting"
  BY <1>0, <1>1, <1>2 DEF RequestInv
<1>8. TypeInv' /\ ListInv' /\ OrderInv' /\ DeliveredToPeer'
  BY <1>0, <1>1, <1>2, <1>4 DEF TypeInv, ListInv, OrderInv, DeliveredToPeer
<1>9. RequestInv'
  BY <1>0, <1>1, <1>2, <1>3, <1>4, <1>5, SMTT(30) DEF RequestInv
<1>10. HostInv'
  BY <1>0, <1>1, <1>2, <1>3, <1>4, <1>5, <1>6 DEF HostInv
<1>11. WireInv'
  <2>1. ToHostInv'
    BY <1>0, <1>1, <1>2 DEF WireInv, ToHostInv
  <2>2. ToGuestInv'
    <3>1. /\ a.type # "data" /\ a.type # "disconnect" /\ a.type # "ok"
          /\ \A x \in Range(toHost') : x.channel # a.channel
      BY <1>2, <1>3
    <3>2. \A x \in Range(toHost') : x \in Range(toHost)
      BY <1>2
    <3> QED
      BY <1>0, <1>1, <1>3, <1>4, <1>5, <1>7, <3>1, <3>2 DEF WireInv, ToGuestInv
  <2> QED
    BY <2>1, <2>2 DEF WireInv
<1>12. ChanInv'
  BY <1>0, <1>1, <1>2, <1>3, <1>4, <1>5 DEF ChanInv
<1> QED
  BY <1>8, <1>9, <1>10, <1>11, <1>12 DEF IInv

\* A request is granted.
LEMMA GrantedIInv ==
    ASSUME IInv, Next1("connect"), Head(toHost).service \in Services,
           ~Busy(Head(toHost).service),
           NEW c, c = [conn |-> Head(toHost).conn, channel |-> Head(toHost).channel,
                       service |-> Head(toHost).service],
           clients' = Listed(c),
           sclients' = [sclients EXCEPT ![c.service] = <<c>> \o @],
           num_clients' = [num_clients EXCEPT ![c.service] = @ + 1],
           Answer(<<[type |-> "ok", channel |-> Head(toHost).channel]>>),
           UNCHANGED <<chan, conns, delivered>>
    PROVE  IInv'
<1> DEFINE m == Head(toHost)
<1> DEFINE a == [type |-> "ok", channel |-> m.channel]
<1>0. TypeInv /\ ListInv /\ OrderInv /\ RequestInv /\ HostInv /\ WireInv /\ ChanInv /\ DeliveredToPeer
  BY DEF IInv
<1>1. /\ toHost # <<>> /\ m.type = "connect" /\ toHost' = Tail(toHost)
      /\ toGuest' = toGuest \o <<a>>
  BY DEF Next1, Answer
<1>2. /\ toHost' \in Seq(HostMsg) /\ m \in Range(toHost)
      /\ m.channel \in Channels /\ m.conn \in Nat \ {0}
      /\ Range(toHost) = Range(toHost') \cup {m} /\ HostOrder'
      /\ \A x \in Range(toHost') : /\ x.channel # m.channel
                                   /\ x.type = "connect" => m.conn < x.conn
  BY <1>0, <1>1, HostTakes, Members
<1>3. a \in GuestMsg /\ a.type = "ok" /\ a.channel = m.channel /\ IsAnswer(a)
  BY <1>2 DEF GuestMsg, IsAnswer
<1>4. /\ c \in Client /\ c.conn = m.conn /\ c.channel = m.channel
      /\ c.service = m.service
  BY <1>2 DEF Client
<1>5. ~Busy(c.service)
  BY <1>4
<1> HIDE DEF m
<1> HIDE DEF a
<1>6. /\ toGuest' \in Seq(GuestMsg) /\ Range(toGuest') = Range(toGuest) \cup {a}
      /\ GuestOrder'
  <2> DEFINE ms == <<a>>
  <2>1. /\ ms \in Seq(GuestMsg) /\ Range(ms) = {a} /\ Len(ms) = 1
        /\ \A i \in 1..Len(ms) : ms[i] = a
    BY <1>3, Single
  <2>2. \A x \in Range(toGuest) : x.channel # a.channel
    BY <1>0, <1>1, <1>2, <1>3 DEF RequestInv
  <2>3. toGuest' = toGuest \o ms
    BY <1>1
  <2> HIDE DEF ms
  <2>4. Range(toGuest') = Range(toGuest) \cup Range(ms) /\ toGuest' \in Seq(GuestMsg) /\ GuestOrder'
    BY <1>0, <2>1, <2>2, <2>3, Answers, ZenonT(30)
  <2> QED
    BY <2>1, <2>4
<1>7. /\ \A d \in Hosted : d.conn < c.conn /\ d.channel # c.channel
      /\ \A x \in Range(toGuest) : x.channel # c.channel
      /\ chan[c.channel].state = "connecting" /\ chan[c.channel].conn = c.conn
      /\ c.conn <= conns
  BY <1>0, <1>1, <1>2, <1>4 DEF RequestInv
<1>8. /\ clients' \in Seq(Client \cup {Control})
      /\ sclients' \in [Services -> Seq(Client)]
      /\ num_clients' \in [Services -> Nat]
      /\ ListInv' /\ Hosted' = Hosted \cup {c}
  BY <1>0, <1>4, <1>5, <1>7, AddedClient, ZenonT(30)
<1>9. TypeInv' /\ OrderInv' /\ DeliveredToPeer'
  BY <1>0, <1>2, <1>6, <1>8, SMTT(30) DEF TypeInv, OrderInv, DeliveredToPeer
<1>10. RequestInv'
  BY <1>0, <1>2, <1>3, <1>4, <1>6, <1>8, SMTT(30) DEF RequestInv
<1>11. HostInv'
  <2>1. ASSUME NEW d \in Hosted
        PROVE  /\ d.conn <= conns /\ \A e \in Hosted' : e.channel = d.channel => e = d
               /\ \/ chan[d.channel].state = "open" /\ chan[d.channel].conn = d.conn
                  \/ /\ chan[d.channel].state = "connecting" /\ chan[d.channel].conn = d.conn
                     /\ \E x \in Range(toGuest') : x.type = "ok" /\ x.channel = d.channel
                  \/ /\ chan[d.channel].state = "free"
                     /\ \E x \in Range(toHost') : x.type = "disconnect" /\ x.channel = d.channel
               /\ \A x \in Range(toGuest') :
                    x.channel = d.channel => x.type # "ko" /\ x.type # "disconnect"
               /\ \A x \in Range(toHost') :
                    x.channel = d.channel /\ x.type = "data" => x.conn = d.conn
    <3>1. /\ d.channel # c.channel /\ d.channel # a.channel
          /\ Range(toGuest) \subseteq Range(toGuest') /\ Range(toHost') \subseteq Range(toHost)
          /\ m.type # "disconnect"
      BY <1>1, <1>2, <1>3, <1>4, <1>6, <1>7, ZenonT(30)
    <3>2. /\ d.conn <= conns /\ \A e \in Hosted' : e.channel = d.channel => e = d
      BY <1>0, <1>8, <3>1, SMTT(30) DEF HostInv
    <3>3. /\ \A x \in Range(toGuest') :
               x.channel = d.channel => x.type # "ko" /\ x.type # "disconnect"
          /\ \A x \in Range(toHost') :
               x.channel = d.channel /\ x.type = "data" => x.conn = d.conn
      BY <1>0, <1>6, <3>1 DEF HostInv
    <3>4. \A x \in Range(toHost) : x.type = "disconnect" => x \in Range(toHost')
      BY <1>2, <3>1, SMTT(30)
    <3> QED
      BY <1>0, <3>1, <3>2, <3>3, <3>4, SMTT(30) DEF HostInv
  <2>2. /\ c.conn <= conns /\ \A e \in Hosted' : e.channel = c.channel => e = c
        /\ chan[c.channel].state = "connecting" /\ chan[c.channel].conn = c.conn
        /\ \E x \in Range(toGuest') : x.type = "ok" /\ x.channel = c.channel
        /\ \A x \in Range(toGuest') :
             x.channel = c.channel => x.type # "ko" /\ x.type # "disconnect"
        /\ \A x \in Range(toHost') :
             x.channel = c.channel /\ x.type = "data" => x.conn = c.conn
    BY <1>2, <1>3, <1>4, <1>6, <1>7, <1>8
  <2> QED
    BY <1>8, <2>1, <2>2, SMTT(30) DEF HostInv
<1>12. WireInv'
  <2>1. ToHostInv'
    BY <1>0, <1>2, SMTT(30) DEF WireInv, ToHostInv
  <2>2. ToGuestInv'
    <3>1. /\ a.type # "data" /\ a.type # "disconnect" /\ c \in Hosted'
          /\ \A x \in Range(toHost') : x.channel # a.channel
          /\ chan[a.channel].state = "connecting"
          /\ c.channel = a.channel /\ c.conn = chan[a.channel].conn
      BY <1>2, <1>3, <1>4, <1>7, <1>8
    <3>2. Range(toHost') \subseteq Range(toHost) /\ Hosted \subseteq Hosted'
      BY <1>2, <1>8, SMTT(30)
    <3> QED
      BY <1>0, <1>6, <3>1, <3>2, SMTT(30) DEF WireInv, ToGuestInv
  <2> QED
    BY <2>1, <2>2 DEF WireInv
<1>13. ChanInv'
  <2>1. /\ Range(toGuest) \subseteq Range(toGuest') /\ Hosted \subseteq Hosted'
        /\ a \in Range(toGuest')
        /\ \A x \in Range(toHost) : x.channel # m.channel => x \in Range(toHost')
    BY <1>2, <1>6, <1>8
  <2> QED
    BY <1>0, <1>3, <2>1, SMTT(30) DEF ChanInv
<1> QED
  BY <1>8, <1>9, <1>10, <1>11, <1>12, <1>13 DEF IInv

\* A request, accepted or refused, keeps the invariant.
LEMMA ControlConnectIInv == IInv /\ ControlConnect => IInv'
<1> SUFFICES ASSUME IInv, ControlConnect PROVE IInv'
  OBVIOUS
<1>1. CASE Head(toHost).service = Unknown \/ Busy(Head(toHost).service)
  BY <1>1, RefusedIInv, SMTT(30) DEF ControlConnect
<1>2. CASE ~ (Head(toHost).service = Unknown \/ Busy(Head(toHost).service))
  <2>1. Next1("connect") /\ Head(toHost) \in Range(toHost)
    BY Taken DEF IInv, TypeInv, ControlConnect, Next1
  <2>2. Head(toHost).service \in Services
    BY <1>2, <2>1, Members DEF IInv, Next1
  <2> DEFINE c == [conn |-> Head(toHost).conn, channel |-> Head(toHost).channel,
                   service |-> Head(toHost).service]
  <2>3. /\ clients' = Listed(c)
        /\ sclients' = [sclients EXCEPT ![c.service] = <<c>> \o @]
        /\ num_clients' = [num_clients EXCEPT ![c.service] = @ + 1]
        /\ Answer(<<[type |-> "ok", channel |-> Head(toHost).channel]>>)
        /\ UNCHANGED <<chan, conns, delivered>>
    BY <1>2 DEF ControlConnect
  <2> QED
    BY <1>2, <2>1, <2>2, <2>3, GrantedIInv, ZenonT(30)
<1> QED
  BY <1>1, <1>2

\* A message that changes no list is taken.
LEMMA PassedIInv ==
    ASSUME IInv, toHost # <<>>, Head(toHost).type # "connect",
           Head(toHost).type = "disconnect" =>
              \A c \in Hosted : c.channel # Head(toHost).channel,
           Answer(<<>>), UNCHANGED <<host, chan, conns>>, DeliveredToPeer'
    PROVE  IInv'
<1> DEFINE m == Head(toHost)
<1>0. TypeInv /\ ListInv /\ OrderInv /\ RequestInv /\ HostInv /\ WireInv /\ ChanInv
  BY DEF IInv
<1>1. /\ toHost' = Tail(toHost) /\ toGuest' = toGuest
      /\ UNCHANGED <<clients, sclients, num_clients, chan, conns>>
  BY <1>0 DEF Answer, host, TypeInv
<1>2. /\ toHost' \in Seq(HostMsg) /\ m \in Range(toHost) /\ m.type # "connect"
      /\ m.type = "disconnect" => \A c \in Hosted : c.channel # m.channel
      /\ Range(toHost) = Range(toHost') \cup {m} /\ HostOrder'
  BY <1>0, <1>1, HostTakes
<1> HIDE DEF m
<1>3. Hosted' = Hosted /\ Range(toGuest') = Range(toGuest)
  BY <1>1 DEF Hosted
<1>4. TypeInv' /\ ListInv' /\ OrderInv'
  BY <1>0, <1>1, <1>2 DEF TypeInv, ListInv, OrderInv, GuestOrder
<1>5. RequestInv'
  BY <1>0, <1>1, <1>2, <1>3 DEF RequestInv
<1>6. HostInv'
  BY <1>0, <1>1, <1>2, <1>3 DEF HostInv
<1>7. WireInv'
  BY <1>0, <1>1, <1>2, <1>3, SMTT(30) DEF WireInv, ToHostInv, ToGuestInv
<1>8. ChanInv'
  BY <1>0, <1>1, <1>2, <1>3, SMTT(30) DEF ChanInv
<1> QED
  BY <1>4, <1>5, <1>6, <1>7, <1>8 DEF IInv

\* A client goes, because the daemon says so or because its service closes it
\* and says so.
LEMMA GoneIInv ==
    ASSUME IInv, toHost # <<>>, NEW c \in Hosted, Head(toHost).channel = c.channel,
           Removed(c), UNCHANGED <<chan, conns>>, DeliveredToPeer',
           \/ Head(toHost).type = "disconnect" /\ Answer(<<>>)
           \/ Head(toHost).type = "data" /\ Answer(LastWords(c))
    PROVE  IInv'
<1> DEFINE m == Head(toHost)
<1> DEFINE a == [type |-> "data", channel |-> c.channel, conn |-> c.conn]
<1> DEFINE b == [type |-> "disconnect", channel |-> c.channel]
<1>0. TypeInv /\ ListInv /\ OrderInv /\ RequestInv /\ HostInv /\ WireInv /\ ChanInv
  BY DEF IInv
<1>1. toHost' = Tail(toHost)
  BY DEF Answer
<1>2. /\ toHost' \in Seq(HostMsg) /\ m \in Range(toHost)
      /\ m.type = "disconnect" \/ m.type = "data"
      /\ m.channel = c.channel
      /\ Range(toHost) = Range(toHost') \cup {m} /\ HostOrder'
  BY <1>0, <1>1, HostTakes
<1>3. c.channel \in Channels /\ c.conn \in Nat \ {0}
  BY <1>0, Members
<1>4. /\ a \in GuestMsg /\ a.type = "data" /\ a.channel = c.channel /\ a.conn = c.conn
      /\ b \in GuestMsg /\ b.type = "disconnect" /\ b.channel = c.channel
  BY <1>3 DEF GuestMsg
<1>5. \/ m.type = "disconnect" /\ toGuest' = toGuest
      \/ m.type = "data" /\ toGuest' = toGuest \o <<a, b>>
  <2>1. toGuest \o <<>> = toGuest
    BY <1>0 DEF TypeInv
  <2>2. LastWords(c) = <<a, b>>
    BY DEF LastWords
  <2>3. CASE m.type = "disconnect" /\ Answer(<<>>)
    BY <2>1, <2>3 DEF Answer
  <2>4. CASE m.type = "data" /\ Answer(LastWords(c))
    BY <2>2, <2>4, Zenon DEF Answer
  <2> QED
    BY <2>3, <2>4, SMTT(30)
<1> HIDE DEF m, a, b
<1>6. /\ toGuest' \in Seq(GuestMsg) /\ GuestOrder'
      /\ \/ m.type = "disconnect" /\ Range(toGuest') = Range(toGuest)
         \/ m.type = "data" /\ Range(toGuest') = Range(toGuest) \cup {a, b}
  <2>1. CASE m.type = "disconnect" /\ toGuest' = toGuest
    BY <1>0, <2>1 DEF TypeInv, OrderInv, GuestOrder
  <2>2. CASE m.type = "data" /\ toGuest' = toGuest \o <<a, b>>
    <3> DEFINE ms == <<a, b>>
    <3>1. /\ ms \in Seq(GuestMsg) /\ Range(ms) = {a, b}
          /\ \A i \in 1..Len(ms) : ms[i] = a \/ ms[i] = b
      BY <1>4, Pair
    <3>2. toGuest' = toGuest \o ms
      BY <2>2
    <3> HIDE DEF ms
    <3>3. \A i \in 1..Len(ms) : ~IsAnswer(ms[i])
      BY <1>4, <3>1 DEF IsAnswer
    <3>4. /\ Range(toGuest') = Range(toGuest) \cup Range(ms)
          /\ toGuest' \in Seq(GuestMsg) /\ GuestOrder'
      BY <1>0, <3>1, <3>2, <3>3, Answers, SMTT(30)
    <3> QED
      BY <2>2, <3>1, <3>4, ZenonT(30)
  <2> QED
    BY <1>5, <2>1, <2>2
<1>7. /\ clients' \in Seq(Client \cup {Control})
      /\ sclients' \in [Services -> Seq(Client)]
      /\ num_clients' \in [Services -> Nat]
      /\ ListInv' /\ Hosted' = Hosted \ {c}
  BY <1>0, RemovedClient
<1>8. /\ \/ chan[c.channel].state = "free"
         \/ chan[c.channel].state = "open" /\ chan[c.channel].conn = c.conn
      /\ m.type = "disconnect" => chan[c.channel].state = "free"
  <2>1. m.type = "data" => m.conn = c.conn
    BY <1>0, <1>2 DEF HostInv
  <2>2. /\ m.type = "data" =>
             \/ chan[m.channel].state = "free"
             \/ chan[m.channel].state = "open" /\ chan[m.channel].conn = m.conn
        /\ m.type = "disconnect" => chan[m.channel].state = "free"
    BY <1>0, <1>2 DEF WireInv, ToHostInv
  <2> QED
    BY <1>2, <2>1, <2>2
<1>9. /\ \A x \in Range(toGuest') :
           \/ x \in Range(toGuest)
           \/ x.channel = c.channel /\ x.type = "data" /\ x.conn = c.conn
           \/ x.channel = c.channel /\ x.type = "disconnect"
      /\ \A x \in Range(toGuest) : x \in Range(toGuest')
      /\ m.type = "data" => b \in Range(toGuest')
  BY <1>4, <1>6
<1>10. /\ \A x \in Range(toHost') : x \in Range(toHost)
       /\ \A x \in Range(toHost) : x.channel # c.channel => x \in Range(toHost')
       /\ \A x \in Range(toHost) : x.type = "connect" => x \in Range(toHost')
  BY <1>2
<1>11. /\ \A d \in Hosted' : d \in Hosted /\ d.channel # c.channel
       /\ \A d \in Hosted : d.channel # c.channel => d \in Hosted'
  BY <1>0, <1>7 DEF HostInv
<1>12. TypeInv' /\ OrderInv'
  BY <1>0, <1>2, <1>6, <1>7 DEF TypeInv, OrderInv
<1>13. RequestInv'
  BY <1>0, <1>9, <1>10, <1>11, SMTT(30) DEF RequestInv
<1>14. HostInv'
  BY <1>0, <1>9, <1>10, <1>11 DEF HostInv
<1>15. WireInv'
  <2>1. ToHostInv'
    BY <1>0, <1>10, SMTT(30) DEF WireInv, ToHostInv
  <2>2. ToGuestInv'
    <3>1. \A x \in Range(toGuest) : IsAnswer(x) => x.channel # c.channel
      BY <1>0, <1>8, SMTT(30) DEF WireInv, ToGuestInv
    <3> QED
      BY <1>0, <1>8, <1>9, <1>10, <1>11, <3>1, SMTT(30) DEF WireInv, ToGuestInv, IsAnswer
  <2> QED
    BY <2>1, <2>2 DEF WireInv
<1>16. ChanInv'
  BY <1>0, <1>2, <1>4, <1>8, <1>9, <1>10, <1>11 DEF ChanInv
<1> QED
  BY <1>7, <1>12, <1>13, <1>14, <1>15, <1>16 DEF IInv

\* A disconnect by the guest keeps the invariant.
LEMMA ControlDisconnectIInv == IInv /\ ControlDisconnect => IInv'
<1> SUFFICES ASSUME IInv, ControlDisconnect PROVE IInv'
  OBVIOUS
<1> DEFINE i == Find(Head(toHost).channel)
<1>1. /\ toHost # <<>> /\ Head(toHost).type = "disconnect" /\ Answer(<<>>)
      /\ UNCHANGED <<chan, conns>> /\ DeliveredToPeer'
      /\ IF i # 0 THEN Removed(clients[i]) ELSE UNCHANGED host
  BY DEF ControlDisconnect, Next1, IInv, DeliveredToPeer
<1>2. Head(toHost).channel \in Channels
  BY <1>1, Taken, Members DEF IInv, TypeInv
<1>3. /\ i # 0 => clients[i] \in Hosted /\ clients[i].channel = Head(toHost).channel
      /\ i = 0 => \A c \in Hosted : c.channel # Head(toHost).channel
  BY <1>2, Found DEF IInv
<1> HIDE DEF i
<1>4. CASE i # 0
  BY <1>1, <1>3, <1>4, GoneIInv
<1>5. CASE i = 0
  BY <1>1, <1>3, <1>5, PassedIInv
<1> QED
  BY <1>4, <1>5, SMTT(30)

\* Data for a client, whether it still exists or not, keeps the invariant.
LEMMA MuxReceiveIInv == IInv /\ MuxReceive => IInv'
<1> SUFFICES ASSUME IInv, MuxReceive PROVE IInv'
  OBVIOUS
<1> DEFINE m == Head(toHost)
<1> DEFINE i == Find(m.channel)
<1>1. /\ toHost # <<>> /\ m.type = "data" /\ UNCHANGED <<chan, conns>>
      /\ delivered' = IF i # 0 THEN delivered \cup {<<m.conn, clients[i].conn>>} ELSE delivered
      /\ IF i # 0 /\ clients[i].service \in Closing
         THEN Removed(clients[i]) /\ Answer(LastWords(clients[i]))
         ELSE UNCHANGED host /\ Answer(<<>>)
  BY DEF MuxReceive, Next1
<1>2. m \in Range(toHost) /\ m.channel \in Channels
  BY <1>1, Taken, Members DEF IInv, TypeInv
<1>3. i # 0 => clients[i] \in Hosted /\ clients[i].channel = m.channel
  BY <1>2, Found DEF IInv
<1> HIDE DEF i
<1>4. i # 0 => m.conn = clients[i].conn
  BY <1>1, <1>2, <1>3 DEF IInv, HostInv
<1>5. DeliveredToPeer'
  BY <1>1, <1>4 DEF IInv, DeliveredToPeer
<1>6. CASE i # 0 /\ clients[i].service \in Closing
  BY <1>1, <1>3, <1>5, <1>6, GoneIInv
<1>7. CASE ~ (i # 0 /\ clients[i].service \in Closing)
  BY <1>1, <1>5, <1>7, PassedIInv
<1> QED
  BY <1>6, <1>7

\* A service writes to all its clients.
LEMMA BroadcastIInv ==
    ASSUME IInv, NEW s \in Services, qemud_service_broadcast(s)
    PROVE  IInv'
<1> DEFINE ms == [i \in DOMAIN sclients[s] |->
                    [type |-> "data", channel |-> sclients[s][i].channel,
                     conn |-> sclients[s][i].conn]]
<1>0. TypeInv /\ ListInv /\ OrderInv /\ RequestInv /\ HostInv /\ WireInv /\ ChanInv /\ DeliveredToPeer
  BY DEF IInv
<1>1. /\ toGuest' = toGuest \o ms
      /\ UNCHANGED <<clients, sclients, num_clients, toHost, chan, conns, delivered>>
  BY DEF qemud_service_broadcast, host
<1>2. /\ sclients[s] \in Seq(Client) /\ Len(sclients[s]) \in Nat
      /\ DOMAIN sclients[s] = 1..Len(sclients[s])
      /\ \A i \in 1..Len(sclients[s]) : sclients[s][i] \in Hosted
  <2>1. sclients[s] \in Seq(Client)
    BY <1>0 DEF TypeInv
  <2>2. /\ Len(sclients[s]) \in Nat /\ DOMAIN sclients[s] = 1..Len(sclients[s])
        /\ \A i \in 1..Len(sclients[s]) : sclients[s][i] \in Client
    BY <2>1
  <2>3. Range(sclients[s]) \subseteq Range(clients)
    BY <1>0 DEF ListInv
  <2>4. \A i \in 1..Len(sclients[s]) : sclients[s][i] \in Range(sclients[s])
    BY <2>2 DEF Range
  <2> QED
    BY <1>0, <2>1, <2>2, <2>3, <2>4, HostedAreClients DEF Hosted
<1>3. \A i \in 1..Len(sclients[s]) :
        /\ ms[i] \in GuestMsg /\ ms[i].type = "data"
        /\ ms[i].channel = sclients[s][i].channel /\ ms[i].conn = sclients[s][i].conn
  BY <1>0, <1>2, Members, SMTT(30) DEF GuestMsg
<1>4. ms \in Seq(GuestMsg) /\ Len(ms) = Len(sclients[s]) /\ DOMAIN ms = 1..Len(sclients[s])
  <2>1. ms \in [1..Len(sclients[s]) -> GuestMsg]
    BY <1>2, <1>3, ZenonT(30)
  <2> HIDE DEF ms
  <2> QED
    BY <1>2, <2>1, SMTT(30)
<1> HIDE DEF ms
<1>5. \A i \in 1..Len(ms) : ~IsAnswer(ms[i])
  BY <1>3, <1>4 DEF IsAnswer
<1>6. /\ toGuest' \in Seq(GuestMsg) /\ Range(toGuest') = Range(toGuest) \cup Range(ms)
      /\ GuestOrder'
  BY <1>0, <1>1, <1>4, <1>5, Answers, ZenonT(30)
<1>7. \A x \in Range(ms) : /\ x.type = "data"
                           /\ \E c \in Hosted : x.channel = c.channel /\ x.conn = c.conn
  BY <1>2, <1>3, <1>4 DEF Range
<1>8. Hosted' = Hosted /\ Range(toHost') = Range(toHost)
  BY <1>1 DEF Hosted
<1>9. TypeInv' /\ ListInv' /\ OrderInv' /\ DeliveredToPeer'
  BY <1>0, <1>1, <1>6 DEF TypeInv, ListInv, OrderInv, HostOrder, DeliveredToPeer
<1>10. RequestInv'
  BY <1>0, <1>1, <1>6, <1>7, <1>8, SMTT(30) DEF RequestInv
<1>11. HostInv'
  BY <1>0, <1>1, <1>6, <1>7, <1>8 DEF HostInv
<1>12. WireInv'
  <2>1. ToHostInv'
    BY <1>0, <1>1, <1>8, SMTT(30) DEF WireInv, ToHostInv
  <2>2. \A x \in Range(ms) :
          /\ chan[x.channel].state = "free" \/ chan[x.channel].conn = x.conn
          /\ x.type # "disconnect" /\ x.type # "ok" /\ ~IsAnswer(x)
    BY <1>0, <1>7, SMTT(30) DEF HostInv, IsAnswer
  <2>3. ToGuestInv'
    BY <1>0, <1>1, <1>6, <1>8, <2>2, SMTT(30) DEF WireInv, ToGuestInv
  <2> QED
    BY <2>1, <2>3, SMTT(30) DEF WireInv
<1>13. ChanInv'
  BY <1>0, <1>1, <1>6, <1>8, SMTT(30) DEF ChanInv
<1> QED
  BY <1>9, <1>10, <1>11, <1>12, <1>13 DEF IInv

\* The line is idle, or the step is not of qemud.
LEMMA SameIInv == IInv /\ UNCHANGED vars => IInv'
<1> SUFFICES ASSUME IInv, UNCHANGED vars PROVE IInv'
  OBVIOUS
<1>1. UNCHANGED <<clients, sclients, num_clients, toHost, toGuest, chan, conns, delivered>>
  BY DEF vars, host
<1>2. Hosted' = Hosted
  BY <1>1 DEF Hosted
<1>3. TypeInv' /\ OrderInv' /\ DeliveredToPeer'
  BY <1>1 DEF IInv, TypeInv, OrderInv, HostOrder, GuestOrder, DeliveredToPeer
<1>4. ListInv'
  BY <1>1 DEF IInv, ListInv
<1>5. RequestInv'
  BY <1>1, <1>2 DEF IInv, RequestInv
<1>6. HostInv'
  BY <1>1, <1>2, ZenonT(30) DEF IInv, HostInv
<1>7. WireInv' /\ ChanInv'
  BY <1>1, <1>2, SMTT(30) DEF IInv, WireInv, ToHostInv, ToGuestInv, ChanInv
<1> QED
  BY <1>3, <1>4, <1>5, <1>6, <1>7 DEF IInv

\* Every step keeps the invariant.
LEMMA NextIInv == IInv /\ [Next]_vars => IInv'
<1> SUFFICES ASSUME IInv, [Next]_vars PROVE IInv'
  OBVIOUS
<1>1. ASSUME NEW ch \in Channels, NEW s \in Services \cup {Unknown}, GuestConnect(ch, s)
      PROVE  IInv'
  BY <1>1, GuestConnectIInv
<1>2. ASSUME NEW ch \in Channels, GuestSend(ch) \/ GuestClose(ch) PROVE IInv'
  BY <1>2, GuestSendIInv, GuestCloseIInv
<1>3. CASE GuestReceive
  BY <1>3, GuestReceiveIInv
<1>4. CASE ControlConnect \/ ControlDisconnect \/ MuxReceive
  BY <1>4, ControlConnectIInv, ControlDisconnectIInv, MuxReceiveIInv
<1>5. ASSUME NEW s \in Services, qemud_service_broadcast(s) PROVE IInv'
  BY <1>5, BroadcastIInv
<1>6. CASE Idle \/ UNCHANGED vars
  BY <1>6, SameIInv DEF Idle
<1> QED
  BY <1>1, <1>2, <1>3, <1>4, <1>5, <1>6 DEF Next

\* The invariant holds in every state of the daemon and the emulator.
LEMMA AlwaysIInv == Spec => []IInv
  BY InitIInv, NextIInv, PTL DEF Spec

-----------------------------------------------------------------------------
(* The results.                                                            *)

\* For any services and limits, whoever ends the connections and whatever is
\* under way, the client lists of the services agree with the global one and
\* with their counts, and no service has more clients than it allows
\* (qemud_multiplexer_connect, qemud_client_remove, qemud_service_remove_client).
THEOREM AlwaysListsConsistent == Spec => []ListsConsistent
<1>1. IInv => ListsConsistent
  <2> SUFFICES ASSUME IInv, NEW s \in Services
               PROVE  /\ \A i, j \in DOMAIN sclients[s] : i < j =>
                           \E p, q \in DOMAIN clients :
                              /\ p < q
                              /\ clients[p] = sclients[s][i] /\ clients[q] = sclients[s][j]
                      /\ \A p, q \in DOMAIN clients : clients[p] = clients[q] => p = q
    BY DEF IInv, ListInv, ListsConsistent
  <2>1. /\ clients \in Seq(Client \cup {Control}) /\ sclients[s] \in Seq(Client)
        /\ Sorted(clients) /\ Sorted(sclients[s])
        /\ Range(sclients[s]) \subseteq Range(clients)
    BY DEF IInv, TypeInv, ListInv
  <2>2. /\ DOMAIN clients = 1..Len(clients) /\ DOMAIN sclients[s] = 1..Len(sclients[s])
        /\ \A p \in 1..Len(clients) : clients[p].conn \in Nat
    BY <2>1, ClientFields
  <2>3. \A p, q \in 1..Len(clients) : p < q => clients[p].conn > clients[q].conn
    BY <2>1 DEF Sorted
  <2>4. \A p, q \in 1..Len(clients) : clients[p] = clients[q] => p = q
    <3> SUFFICES ASSUME NEW p \in 1..Len(clients), NEW q \in 1..Len(clients),
                        clients[p] = clients[q], p # q
                 PROVE  FALSE
      OBVIOUS
    <3>1. p < q \/ q < p
      OBVIOUS
    <3>2. clients[p].conn > clients[q].conn \/ clients[q].conn > clients[p].conn
      BY <2>3, <3>1
    <3>3. clients[p].conn = clients[q].conn /\ clients[p].conn \in Nat
      BY <2>2
    <3> QED
      BY <3>2, <3>3
  <2>5. ASSUME NEW i \in 1..Len(sclients[s]), NEW j \in 1..Len(sclients[s]), i < j
        PROVE  \E p, q \in 1..Len(clients) :
                  p < q /\ clients[p] = sclients[s][i] /\ clients[q] = sclients[s][j]
    <3>1. sclients[s][i].conn > sclients[s][j].conn
      BY <2>1, <2>5 DEF Sorted
    <3>2. sclients[s][i] \in Range(clients) /\ sclients[s][j] \in Range(clients)
      BY <2>1, <2>2, ZenonT(30) DEF Range
    <3>3. PICK p \in 1..Len(clients) : clients[p] = sclients[s][i]
      BY <2>2, <3>2 DEF Range
    <3>4. PICK q \in 1..Len(clients) : clients[q] = sclients[s][j]
      BY <2>2, <3>2 DEF Range
    <3>5. p < q
      <4>1. clients[p].conn > clients[q].conn /\ clients[p].conn \in Nat /\ clients[q].conn \in Nat
        BY <2>2, <3>1, <3>3, <3>4
      <4>2. CASE p = q
        BY <4>1, <4>2
      <4>3. CASE q < p
        <5>1. clients[q].conn > clients[p].conn
          BY <2>3, <4>3
        <5> QED
          BY <4>1, <5>1
      <4> QED
        BY <4>2, <4>3
    <3> QED
      BY <3>3, <3>4, <3>5
  <2>6. ASSUME NEW i \in DOMAIN sclients[s], NEW j \in DOMAIN sclients[s], i < j
        PROVE  \E p, q \in DOMAIN clients :
                  p < q /\ clients[p] = sclients[s][i] /\ clients[q] = sclients[s][j]
    <3>1. i \in 1..Len(sclients[s]) /\ j \in 1..Len(sclients[s])
      BY <2>2
    <3>2. PICK p, q \in 1..Len(clients) :
             p < q /\ clients[p] = sclients[s][i] /\ clients[q] = sclients[s][j]
      BY <2>5, <2>6, <3>1, ZenonT(30)
    <3> QED
      BY <2>2, <3>2
  <2>7. \A p, q \in DOMAIN clients : clients[p] = clients[q] => p = q
    BY <2>2, <2>4
  <2> QED
    BY <2>6, <2>7
<1> QED
  BY <1>1, AlwaysIInv, PTL

\* Data is handed to the peer of the connection it was sent on, in both
\* directions and whatever disconnects and requests cross it, although only
\* channel ids travel (qemud_multiplexer_serial_recv), as long as the daemon
\* does not reuse an id that is still in some message.
THEOREM AlwaysDeliveredToPeer == Spec => []DeliveredToPeer
<1>1. IInv => DeliveredToPeer
  BY DEF IInv
<1> QED
  BY <1>1, AlwaysIInv, PTL

\* Whenever the line is quiet, the emulator's clients are exactly the
\* connections the daemon has open.
THEOREM AlwaysEndsAgree == Spec => []EndsAgree
<1>1. IInv => EndsAgree
  <2> SUFFICES ASSUME IInv, Settled
               PROVE  {<<c.channel, c.conn>> : c \in Hosted}
                        = {<<ch, chan[ch].conn>> :
                             ch \in {x \in Channels : chan[x].state = "open"}}
    BY DEF EndsAgree, Hosted
  <2>1. Range(toHost) = {} /\ Range(toGuest) = {}
    BY Nothing DEF Settled
  <2>2. \A c \in Hosted : /\ c.channel \in Channels
                          /\ chan[c.channel].state = "open" /\ chan[c.channel].conn = c.conn
    BY <2>1, Members DEF IInv, HostInv
  <2>3. \A ch \in Channels : chan[ch].state = "open" =>
          \E c \in Hosted : c.channel = ch /\ c.conn = chan[ch].conn
    BY <2>1 DEF IInv, ChanInv
  <2> QED
    BY <2>2, <2>3
<1> QED
  BY <1>1, AlwaysIInv, PTL
=============================================================================
