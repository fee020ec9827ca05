------------------------------ MODULE QemudMux ------------------------------
(***************************************************************************)
(* The qemud multiplexer (android/hw-qemud.c): the global list of clients, *)
(* the services with their own client lists and client limits, and the     *)
(* control channel, on the emulator's side of the serial line; the qemud   *)
(* daemon of the guest (external) on the other.  A connection is numbered; *)
(* the number stands for the QemudClient object on one side and for the    *)
(* guest's socket on the other, and is not visible to either of them: only *)
(* channel ids travel.                                                     *)
(***************************************************************************)
EXTENDS Integers, Sequences, Functions

CONSTANTS
    Services,        \* names of the registered services
    Unknown,         \* a name no service is registered under
    max_clients,     \* max_clients[s]; 0 means no limit
    Closing,         \* services that close a client when it has sent data
    Channels,        \* channel ids of the daemon, all > 0
    MaxConns,        \* bound on the connections ever made
    MaxQueue         \* bound on the messages waiting in one direction

VARIABLES
    clients,         \* m->clients: the global list
    sclients,        \* sclients[s]: s->clients
    num_clients,     \* num_clients[s]
    toHost, toGuest, \* the serial line in its two directions
    chan,            \* chan[ch]: the daemon's view of a channel id
    conns,           \* number of connections made so far
    delivered        \* <<sender, receiver>> of the data handed over

\* The daemon's ids are positive (0 is the control channel), a limit is a number,
\* and Unknown is no service.
ASSUME MuxAssumption ==
    /\ Channels \subseteq Nat \ {0}
    /\ max_clients \in [Services -> Nat]
    /\ Unknown \notin Services

host == <<clients, sclients, num_clients>>
vars == <<host, toHost, toGuest, chan, conns, delivered>>

Free == [state |-> "free", conn |-> 0]
Control == [conn |-> 0, channel |-> 0, service |-> Unknown]

\* qemud_multiplexer_init and the qemud_service_register calls
Init ==
    /\ clients = <<Control>>
    /\ sclients = [s \in Services |-> <<>>]
    /\ num_clients = [s \in Services |-> 0]
    /\ toHost = <<>> /\ toGuest = <<>>
    /\ chan = [ch \in Channels |-> Free]
    /\ conns = 0
    /\ delivered = {}

\* Mutant of Find: the newest client is taken to be the one.
FindNewest(ch) == IF Len(clients) > 1 THEN 1 ELSE 0

\* The first client of the global list with the channel, as an index; 0 if
\* there is none.
Find(ch) ==
    IF \E i \in DOMAIN clients : clients[i].channel = ch
    THEN CHOOSE i \in DOMAIN clients :
           /\ clients[i].channel = ch
           /\ \A j \in 1..i - 1 : clients[j].channel # ch
    ELSE 0

\* Mutant of CountedOut: the service forgets to count the client out.
StillCounted(s) == num_clients

\* The end of qemud_service_remove_client.
CountedOut(s) == [num_clients EXCEPT ![s] = @ - 1]

\* A list without its member c.
Unlinked(list, c) ==
    LET at == CHOOSE i \in DOMAIN list : list[i] = c
    IN  [j \in 1..Len(list) - 1 |-> list[IF j < at THEN j ELSE j + 1]]

\* qemud_client_remove, and qemud_service_remove_client for its service.
Removed(c) ==
    /\ clients' = Unlinked(clients, c)
    /\ sclients' = [sclients EXCEPT ![c.service] = Unlinked(@, c)]
    /\ num_clients' = CountedOut(c.service)

-----------------------------------------------------------------------------
(* The daemon and its clients in the guest (external).                     *)

InFlight(ch) ==
    \E m \in Range(toHost) \cup Range(toGuest) : m.channel = ch

\* A client opens a socket and names a service.  The daemon does not reuse an
\* id that is still in some message: see EndsAgree.
GuestConnect(ch, s) ==
    /\ conns < MaxConns /\ Len(toHost) < MaxQueue
    /\ chan[ch] = Free
    /\ ~InFlight(ch)
    /\ conns' = conns + 1
    /\ chan' = [chan EXCEPT ![ch] = [state |-> "connecting", conn |-> conns + 1]]
    /\ toHost' = Append(toHost, [type |-> "connect", channel |-> ch,
                                 service |-> s, conn |-> conns + 1])
    /\ UNCHANGED <<host, toGuest, delivered>>

\* A client writes to its socket, or closes it.
GuestSend(ch) ==
    /\ chan[ch].state = "open" /\ Len(toHost) < MaxQueue
    /\ toHost' = Append(toHost, [type |-> "data", channel |-> ch,
                                 conn |-> chan[ch].conn])
    /\ UNCHANGED <<host, toGuest, chan, conns, delivered>>

GuestClose(ch) ==
    /\ chan[ch].state = "open" /\ Len(toHost) < MaxQueue
    /\ chan' = [chan EXCEPT ![ch] = Free]
    /\ toHost' = Append(toHost, [type |-> "disconnect", channel |-> ch])
    /\ UNCHANGED <<host, toGuest, conns, delivered>>

\* The daemon gets a message from the emulator.
GuestReceive ==
    LET m == Head(toGuest)
        here == chan[m.channel]
    IN  /\ toGuest # <<>>
        /\ toGuest' = Tail(toGuest)
        /\ chan' = [chan EXCEPT ![m.channel] =
                     CASE m.type = "ok" /\ here.state = "connecting" ->
                            [here EXCEPT !.state = "open"]
                       [] m.type \in {"ko", "disconnect"} -> Free
                       [] OTHER -> here]
        /\ delivered' = IF m.type = "data" /\ here # Free
                        THEN delivered \cup {<<m.conn, here.conn>>}
                        ELSE delivered
        /\ UNCHANGED <<host, toHost, conns>>

-----------------------------------------------------------------------------
(* The emulator.                                                           *)

Next1(type) == toHost # <<>> /\ Head(toHost).type = type
Answer(ms) == toHost' = Tail(toHost) /\ toGuest' = toGuest \o ms

\* The client limit of qemud_multiplexer_connect.
Busy(s) == max_clients[s] > 0 /\ num_clients[s] >= max_clients[s]

\* qemud_client_alloc puts the client in front of the global list.
Listed(c) == <<c>> \o clients

\* Mutant of Refusal: a refused connection is not answered.
NoRefusal(ch) == <<>>

\* "ko:connect:<id>:<reason>"
Refusal(ch) == <<[type |-> "ko", channel |-> ch]>>

\* "connect:<service>:<id>": qemud_multiplexer_connect, the service's
\* serv_connect with qemud_client_new, and the answer.
ControlConnect ==
    LET m == Head(toHost)
        c == [conn |-> m.conn, channel |-> m.channel, service |-> m.service]
    IN  /\ Next1("connect")
        /\ IF m.service = Unknown \/ Busy(m.service)
           THEN /\ Answer(Refusal(m.channel))
                /\ UNCHANGED host
           ELSE /\ clients' = Listed(c)
                /\ sclients' = [sclients EXCEPT ![m.service] = <<c>> \o @]
                /\ num_clients' = [num_clients EXCEPT ![m.service] = @ + 1]
                /\ Answer(<<[type |-> "ok", channel |-> m.channel]>>)
        /\ UNCHANGED <<chan, conns, delivered>>

\* "disconnect:<id>": qemud_multiplexer_disconnect.  The client's channel is
\* set to -1 first, so that no disconnect goes back.
ControlDisconnect ==
    LET i == Find(Head(toHost).channel)
    IN  /\ Next1("disconnect")
        /\ IF i # 0 THEN Removed(clients[i]) ELSE UNCHANGED host
        /\ Answer(<<>>)
        /\ UNCHANGED <<chan, conns, delivered>>

\* Mutant of LastWords: the daemon is not told that the client is gone.
LastWordsQuiet(c) == <<[type |-> "data", channel |-> c.channel, conn |-> c.conn]>>

\* A service answers and closes the client (boot_property_client_recv, which
\* goes through qemud_client_disconnect).
LastWords(c) ==
    <<[type |-> "data", channel |-> c.channel, conn |-> c.conn],
      [type |-> "disconnect", channel |-> c.channel]>>

\* qemud_multiplexer_serial_recv for a packet of another channel: the client
\* gets it, or it is ignored.
MuxReceive ==
    LET m == Head(toHost)
        i == Find(m.channel)
        c == clients[i]
    IN  /\ Next1("data")
        /\ delivered' = IF i # 0 THEN delivered \cup {<<m.conn, c.conn>>}
                        ELSE delivered
        /\ IF i # 0 /\ c.service \in Closing
           THEN /\ Removed(c)
                /\ Answer(LastWords(c))
           ELSE /\ UNCHANGED host
                /\ Answer(<<>>)
        /\ UNCHANGED <<chan, conns>>

\* A service sends a message to all its clients.
qemud_service_broadcast(s) ==
    /\ sclients[s] # <<>> /\ s \notin Closing
    /\ Len(toGuest) + Len(sclients[s]) <= MaxQueue
    /\ toGuest' = toGuest \o [i \in DOMAIN sclients[s] |->
                     [type |-> "data", channel |-> sclients[s][i].channel,
                      conn |-> sclients[s][i].conn]]
    /\ UNCHANGED <<host, toHost, chan, conns, delivered>>

-----------------------------------------------------------------------------
\* Nobody has anything to say.
Idle ==
    /\ toHost = <<>> /\ toGuest = <<>>
    /\ UNCHANGED vars

Next ==
    \/ \E ch \in Channels :
          \/ \E s \in Services \cup {Unknown} : GuestConnect(ch, s)
          \/ GuestSend(ch)
          \/ GuestClose(ch)
    \/ GuestReceive
    \/ ControlConnect
    \/ ControlDisconnect
    \/ MuxReceive
    \/ \E s \in Services : qemud_service_broadcast(s)
    \/ Idle

\* Both ends keep reading the serial line.
Spec ==
    /\ Init /\ [][Next]_vars
    /\ WF_vars(GuestReceive)
    /\ WF_vars(ControlConnect) /\ WF_vars(ControlDisconnect) /\ WF_vars(MuxReceive)

-----------------------------------------------------------------------------
\* The list of a service has the clients of the global list that are connected
\* to it, each once and in the same order, num_clients is its length and the
\* limit of the service is kept: the three are updated by different functions,
\* in connect, in a disconnect by the guest and in one by the service.
ListsConsistent ==
    \A s \in Services :
       /\ Range(sclients[s]) = {c \in Range(clients) : c.service = s}
       /\ \A i, j \in DOMAIN sclients[s] : i < j =>
            \E p, q \in DOMAIN clients :
               p < q /\ clients[p] = sclients[s][i] /\ clients[q] = sclients[s][j]
       /\ \A p, q \in DOMAIN clients : clients[p] = clients[q] => p = q
       /\ num_clients[s] = Len(sclients[s])
       /\ max_clients[s] > 0 => num_clients[s] <= max_clients[s]

\* Data reaches the other end of the connection it was sent on, and no other,
\* though only channel ids are sent.
DeliveredToPeer == \A d \in delivered : d[1] = d[2]

Settled == toHost = <<>> /\ toGuest = <<>>

\* Once nothing is under way, both sides agree on the connections: the
\* emulator has a client for exactly the channels the daemon has open, and it
\* is the client of that connection.  (If the daemon reused an id at once, the
\* disconnects of a connection that both sides close would cross and end the
\* next connection on one side.)
EndsAgree ==
    Settled =>
       {<<c.channel, c.conn>> : c \in Range(clients) \ {Control}}
         = {<<ch, chan[ch].conn>> : ch \in {x \in Channels : chan[x].state = "open"}}

\* Every connection attempt is answered, with ok: or ko:connect:<id>.
ConnectAnswered ==
    \A ch \in Channels : chan[ch].state = "connecting" ~> chan[ch].state # "connecting"

=============================================================================
