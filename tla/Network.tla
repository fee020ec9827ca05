------------------------------ MODULE Network ------------------------------
(***************************************************************************)
(* The guest's way to the network and back.  Up: the card's driver writes  *)
(* a packet, smc91c111_do_tx hands it to the VLAN, slirp_receive to the    *)
(* upload shaper, that to the connection delay, and that to the user-mode  *)
(* stack.  Down: the stack queues packets by session, if_start takes them  *)
(* from there while slirp_can_output, the download shaper hands them to    *)
(* the VLAN and the VLAN to the card.  All of it is calls in one thread,   *)
(* so a register access, a timer or a poll is one step, in which a packet  *)
(* goes as far as it can and may make the stack answer.  A packet sent     *)
(* while the VLAN is delivering another is queued by qemu_enqueue_packet,  *)
(* newest first, and delivered, or refused by a full card, afterwards.     *)
(*                                                                         *)
(* External: the guest's driver, the console that changes rates and        *)
(* latencies, the clock, and the hosts that make the stack send.  The      *)
(* stack knows the guest's hardware address.                               *)
(***************************************************************************)
EXTENDS NetShaper, SlirpIf, Smc91c111

CONSTANTS
    Cost,               \* what a packet costs the shapers, in ticks
    Latencies,          \* latencies netdelay_send_aux may draw
    Plans               \* what may happen, as records of
                        \*   up: the sequence of packets the guest sends, as
                        \*       [kind |-> a kind, conn |-> a connection];
                        \*   makes: bound on the packets each session makes;
                        \*   settings: bound on changes of rates and latency

\* "LOCAL" is a packet for 10.x.x.x, which is neither shaped nor delayed; the
\* sessions are with other hosts.
Kinds == {"SYN", "FIN", "DATA", "ARP", "LOCAL"}
ASSUME KindsAssumption ==
    \A p \in Plans : \A i \in DOMAIN p.up : p.up[i].kind \in Kinds

Arp == "arp"            \* the "session" of replies that bypass the queues

VARIABLES
    shaperIn, shaperOut, delay, ifq, card,
    driver,             \* "idle", or "asked" for a page it has not used yet
    freed,              \* driver: it has released the packet at the head of
                        \* tx_fifo_done and not acknowledged it yet
    autoRelease,        \* driver: CTR_AUTO_RELEASE
    plan,               \* the member of Plans that happens
    sent,               \* how many packets the guest has sent
    reached,            \* history: how often each of them reached the stack
    eaten,              \* history: those the delay has dropped
    made,               \* history: number of packets made by each session
    arrived,            \* history: packets the card took of each session
    refused,            \* history: packets the card had no room for
    nested,             \* history: packets that went through send_queue
    settings            \* history: number of changes of settings

up == plan.up

upVars == <<shaperIn, delay, plan, sent, reached, eaten>>
downVars == <<shaperOut, ifq, made, arrived, refused, nested>>
driverVars == <<driver, freed, autoRelease>>
netVars == <<upVars, downVars, card, driverVars, settings>>

NetInit ==
    /\ shaperIn = [NewShaper EXCEPT !.active = TRUE]
    /\ \E on \in BOOLEAN : shaperOut = [NewShaper EXCEPT !.active = on]
    /\ delay = [NewDelay EXCEPT !.active = TRUE]
    /\ ifq = NewQueues /\ card = NewCard
    /\ driver = "idle" /\ freed = FALSE /\ autoRelease \in BOOLEAN
    /\ plan \in Plans /\ sent = 0
    /\ reached = [i \in DOMAIN up |-> 0] /\ eaten = {}
    /\ made = [so \in Sessions \cup {Arp} |-> 0]
    /\ arrived = [so \in Sessions \cup {Arp} |-> <<>>]
    /\ refused = {} /\ nested = {}
    /\ settings = 0

-----------------------------------------------------------------------------
(* The way down.  w is the record of all that a step may change on it;     *)
(* w.queue is vlan->send_queue, which is empty between steps, and          *)
(* delivering is vlan->delivering.                                         *)

Way == [out |-> shaperOut, ifq |-> ifq, card |-> card, queue |-> <<>>,
        made |-> made, arrived |-> arrived, refused |-> refused,
        nested |-> nested]

\* qemu_deliver_packet to the card: a full card answers -1, and the packet is
\* lost.
CardReceive(w, packet) ==
    IF Full(w.card) THEN [w EXCEPT !.refused = @ \cup {packet}]
    ELSE [w EXCEPT !.card = smc91c111_receive(@),
                   !.arrived[packet.so] = Append(@, packet.n)]

qemu_flush_queued_packets(w) ==
    FoldLeft(CardReceive, [w EXCEPT !.queue = <<>>], w.queue)

\* qemu_send_packet by the stack's client of the VLAN.
qemu_send_packet(w, packet, delivering) ==
    IF delivering
    THEN [w EXCEPT !.queue = <<packet>> \o @, !.nested = @ \cup {packet}]
    ELSE qemu_flush_queued_packets(CardReceive(w, packet))

SendAll(w, packets, delivering) ==
    FoldLeft(LAMBDA v, packet : qemu_send_packet(v, packet, delivering),
             w, packets)

slirp_output(w, packet, delivering) ==
    LET r == netshaper_send_aux(w.out, packet, Cost, FALSE)
    IN  SendAll([w EXCEPT !.out = r.s], r.out, delivering)

slirp_can_output(w) == netshaper_can_send(w.out) /\ ~Full(w.card)

\* The loop of if_start, which runs at most once for each packet queued.
if_start(w, delivering) ==
    FoldLeft(LAMBDA v, i :
                 IF if_queued(v.ifq) > 0 /\ slirp_can_output(v)
                 THEN slirp_output([v EXCEPT !.ifq = Dequeued(@)],
                                   NextPacket(v.ifq), delivering)
                 ELSE v,
             w, [i \in 1..if_queued(w.ifq) |-> i])

\* A session makes a packet: if_output, which ends with if_start.
Output(w, so, delivering) ==
    LET packet == Packet(so, w.made[so] + 1)
    IN  if_start([w EXCEPT !.made[so] = @ + 1,
                           !.ifq = if_output(@, so, packet)], delivering)

\* arp_input: the answer is sent whatever slirp_can_output says.
OutputArp(w, delivering) ==
    slirp_output([w EXCEPT !.made[Arp] = @ + 1],
                 Packet(Arp, w.made[Arp] + 1), delivering)

\* slirp_input: an ARP request is answered, and other packets may be.
slirp_input(w, kind, answer, delivering) ==
    CASE kind = "ARP" -> OutputArp(w, delivering)
      [] kind # "ARP" /\ answer \in Sessions -> Output(w, answer, delivering)
      [] OTHER -> w

\* The step leaves the way down as w says.
Becomes(w) ==
    /\ \A so \in Sessions : w.made[so] <= plan.makes[so]
    /\ shaperOut' = w.out /\ ifq' = w.ifq /\ card' = w.card
    /\ made' = w.made /\ arrived' = w.arrived
    /\ refused' = w.refused /\ nested' = w.nested

-----------------------------------------------------------------------------
(* The way up.  A packet is its number in up.                              *)

\* slirp_shaper_in_cb for each packet the shaper lets through.
ThroughDelay(d, packets, latency) ==
    FoldLeft(LAMBDA r, i :
                 LET n == netdelay_send_aux(r.d, i, up[i].kind, up[i].conn,
                                            latency)
                 IN  [d |-> n.d, out |-> r.out \o n.out],
             [d |-> d, out |-> <<>>], packets)

\* slirp_delay_in_cb for each packet the delay lets through.
Arrive(w, packets, answer, delivering) ==
    FoldLeft(LAMBDA v, i : slirp_input(v, up[i].kind, answer, delivering),
             w, packets)

\* The stack has got these packets from the delay.
Reach(packets) ==
    reached' = [i \in DOMAIN up |->
                  reached[i] + Cardinality({j \in DOMAIN packets : packets[j] = i})]

\* The end of the VLAN's delivery, and of smc91c111_do_tx.
AfterTx(w) ==
    LET v == qemu_flush_queued_packets(w) IN [v EXCEPT !.card = update(@)]

\* The upload shaper's callback gets these packets: the delay, and the stack
\* for those that pass; After is the rest of the step.
PassUp(w, packets, latency, answer, delivering, After(_)) ==
    LET r     == ThroughDelay(delay, packets, latency)
        there == ToSet(Packets(Held(delay.sessions))) \cup ToSet(packets)
        still == ToSet(Packets(Held(r.d.sessions))) \cup ToSet(r.out)
    IN  /\ delay' = r.d
        /\ eaten' = eaten \cup (there \ still)
        /\ Reach(r.out)
        /\ Becomes(After(Arrive(w, r.out, answer, delivering)))

Answers == Sessions \cup {NoSession}

-----------------------------------------------------------------------------
(* The guest's driver.                                                     *)

GuestAsks ==
    /\ driver = "idle" /\ sent < Len(up) /\ ~freed
    /\ driver' = "asked" /\ card' = AllocateTx(card)
    /\ UNCHANGED <<upVars, downVars, freed, autoRelease, settings>>

Granted == driver = "asked" /\ card.tx_alloc # Failed /\ ~freed

\* The page is there: the driver writes the packet into it and queues it, and
\* smc91c111_do_tx sends it.
GuestSends(latency, answer) ==
    /\ Granted
    /\ driver' = "idle" /\ sent' = sent + 1
    /\ LET i == sent + 1
           w == [Way EXCEPT !.card = Transmitted(@, card.tx_alloc, autoRelease)]
           r == netshaper_send_aux(shaperIn, i, Cost, up[i].kind = "LOCAL")
       IN  /\ shaperIn' = r.s
           /\ PassUp(w, r.out, latency, answer, TRUE, AfterTx)
    /\ UNCHANGED <<plan, freed, autoRelease, settings>>

\* A packet sent without CTR_AUTO_RELEASE: the driver releases its page, and
\* acknowledges the interrupt in another access, with nothing of its own in
\* between, as both are in its interrupt handler.
GuestReleases ==
    /\ "TX" \in card.int_level /\ card.tx_fifo_done # <<>> /\ ~freed
    /\ freed' = TRUE /\ card' = ReleaseSent(card)
    /\ UNCHANGED <<upVars, downVars, driver, autoRelease, settings>>

GuestAcknowledges ==
    /\ freed
    /\ freed' = FALSE /\ card' = AcknowledgeTx(card)
    /\ UNCHANGED <<upVars, downVars, driver, autoRelease, settings>>

\* The driver reads the packet at the head of the RX FIFO.
GuestReads ==
    /\ "RCV" \in card.int_level /\ ~freed
    /\ card' = PopAndRelease(card)
    /\ UNCHANGED <<upVars, downVars, driverVars, settings>>

-----------------------------------------------------------------------------
(* The emulator's main loop: the sockets, the poll and the timers.         *)

\* A host's data has come in, and its session makes a packet of it.
HostSends(so) ==
    /\ Becomes(Output(Way, so, FALSE))
    /\ UNCHANGED <<upVars, driverVars, settings>>

CanPoll == if_queued(ifq) > 0 /\ slirp_can_output(Way)

\* The call of if_start in slirp_select_poll, when it does anything.
Poll ==
    /\ CanPoll
    /\ Becomes(if_start(Way, FALSE))
    /\ UNCHANGED <<upVars, driverVars, settings>>

ExpireIn(latency, answer) ==
    /\ shaperIn.timer = 0
    /\ LET r == netshaper_expires(shaperIn)
       IN  /\ shaperIn' = r.s
           /\ PassUp(Way, r.out, latency, answer, FALSE, LAMBDA v : v)
    /\ UNCHANGED <<plan, sent, driverVars, settings>>

ExpireOut ==
    /\ shaperOut.timer = 0
    /\ LET r == netshaper_expires(shaperOut)
       IN  Becomes(SendAll([Way EXCEPT !.out = r.s], r.out, FALSE))
    /\ UNCHANGED <<upVars, driverVars, settings>>

ExpireDelay(answer) ==
    /\ delay.timer = 0
    /\ LET r == netdelay_expires([delay EXCEPT !.timer = Never])
       IN  /\ delay' = r.d /\ Reach(r.out)
           /\ Becomes(Arrive(Way, r.out, answer, FALSE))
    /\ UNCHANGED <<shaperIn, plan, sent, eaten, driverVars, settings>>

-----------------------------------------------------------------------------
(* The console and the clock.                                              *)

\* do_network_speed: the upload shaper, then the download shaper.
SetRates(in, out, latency, answer) ==
    /\ settings < plan.settings /\ settings' = settings + 1
    /\ LET r == netshaper_set_rate(shaperIn, in)
           SetOut(w) == LET o == netshaper_set_rate(w.out, out)
                        IN  SendAll([w EXCEPT !.out = o.s], o.out, FALSE)
       IN  /\ shaperIn' = r.s
           /\ PassUp(Way, r.out, latency, answer, FALSE, SetOut)
    /\ UNCHANGED <<plan, sent, driverVars>>

\* do_network_delay
SetLatency(active, answer) ==
    /\ settings < plan.settings /\ settings' = settings + 1
    /\ LET r == netdelay_set_latency(delay, active)
       IN  /\ delay' = r.d /\ Reach(r.out)
           /\ Becomes(Arrive(Way, r.out, answer, FALSE))
    /\ UNCHANGED <<shaperIn, plan, sent, eaten, driverVars>>

\* Time passes, when anything waits for it.
Tick ==
    /\ shaperIn' = ShaperElapse(shaperIn)
    /\ shaperOut' = ShaperElapse(shaperOut)
    /\ delay' = DelayElapse(delay)
    /\ <<shaperIn, shaperOut, delay>>' # <<shaperIn, shaperOut, delay>>
    /\ UNCHANGED <<plan, sent, reached, eaten, ifq, made, arrived, refused,
                   nested, card, driverVars, settings>>

-----------------------------------------------------------------------------
NetNext ==
    \/ GuestAsks \/ GuestReleases \/ GuestAcknowledges \/ GuestReads
    \/ \E l \in Latencies, a \in Answers : GuestSends(l, a)
    \/ \E so \in Sessions : HostSends(so)
    \/ Poll \/ ExpireOut
    \/ \E l \in Latencies, a \in Answers : ExpireIn(l, a)
    \/ \E a \in Answers : ExpireDelay(a)
    \/ \E in, out \in BOOLEAN, l \in Latencies, a \in Answers :
           SetRates(in, out, l, a)
    \/ \E on \in BOOLEAN, a \in Answers : SetLatency(on, a)
    \/ Tick

\* The clock advances, the guest's driver serves its interrupts and sends what
\* it was given a page for, timers run once they are due and the main loop
\* polls.  GuestSends, the expiries and Poll each end what enables them: weak
\* fairness of such a step is that it is, again and again, not enabled.
NetFairness ==
    /\ WF_netVars(Tick) /\ WF_netVars(GuestReads)
    /\ WF_netVars(GuestReleases) /\ WF_netVars(GuestAcknowledges)
    /\ []<>~Granted /\ []<>~CanPoll
    /\ []<>(shaperIn.timer # 0) /\ []<>(shaperOut.timer # 0)
    /\ []<>(delay.timer # 0)

NetSpec == NetInit /\ [][NetNext]_netVars /\ NetFairness

-----------------------------------------------------------------------------
(* Correctness.                                                            *)

Count(seq, x) == Cardinality({j \in DOMAIN seq : seq[j] = x})

\* Every packet the guest has sent is in exactly one place, once: queued in
\* the upload shaper, held by the delay, with the stack, or dropped.  Only
\* connection attempts are dropped (netdelay_send_aux), whatever the order in
\* which timers, changes of rate and latency, and packets come.
UpAccounted ==
    LET queued == [j \in DOMAIN shaperIn.packets |-> shaperIn.packets[j].packet]
        held   == Packets(Held(delay.sessions))
    IN  /\ \A i \in 1..sent :
              Count(queued, i) + Count(held, i) + reached[i]
                + Cardinality(eaten \cap {i}) = 1
        /\ \A i \in eaten : up[i].kind = "SYN"

\* A session's packets reach the card in the order they were made, except
\* that packets sent while the VLAN delivers another (qemu_enqueue_packet) may
\* be reversed or find the card full; no other session packet is refused, for
\* if_start asks slirp_can_output before each.
DownInOrder ==
    /\ \A so \in Sessions : \A i, j \in DOMAIN arrived[so] :
          i < j => \/ arrived[so][i] < arrived[so][j]
                   \/ {Packet(so, arrived[so][i]), Packet(so, arrived[so][j])}
                        \subseteq nested
    /\ \A packet \in refused : packet.so = Arp \/ packet \in nested

\* Every allocated page of the card has one owner, and no other page has any:
\* a received packet, a packet that was sent and is to be released, or the
\* allocation the driver was granted (smc91c111_release_packet gives a page
\* away at once).
PagesExact ==
    LET sentPages == IF freed THEN Tail(card.tx_fifo_done)
                     ELSE card.tx_fifo_done
        granted   == IF driver = "asked" /\ card.tx_alloc # Failed
                     THEN <<card.tx_alloc>> ELSE <<>>
        owners    == card.rx_fifo \o sentPages \o granted
    IN  IsInjective(owners) /\ ToSet(owners) = card.allocated

\* However much was sent either way, there comes a time when the driver waits
\* for no page, all its packets have reached the stack or been dropped, and all
\* packets of the sessions have reached the card or been refused: an allocation
\* that found the card full is granted later (smc91c111_release_packet), the
\* shapers and the delay keep no packet without a timer (netshaper_expires,
\* netdelay_expires), and if_start leaves none behind.
AllFlows ==
    /\ []<>(driver = "idle" /\ \A i \in 1..sent : i \in eaten \/ reached[i] > 0)
    /\ []<>(\A so \in Sessions \cup {Arp} : \A n \in 1..made[so] :
                n \in ToSet(arrived[so]) \/ Packet(so, n) \in refused)

=============================================================================
