----------------------------- MODULE NetShaper -----------------------------
(***************************************************************************)
(* The traffic shaper and the connection delay (shaper.c): operators from  *)
(* a NetShaper or NetDelay record to the record after a call, together     *)
(* with the packets the call handed to send_func ("out", in order).        *)
(*                                                                         *)
(* Times are kept relative to the clock: the time left until they are      *)
(* reached, 0 once they are.  Nothing distinguishes how long ago that was: *)
(* only a time that is still to come is ever compared with another.  The   *)
(* magic block_until of -1 is a time that has been reached.  What a packet *)
(* costs is size * inv_rate.  do_copy, which netshaper_create does not     *)
(* store, is taken to be set.                                              *)
(***************************************************************************)
EXTENDS Integers, Sequences, SequencesExt, FiniteSetsExt

Never == -1     \* the expiration of a timer that is not armed
None == 0       \* no packet

Sooner(t) == IF t > 0 THEN t - 1 ELSE t

-----------------------------------------------------------------------------
\* netshaper_create
NewShaper == [packets |-> <<>>, active |-> FALSE, block_until |-> 0,
              timer |-> Never]

\* One unit of time passes.
ShaperElapse(s) ==
    [s EXCEPT !.packets = [i \in DOMAIN @ |->
                             [@[i] EXCEPT !.expiration = Sooner(@)]],
              !.block_until = Sooner(@),
              !.timer = Sooner(@)]

netshaper_can_send(s) == ~s.active \/ (s.packets = <<>> /\ s.block_until = 0)

\* All queued packets are sent when the rate changes; the timer keeps running.
netshaper_set_rate(s, active) ==
    [s |-> [s EXCEPT !.packets = <<>>, !.active = active, !.block_until = 0],
     out |-> [i \in DOMAIN s.packets |-> s.packets[i].packet]]

\* "reprogram timer if needed"
ShaperRearmed(s, rest) ==
    IF rest = <<>>
    THEN [s EXCEPT !.packets = rest, !.block_until = 0, !.timer = Never]
    ELSE [s EXCEPT !.packets = rest, !.block_until = rest[1].expiration,
                   !.timer = rest[1].expiration]

\* The timer has expired: every packet that is due goes out at once.
netshaper_expires(s) ==
    LET due == {i \in DOMAIN s.packets : s.packets[i].expiration = 0}
        n   == Max({0} \cup {i \in due : 1..i \subseteq due})
    IN  [s |-> ShaperRearmed(s, SubSeq(s.packets, n + 1, Len(s.packets))),
         out |-> [i \in 1..n |-> s.packets[i].packet]]

\* A packet goes straight on when the shaper is off or does not block, or when
\* both of its addresses are internal; otherwise it is queued before those
\* that expire later.
netshaper_send_aux(s, packet, cost, internal) ==
    IF ~s.active \/ internal THEN [s |-> s, out |-> <<packet>>]
    ELSE IF s.block_until = 0
    THEN [s |-> [s EXCEPT !.block_until = cost], out |-> <<packet>>]
    ELSE LET before == SelectSeq(s.packets, LAMBDA q :
                                     q.expiration <= s.block_until)
             after  == SelectSeq(s.packets, LAMBDA q :
                                     q.expiration > s.block_until)
             new    == [packet |-> packet, expiration |-> s.block_until]
         IN  [s |-> [s EXCEPT !.packets = before \o <<new>> \o after,
                              !.timer = IF before = <<>>
                                        THEN new.expiration ELSE @,
                              !.block_until = @ + cost],
              out |-> <<>>]

-----------------------------------------------------------------------------
\* netdelay_create; the list of sessions begins with the newest.
NewDelay == [sessions |-> <<>>, active |-> FALSE, timer |-> Never]

DelayElapse(d) ==
    [d EXCEPT !.sessions = [i \in DOMAIN @ |->
                              [@[i] EXCEPT !.expiration = Sooner(@)]],
              !.timer = Sooner(@)]

Held(sessions) == SelectSeq(sessions, LAMBDA x : x.packet # None)

Packets(sessions) == [i \in DOMAIN sessions |-> sessions[i].packet]

\* netdelay_lookup_session
Lookup(d, conn) == {i \in DOMAIN d.sessions : d.sessions[i].conn = conn}

\* The held packets of the sessions whose time has come are sent, and the
\* timer is set for the first of the others.
netdelay_expires(d) ==
    LET due(x) == x.packet # None /\ x.expiration = 0
        after  == [i \in DOMAIN d.sessions |->
                     IF due(d.sessions[i])
                     THEN [d.sessions[i] EXCEPT !.packet = None]
                     ELSE d.sessions[i]]
        rearm  == {x.expiration : x \in ToSet(Held(after))}
    IN  [d |-> [d EXCEPT !.sessions = after,
                         !.timer = IF rearm = {} THEN @ ELSE Min(rearm)],
         out |-> Packets(SelectSeq(d.sessions, due))]

\* Mutant of netdelay_set_latency: the sessions are kept.
LatencyKeepsSessions(d, active) ==
    [d |-> [d EXCEPT !.active = active], out |-> Packets(Held(d.sessions))]

\* All held packets are sent when the latency changes.
netdelay_set_latency(d, active) ==
    [d |-> [d EXCEPT !.sessions = <<>>, !.active = active],
     out |-> Packets(Held(d.sessions))]

\* A packet of the given kind on connection conn.  The end of a connection
\* frees its session with the packet it may hold; a connection attempt is held
\* for a while, and repetitions of one that is still held are dropped.
netdelay_send_aux(d, packet, kind, conn, latency) ==
    LET found == Lookup(d, conn)
        pass  == [d |-> d, out |-> <<packet>>]
    IN  CASE ~d.active \/ kind \notin {"SYN", "FIN"} -> pass
          [] d.active /\ kind = "FIN" ->
               [pass EXCEPT !.d.sessions = SelectSeq(d.sessions, LAMBDA x :
                                                         x.conn # conn)]
          [] d.active /\ kind = "SYN" /\ found # {} ->
               IF \E i \in found : d.sessions[i].packet # None
               THEN [d |-> d, out |-> <<>>] ELSE pass
          [] OTHER ->
               netdelay_expires(
                 [d EXCEPT !.sessions = <<[conn |-> conn, packet |-> packet,
                                           expiration |-> latency]>> \o @])

=============================================================================
