----------------------------- MODULE Smc91c111 -----------------------------
(***************************************************************************)
(* The packet memory of the network card (hw/smc91c111.c): a few pages,    *)
(* each free or owned by a packet that is being sent, has been sent, or    *)
(* waits to be read.  Operators take a card's record to the record after a *)
(* call.  Receiver and transmitter are enabled.  Left out: what a page     *)
(* holds, INT_TX_EMPTY (always up: an enabled transmitter sends at once),  *)
(* the interrupt mask and the resets.                                      *)
(***************************************************************************)
EXTENDS Integers, Sequences, SequencesExt, FiniteSetsExt

CONSTANT Pages      \* 0..NUM_PACKETS-1 in the code

Failed == -1    \* tx_alloc while an allocation is pending, 0x80 in the code

\* smc91c111_reset
NewCard == [allocated |-> {}, rx_fifo |-> <<>>, tx_fifo_done |-> <<>>,
            tx_alloc |-> 0, int_level |-> {}]

Full(c) == c.allocated = Pages

\* smc91c111_update
update(c) == IF c.tx_fifo_done = <<>> THEN c
             ELSE [c EXCEPT !.int_level = @ \cup {"TX"}]

\* smc91c111_allocate_packet, when a page is free
FreePage(c) == Min(Pages \ c.allocated)

smc91c111_tx_alloc(c) ==
    IF Full(c) THEN [c EXCEPT !.tx_alloc = Failed]
    ELSE update([c EXCEPT !.tx_alloc = FreePage(c),
                          !.allocated = @ \cup {FreePage(c)},
                          !.int_level = @ \cup {"ALLOC"}])

\* MMU command 1: allocate for TX.
AllocateTx(c) ==
    smc91c111_tx_alloc(update([c EXCEPT !.tx_alloc = Failed,
                                        !.int_level = @ \ {"ALLOC"}]))

\* Mutant of smc91c111_release_packet: a waiting allocation is forgotten.
ReleaseOnly(c, page) == [c EXCEPT !.allocated = @ \ {page}]

\* A page that becomes free goes to an allocation that waits for one.
smc91c111_release_packet(c, page) ==
    LET free == [c EXCEPT !.allocated = @ \ {page}]
    IN  IF free.tx_alloc = Failed THEN smc91c111_tx_alloc(free) ELSE free

smc91c111_pop_rx_fifo(c) ==
    LET rest == Tail(c.rx_fifo)
    IN  update([c EXCEPT !.rx_fifo = rest,
                         !.int_level = IF rest = <<>> THEN @ \ {"RCV"}
                                       ELSE @ \cup {"RCV"}])

\* MMU command 4: remove from the RX FIFO and release.
PopAndRelease(c) ==
    smc91c111_pop_rx_fifo(smc91c111_release_packet(c, c.rx_fifo[1]))

\* Mutant of Transmitted: the page of a sent packet is kept.
TransmittedKept(c, page, autoRelease) ==
    IF autoRelease THEN c ELSE [c EXCEPT !.tx_fifo_done = Append(@, page)]

\* smc91c111_do_tx for one packet, up to qemu_send_packet: its page is given
\* back first, or handed to the driver to give back.
Transmitted(c, page, autoRelease) ==
    IF autoRelease THEN smc91c111_release_packet(c, page)
    ELSE IF Len(c.tx_fifo_done) < Cardinality(Pages)
    THEN [c EXCEPT !.tx_fifo_done = Append(@, page)] ELSE c

\* MMU command 5 for the first packet that has been sent.
ReleaseSent(c) == smc91c111_release_packet(c, c.tx_fifo_done[1])

\* The write of INT_TX to the acknowledge register, which ends with
\* smc91c111_pop_tx_fifo_done and smc91c111_update.
AcknowledgeTx(c) ==
    update([c EXCEPT !.tx_fifo_done = Tail(@), !.int_level = @ \ {"TX"}])

\* smc91c111_receive, when a page is free
smc91c111_receive(c) ==
    update([c EXCEPT !.allocated = @ \cup {FreePage(c)},
                     !.rx_fifo = Append(@, FreePage(c)),
                     !.int_level = @ \cup {"RCV"}])

=============================================================================
