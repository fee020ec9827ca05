------------------------- MODULE GoldfishInterrupt -------------------------
(***************************************************************************)
(* The goldfish interrupt controller (hw/goldfish_interrupt.c): 32 input   *)
(* lines, one per interrupt number, driven by the emulated devices through *)
(* goldfish_device_set_irq; two output lines to the CPU; a register file   *)
(* the guest kernel reads and writes.                                      *)
(*                                                                         *)
(* The uint32_t bit masks level, irq_enabled and fiq_enabled are sets of   *)
(* interrupt numbers.  Handlers run to completion in the main loop thread, *)
(* so each one is a single step.                                           *)
(***************************************************************************)
EXTENDS Integers, FiniteSets

CONSTANT Irqs           \* the interrupt numbers in use

ASSUME IrqsAssumption == IsFiniteSet(Irqs) /\ Irqs \subseteq 0..31

VARIABLES
    level,              \* lines the controller holds high
    pending_count,      \* the counter the guest reads as INTERRUPT_STATUS
    irq_enabled,        \* the IRQ mask
    fiq_enabled,        \* the FIQ mask: no register writes it
    parent_irq,         \* the CPU's IRQ input
    parent_fiq,         \* the CPU's FIQ input
    driven              \* history: lines the devices last drove high

vars == <<level, pending_count, irq_enabled, fiq_enabled, parent_irq,
          parent_fiq, driven>>

\* goldfish_interrupt_init: the state is zero-allocated; the CPU's inputs
\* start low.
Init ==
    /\ level = {}
    /\ pending_count = 0
    /\ irq_enabled = {}
    /\ fiq_enabled = {}
    /\ parent_irq = 0
    /\ parent_fiq = 0
    /\ driven = {}

\* goldfish_int_update: runs at the end of every handler that writes.
goldfish_int_update ==
    /\ parent_irq' = IF level' \cap irq_enabled' # {} THEN 1 ELSE 0
    /\ parent_fiq' = IF level' \cap fiq_enabled' # {} THEN 1 ELSE 0

\* goldfish_int_read of INTERRUPT_NUMBER: the lowest pending line, 0 when there
\* is none.
InterruptNumber ==
    LET pending == level \cap irq_enabled
    IN  IF pending = {} THEN 0
        ELSE CHOOSE i \in pending : \A j \in pending : i <= j

-----------------------------------------------------------------------------
\* goldfish_int_set_irq with a non-zero level.
RaiseIrq(irq) ==
    /\ driven' = driven \cup {irq}
    /\ IF irq \in level
       THEN UNCHANGED <<level, pending_count>>
       ELSE /\ level' = level \cup {irq}
            /\ pending_count' = IF irq \in irq_enabled
                                THEN pending_count + 1
                                ELSE pending_count
    /\ UNCHANGED <<irq_enabled, fiq_enabled>>
    /\ goldfish_int_update

\* Mutant of LowerIrq: the counter goes down even for a disabled line.
LowerIrqAlwaysCounts(irq) ==
    /\ driven' = driven \ {irq}
    /\ level' = level \ {irq}
    /\ pending_count' = IF irq \in level THEN pending_count - 1
                        ELSE pending_count
    /\ UNCHANGED <<irq_enabled, fiq_enabled>>
    /\ goldfish_int_update

\* goldfish_int_set_irq with level zero.
LowerIrq(irq) ==
    /\ driven' = driven \ {irq}
    /\ IF irq \notin level
       THEN UNCHANGED <<level, pending_count>>
       ELSE /\ level' = level \ {irq}
            /\ pending_count' = IF irq \in irq_enabled
                                THEN pending_count - 1
                                ELSE pending_count
    /\ UNCHANGED <<irq_enabled, fiq_enabled>>
    /\ goldfish_int_update

\* A write to INTERRUPT_DISABLE_ALL.  The mask is left as it is; what is
\* cleared is the controller's record of the lines.
DisableAll ==
    /\ pending_count' = 0
    /\ level' = {}
    /\ UNCHANGED <<irq_enabled, fiq_enabled, driven>>
    /\ goldfish_int_update

\* A write of irq to INTERRUPT_DISABLE.
Disable(irq) ==
    /\ IF irq \notin irq_enabled
       THEN UNCHANGED <<irq_enabled, pending_count>>
       ELSE /\ irq_enabled' = irq_enabled \ {irq}
            /\ pending_count' = IF irq \in level
                                THEN pending_count - 1
                                ELSE pending_count
    /\ UNCHANGED <<level, fiq_enabled, driven>>
    /\ goldfish_int_update

\* A write of irq to INTERRUPT_ENABLE.
Enable(irq) ==
    /\ IF irq \in irq_enabled
       THEN UNCHANGED <<irq_enabled, pending_count>>
       ELSE /\ irq_enabled' = irq_enabled \cup {irq}
            /\ pending_count' = IF irq \in level
                                THEN pending_count + 1
                                ELSE pending_count
    /\ UNCHANGED <<level, fiq_enabled, driven>>
    /\ goldfish_int_update

Next ==
    \/ DisableAll
    \/ \E irq \in Irqs :
           RaiseIrq(irq) \/ LowerIrq(irq) \/ Disable(irq) \/ Enable(irq)

Spec == Init /\ [][Next]_vars

-----------------------------------------------------------------------------
\* The types of the controller's state (struct goldfish_int_state).
TypeOK ==
    /\ level \subseteq Irqs
    /\ pending_count \in Nat
    /\ irq_enabled \subseteq Irqs
    /\ fiq_enabled = {}
    /\ parent_irq \in {0, 1}
    /\ parent_fiq \in {0, 1}
    /\ driven \subseteq Irqs

\* The counter kept by increments and decrements in goldfish_int_set_irq and
\* goldfish_int_write is always "number of pending interrupts", as the
\* INTERRUPT_STATUS register is described: the number of lines both high and
\* enabled, in whatever order lines change and the mask is written.  It
\* follows that the uint32_t counter never wraps below zero.
PendingCountExact == pending_count = Cardinality(level \cap irq_enabled)

\* The guest's interrupt loop (while INTERRUPT_STATUS is non-zero, handle
\* INTERRUPT_NUMBER) sees one truth: the CPU's IRQ input is high exactly when
\* the status register is non-zero, and then the number register names a
\* line that is really pending, so the loop never handles a line that is not.
GuestViewConsistent ==
    /\ parent_irq = 1 <=> pending_count > 0
    /\ pending_count > 0 => InterruptNumber \in level \cap irq_enabled
    /\ parent_fiq = 0

\* The controller never holds a line high that its device is not driving: a
\* level cleared by INTERRUPT_DISABLE_ALL comes back only when the device
\* drives it again.
NoPhantomLevel == level \subseteq driven

=============================================================================
