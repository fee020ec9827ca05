-------------------------- MODULE GoldfishBattery --------------------------
(***************************************************************************)
(* The goldfish battery (hw/goldfish_battery.c).  The console sets         *)
(* properties of the charger ("ac") or of the battery; the device notes    *)
(* the kind of change in int_status and raises its interrupt, and the      *)
(* guest's driver (external) reads the status register and then the        *)
(* properties.  Only how often a kind of property was changed matters.     *)
(***************************************************************************)
EXTENDS Integers

CONSTANTS
    MaxChanges      \* bound on the changes of each kind

Kinds == {"ac", "battery"}

VARIABLES
    int_status, int_enable,
    line,           \* the device's interrupt
    value,          \* value[k]: number of changes of kind k so far
    seen,           \* driver: value[k] as it last read it
    toRead,         \* driver: kinds it still reads in this interrupt
    probed          \* driver: it has enabled the interrupts

vars == <<int_status, int_enable, line, value, seen, toRead, probed>>

\* goldfish_battery_init
Init ==
    /\ int_status = {} /\ int_enable = {} /\ line = 0
    /\ value = [k \in Kinds |-> 0]
    /\ seen = [k \in Kinds |-> 0]
    /\ toRead = {}
    /\ probed = FALSE

Level(status, enable) == IF status \cap enable # {} THEN 1 ELSE 0

-----------------------------------------------------------------------------
\* Mutant of Noted: a pending change of the other kind is overwritten.
NotedOnly(kind) == {kind}

\* "s->int_status |= new_status"
Noted(kind) == int_status \cup {kind}

\* goldfish_battery_set_prop of a property of the given kind.
goldfish_battery_set_prop(kind) ==
    /\ value[kind] < MaxChanges
    /\ value' = [value EXCEPT ![kind] = @ + 1]
    /\ IF int_status # {kind}
       THEN /\ int_status' = Noted(kind)
            /\ line' = Level(int_status', int_enable)
       ELSE UNCHANGED <<int_status, line>>
    /\ UNCHANGED <<int_enable, seen, toRead, probed>>

\* What a read of BATTERY_INT_STATUS returns.
Pending == int_status \cap int_enable

\* goldfish_battery_read of BATTERY_INT_STATUS by the interrupt handler: all
\* of the status is cleared.
ReadIntStatus ==
    /\ line = 1 /\ toRead = {}
    /\ IF Pending # {}
       THEN /\ toRead' = Pending
            /\ line' = 0
            /\ int_status' = {}
       ELSE UNCHANGED <<toRead, line, int_status>>
    /\ UNCHANGED <<int_enable, value, seen, probed>>

\* goldfish_battery_read of the registers of one kind, after the status.
ReadProperties(kind) ==
    /\ kind \in toRead
    /\ seen' = [seen EXCEPT ![kind] = value[kind]]
    /\ toRead' = toRead \ {kind}
    /\ UNCHANGED <<int_status, int_enable, line, value, probed>>

\* goldfish_battery_write to BATTERY_INT_ENABLE: only the mask is stored.  The
\* driver enables both kinds when it probes the device.
WriteIntEnable ==
    /\ ~probed
    /\ probed' = TRUE
    /\ int_enable' = Kinds
    /\ UNCHANGED <<int_status, line, value, seen, toRead>>

=============================================================================
