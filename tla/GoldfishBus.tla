---------------------------- MODULE GoldfishBus ----------------------------
(***************************************************************************)
(* The goldfish device registry and the enumeration bus                    *)
(* (hw/goldfish_device.c).  At machine start-up android_arm_init_ adds one *)
(* device after the other; a device that asks for no base address or no    *)
(* interrupt is given the next free one.  Afterwards the guest kernel      *)
(* walks the list through the PDEV_BUS registers: a write of OP_INIT       *)
(* restarts the walk and raises the bus interrupt, each read of PDEV_BUS_OP*)
(* moves to the next device not reported yet, and the read that finds none *)
(* lowers the interrupt.                                                   *)
(***************************************************************************)
EXTENDS Integers, Sequences

CONSTANTS
    Devices,            \* the devices a board may have
    WantBase, Size,     \* dev->base before registration (0: allocate), size
    WantIrq, IrqCount,  \* dev->irq before registration (0: allocate), count
    FreeBase, FreeIrq,  \* first address and line goldfish_device_init hands out
    MaxInits            \* bound on the guest's OP_INIT writes

VARIABLES
    order,              \* the list first_device .. last_device
    base, irq,          \* dev->base and dev->irq of registered devices
    goldfish_free_base, goldfish_free_irq,
    running,            \* the board is complete and the guest runs
    reported,           \* devices with reported_state = 1
    current,            \* position of bus_state.current, 0 for NULL
    line,               \* the bus device's interrupt
    answer,             \* what the last read of PDEV_BUS_OP returned
    found,              \* history: devices the guest was told of since INIT
    inits               \* history: number of OP_INIT writes

boardVars == <<order, base, irq, goldfish_free_base, goldfish_free_irq>>
busVars == <<reported, current, line, answer, found, inits>>
vars == <<boardVars, running, busVars>>

\* The devices in the list.
Registered == {order[i] : i \in DOMAIN order}

\* goldfish_device_init, and bus_state as it is linked.
Init ==
    /\ order = <<>>
    /\ base = [d \in Devices |-> WantBase[d]]
    /\ irq = [d \in Devices |-> WantIrq[d]]
    /\ goldfish_free_base = FreeBase
    /\ goldfish_free_irq = FreeIrq
    /\ running = FALSE
    /\ reported = {}
    /\ current = 0
    /\ line = 0
    /\ answer = "none"
    /\ found = <<>>
    /\ inits = 0

\* What the devices of the board bring along: the addresses and lines that are
\* fixed (android_arm.c and the devices' own structures) lie below those that
\* are handed out, and apart from each other.
FixedBelowFree ==
    /\ WantBase \in [Devices -> Nat] /\ Size \in [Devices -> Nat]
    /\ WantIrq \in [Devices -> Nat] /\ IrqCount \in [Devices -> Nat]
    /\ FreeBase \in Nat \ {0} /\ FreeIrq \in Nat \ {0}
    /\ \A d \in Devices :
         /\ WantBase[d] # 0 => WantBase[d] + Size[d] <= FreeBase
         /\ WantIrq[d] # 0 => WantIrq[d] + IrqCount[d] <= FreeIrq
    /\ \A d, e \in Devices : d # e =>
         /\ WantBase[d] # 0 /\ WantBase[e] # 0 =>
              \/ WantBase[d] + Size[d] <= WantBase[e]
              \/ WantBase[e] + Size[e] <= WantBase[d]
         /\ WantIrq[d] # 0 /\ WantIrq[e] # 0 =>
              \/ IrqCount[d] = 0 \/ IrqCount[e] = 0
              \/ WantIrq[d] + IrqCount[d] <= WantIrq[e]
              \/ WantIrq[e] + IrqCount[e] <= WantIrq[d]

-----------------------------------------------------------------------------
\* Mutant of IrqAfter: the next free line is not advanced.
IrqShared(dev) == goldfish_free_irq

\* The first line left after dev has got its own.
IrqAfter(dev) == goldfish_free_irq + IrqCount[dev]

\* goldfish_add_device_no_io (and goldfish_device_add, which calls it and
\* then maps the registers).
goldfish_add_device_no_io(dev) ==
    /\ ~running
    /\ dev \notin Registered
    /\ IF base[dev] = 0
       THEN /\ base' = [base EXCEPT ![dev] = goldfish_free_base]
            /\ goldfish_free_base' = goldfish_free_base + Size[dev]
       ELSE UNCHANGED <<base, goldfish_free_base>>
    /\ IF irq[dev] = 0 /\ IrqCount[dev] > 0
       THEN /\ irq' = [irq EXCEPT ![dev] = goldfish_free_irq]
            /\ goldfish_free_irq' = IrqAfter(dev)
       ELSE UNCHANGED <<irq, goldfish_free_irq>>
    /\ order' = Append(order, dev)
    /\ UNCHANGED <<running, busVars>>

\* The end of android_arm_init_: the kernel is loaded and the CPU starts.
Start ==
    /\ ~running
    /\ order # <<>>
    /\ running' = TRUE
    /\ UNCHANGED <<boardVars, busVars>>

\* Mutant of ReportedAtInit: the devices keep their reported_state.
ReportedKept == reported

\* The devices with reported_state = 1 after the loop of goldfish_bus_op_init.
ReportedAtInit == {}

\* goldfish_bus_write of PDEV_BUS_OP_INIT to PDEV_BUS_OP.  The kernel writes
\* it when its bus driver probes; a second probe may come in mid-walk.
goldfish_bus_op_init ==
    /\ running
    /\ inits < MaxInits
    /\ reported' = ReportedAtInit
    /\ current' = 0
    /\ line' = IF order # <<>> THEN 1 ELSE 0
    /\ found' = <<>>
    /\ answer' = "none"
    /\ inits' = inits + 1
    /\ UNCHANGED <<boardVars, running>>

\* Mutant of LineAfter: the interrupt is left high at the end of the walk.
LineKept(left) == line

\* The interrupt after a read that leaves these devices to come.
LineAfter(left) == IF left = {} THEN 0 ELSE line

\* The first of these positions in the list.
FirstOf(left) == CHOOSE i \in left : \A j \in left : i <= j

\* goldfish_bus_read of PDEV_BUS_OP.  A NULL current restarts at the first
\* device (position 0 + 1).
BusOp ==
    /\ running
    /\ LET start == current + 1
           told  == IF current # 0 THEN reported \cup {order[current]}
                    ELSE reported
           left  == {i \in start..Len(order) : order[i] \notin told}
       IN  /\ reported' = told
           /\ current' = IF left = {} THEN 0 ELSE FirstOf(left)
           /\ answer' = IF left = {} THEN "DONE" ELSE "ADD_DEV"
           /\ line' = LineAfter(left)
           /\ found' = IF left = {} THEN found
                       ELSE Append(found, order[FirstOf(left)])
    /\ UNCHANGED <<boardVars, running, inits>>

Next ==
    \/ \E dev \in Devices : goldfish_add_device_no_io(dev)
    \/ Start
    \/ goldfish_bus_op_init
    \/ BusOp

Spec == Init /\ [][Next]_vars

-----------------------------------------------------------------------------
\* However devices mix fixed and allocated resources, no two registered
\* devices share a register window or an interrupt line
\* (goldfish_add_device_no_io).
ResourcesDisjoint ==
    \A d, e \in Registered : d # e =>
        /\ base[d] + Size[d] <= base[e] \/ base[e] + Size[e] <= base[d]
        /\ \/ IrqCount[d] = 0 \/ IrqCount[e] = 0
           \/ irq[d] + IrqCount[d] <= irq[e]
           \/ irq[e] + IrqCount[e] <= irq[d]

\* The walk is exact even when OP_INIT is written in the middle of it or
\* PDEV_BUS_OP is read again after the end: the guest is told of the devices
\* in list order, none twice, and the answer DONE means it knows them all.
WalkExact ==
    /\ found = SubSeq(order, 1, Len(found))
    /\ answer = "DONE" => found = order
    /\ answer = "ADD_DEV" => found[Len(found)] = order[current]

=============================================================================
