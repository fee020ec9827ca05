--------------------------- MODULE GoldfishBoard ---------------------------
(***************************************************************************)
(* The board from power-on to a running guest.  android_arm_init_ registers*)
(* the devices one by one; the guest kernel (external) resets the interrupt*)
(* controller, walks the bus to learn which lines the devices were given,  *)
(* and its drivers enable them.  From then on the events device and the    *)
(* battery drive their lines through goldfish_device_set_irq into          *)
(* goldfish_int_set_irq, and the kernel does what a level-triggered        *)
(* handler does: it asks the controller for a number, masks that line,     *)
(* lets the driver read the device and unmasks the line.  Devices change   *)
(* state between any two register accesses.  The user does nothing before  *)
(* the kernel has reset the controller, nor the console before the         *)
(* battery's driver is probed: what comes earlier is not signalled again.  *)
(***************************************************************************)
EXTENDS GoldfishInterrupt, Sequences

CONSTANTS
    Boards,                             \* device lists the options can give
    Devices, WantBase, Size, WantIrq, IrqCount, FreeBase, FreeIrq, MaxInits,
    MAX_EVENTS, MaxPut, MaxChanges      \* see the devices' modules

None == -1

VARIABLES
    order, base, irq, goldfish_free_base, goldfish_free_irq, running,
    reported, current, busLine, answer, found, inits,
    events, first, last, evLine, accepted, taken,
    int_status, int_enable, batLine, value, seen, toRead, probed,
    booted,             \* the kernel has reset the controller
    serving,            \* line the kernel is handling, or None
    left                \* accesses the driver has still to make

Bus == INSTANCE GoldfishBus WITH line <- busLine
Ev == INSTANCE GoldfishEvents WITH line <- evLine
Bat == INSTANCE GoldfishBattery WITH line <- batLine

busVars == <<order, base, irq, goldfish_free_base, goldfish_free_irq, running,
             reported, current, busLine, answer, found, inits>>
evVars == <<events, first, last, evLine, accepted, taken>>
batVars == <<int_status, int_enable, batLine, value, seen, toRead, probed>>
kernelVars == <<booted, serving, left>>
boardVars == <<vars, busVars, evVars, batVars, kernelVars>>

\* Every board has a bus, an events device and a battery, each with a line.
ASSUME BoardsAssumption ==
    \A dev \in {"bus", "events", "battery"} :
        /\ dev \in Devices /\ IrqCount[dev] > 0
        /\ \A b \in Boards : \E i \in DOMAIN b : b[i] = dev

\* The fixed resources are apart from the allocated ones and from each other.
ASSUME FixedResources == Bus!FixedBelowFree

\* The ring has room for two events.
ASSUME RingHoldsTwo == Ev!EventsAssumption

BoardInit ==
    /\ Init /\ Bus!Init /\ Ev!Init /\ Bat!Init
    /\ booted = 0 /\ serving = None /\ left = 0

-----------------------------------------------------------------------------
\* android_arm_init_ adds the devices in its order, some only if configured.
AddDevice(dev) ==
    /\ \E b \in Boards : /\ Len(order) < Len(b)
                         /\ Append(order, dev) = SubSeq(b, 1, Len(order) + 1)
    /\ Bus!goldfish_add_device_no_io(dev)
    /\ UNCHANGED <<vars, evVars, batVars, kernelVars>>

Start ==
    /\ order \in Boards
    /\ Bus!Start
    /\ UNCHANGED <<vars, evVars, batVars, kernelVars>>

\* goldfish_device_set_irq: the controller is told of the new level of a line.
SetIrq(n, old, new) ==
    CASE old = 0 /\ new = 1 -> RaiseIrq(n)
      [] old = 1 /\ new = 0 -> LowerIrq(n)
      [] OTHER -> UNCHANGED vars

BusStep(A) ==
    /\ A
    /\ SetIrq(irq["bus"], busLine, busLine')
    /\ UNCHANGED <<evVars, batVars>>

EventsStep(A) ==
    /\ A
    /\ SetIrq(irq["events"], evLine, evLine')
    /\ UNCHANGED <<busVars, batVars>>

BatteryStep(A) ==
    /\ A
    /\ SetIrq(irq["battery"], batLine, batLine')
    /\ UNCHANGED <<busVars, evVars>>

\* The user types or touches the screen, or the console changes the battery.
UserInput ==
    /\ booted = 1
    /\ EventsStep(Ev!events_put_keycode \/ Ev!PutTouch \/ Ev!PutTrackball)
    /\ UNCHANGED kernelVars

PowerChange(kind) ==
    /\ probed
    /\ BatteryStep(Bat!goldfish_battery_set_prop(kind))
    /\ UNCHANGED kernelVars

\* The kernel resets the controller, then the bus driver asks for its line and
\* starts a walk; a second probe of it may start another in the middle.
Boot ==
    /\ running /\ booted = 0
    /\ DisableAll
    /\ booted' = 1
    /\ UNCHANGED <<busVars, evVars, batVars, serving, left>>

RequestBusIrq ==
    /\ booted = 1 /\ serving = None
    /\ irq["bus"] \notin irq_enabled
    /\ Enable(irq["bus"])
    /\ UNCHANGED <<busVars, evVars, batVars, kernelVars>>

StartWalk ==
    /\ irq["bus"] \in irq_enabled \/ serving = irq["bus"]
    /\ answer # "DONE"
    /\ BusStep(Bus!goldfish_bus_op_init)
    /\ UNCHANGED kernelVars

\* The drivers of the devices found ask for the lines the walk reported.
RequestIrq(dev) ==
    /\ answer = "DONE" /\ serving = None
    /\ \E i \in DOMAIN found : found[i] = dev
    /\ irq[dev] \notin irq_enabled
    /\ Enable(irq[dev])
    /\ UNCHANGED <<busVars, evVars, batVars, kernelVars>>

Probe ==
    /\ irq["battery"] \in irq_enabled /\ serving = None
    /\ BatteryStep(Bat!WriteIntEnable)
    /\ UNCHANGED kernelVars

\* The CPU takes the interrupt: the kernel reads INTERRUPT_NUMBER and masks
\* that line.
Enter ==
    /\ parent_irq = 1 /\ serving = None
    /\ Disable(InterruptNumber)
    /\ serving' = InterruptNumber
    /\ left' = IF InterruptNumber = irq["events"] THEN 3 ELSE 1
    /\ UNCHANGED <<busVars, evVars, batVars, booted>>

\* The bus driver reads until it is told that it knows all devices.
ServeBus ==
    /\ serving = irq["bus"] /\ left > 0
    /\ BusStep(Bus!BusOp)
    /\ left' = IF answer' = "DONE" THEN 0 ELSE left
    /\ UNCHANGED <<booted, serving>>

\* The events driver reads the three words of one event.
ServeEvents ==
    /\ serving = irq["events"] /\ left > 0
    /\ EventsStep(Ev!dequeue_event)
    /\ left' = left - 1
    /\ UNCHANGED <<booted, serving>>

\* The battery driver reads the status, then the properties it names.
ServeBattery ==
    /\ serving = irq["battery"]
    /\ \/ left = 1 /\ BatteryStep(Bat!ReadIntStatus) /\ left' = 0
       \/ /\ left = 0 /\ BatteryStep(\E k \in Bat!Kinds : Bat!ReadProperties(k))
          /\ left' = 0
    /\ UNCHANGED <<booted, serving>>

\* The handler is done and the line is unmasked.
Exit ==
    /\ serving # None /\ left = 0 /\ toRead = {}
    /\ Enable(serving)
    /\ serving' = None
    /\ UNCHANGED <<busVars, evVars, batVars, booted, left>>

Kernel ==
    \/ Boot
    \/ RequestBusIrq
    \/ StartWalk
    \/ \E dev \in {"events", "battery"} : RequestIrq(dev)
    \/ Probe
    \/ Enter
    \/ ServeBus
    \/ ServeEvents
    \/ ServeBattery
    \/ Exit

\* Nothing to do until the host acts.
Quiet ==
    /\ booted = 1 /\ probed /\ serving = None /\ parent_irq = 0
    /\ UNCHANGED boardVars

BoardNext ==
    \/ \E dev \in Devices : AddDevice(dev)
    \/ Start
    \/ UserInput
    \/ \E kind \in Bat!Kinds : PowerChange(kind)
    \/ Kernel
    \/ Quiet

\* The set-up of the board runs to its end, and then the virtual CPU keeps
\* running.
BoardSpec ==
    /\ BoardInit /\ [][BoardNext]_boardVars
    /\ WF_boardVars((\E dev \in Devices : AddDevice(dev)) \/ Start)
    /\ WF_boardVars(Kernel)

-----------------------------------------------------------------------------
\* However the options mix devices with fixed and with allocated resources, no
\* two registered devices share registers or an interrupt line
\* (goldfish_add_device_no_io).
ResourcesDisjoint == Bus!ResourcesDisjoint

\* The kernel's walk of the bus is exact even when it is restarted in the
\* middle: devices are reported in order, none twice, and DONE means all.
WalkExact == Bus!WalkExact

\* The guest comes up: the walk of the bus ends and its interrupt is lowered,
\* and the drivers of the devices it reported get their lines.
DriversComeUp == <>(probed /\ irq["events"] \in irq_enabled)

\* The driver, which reads three words an interrupt, always gets a whole event,
\* and the events in the order they were made.
EventsInOrder ==
    /\ Ev!InOrder
    /\ serving = irq["events"] => Ev!Enqueued >= left

\* Every event accepted is read by its driver and every change of the battery
\* is seen by its own, through masking and unmasking and although the
\* controller always names the lowest line first.
AllServed ==
    /\ \A n \in 1..MaxPut : accepted >= n ~> taken >= 3 * n
    /\ \A k \in Bat!Kinds, n \in 1..MaxChanges : value[k] >= n ~> seen[k] >= n

=============================================================================
