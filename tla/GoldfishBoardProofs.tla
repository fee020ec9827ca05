------------------------ MODULE GoldfishBoardProofs ------------------------
(***************************************************************************)
(* Proofs about the board (GoldfishBoard): the interrupt controller, the   *)
(* registry and its walk, and the event queue, each on its own and with    *)
(* the kernel between them.                                                *)
(***************************************************************************)
EXTENDS GoldfishBoard, FiniteSetTheorems, WellFoundedInduction, TLAPS

-----------------------------------------------------------------------------
(* The inductive invariant.                                                *)

\* The controller: exact counter and exact CPU inputs.
CtrlInv ==
    /\ IsFiniteSet(level) /\ level \subseteq Nat
    /\ irq_enabled \subseteq Nat
    /\ PendingCountExact
    /\ parent_irq = IF level \cap irq_enabled # {} THEN 1 ELSE 0
    /\ fiq_enabled = {} /\ parent_fiq = 0
    /\ NoPhantomLevel

\* The registry: what was handed out lies between the first free resource and
\* the next one, and fixed resources never change.  (ResourcesDisjoint does not
\* follow from itself: a device that comes with its own base must miss those
\* that were given one before.)
RegistryTypes ==
    /\ order \in Seq(Devices)
    /\ \A i, j \in 1..Len(order) : order[i] = order[j] => i = j
    /\ base \in [Devices -> Nat] /\ irq \in [Devices -> Nat]
    /\ goldfish_free_base \in Nat /\ goldfish_free_base >= FreeBase
    /\ goldfish_free_irq \in Nat /\ goldfish_free_irq >= FreeIrq

BasePlaced ==
    \A d \in Devices :
        /\ WantBase[d] # 0 => base[d] = WantBase[d]
        /\ WantBase[d] = 0 =>
             IF d \in Bus!Registered
             THEN base[d] >= FreeBase /\ base[d] + Size[d] <= goldfish_free_base
             ELSE base[d] = 0

IrqPlaced ==
    \A d \in Devices : IrqCount[d] # 0 =>
        /\ WantIrq[d] # 0 => irq[d] = WantIrq[d]
        /\ WantIrq[d] = 0 =>
             IF d \in Bus!Registered
             THEN irq[d] >= FreeIrq /\ irq[d] + IrqCount[d] <= goldfish_free_irq
             ELSE irq[d] = 0

BaseDisjoint ==
    \A d, e \in Bus!Registered : d # e =>
        base[d] + Size[d] <= base[e] \/ base[e] + Size[e] <= base[d]

IrqDisjoint ==
    \A d, e \in Bus!Registered : d # e =>
        \/ IrqCount[d] = 0 \/ IrqCount[e] = 0
        \/ irq[d] + IrqCount[d] <= irq[e]
        \/ irq[e] + IrqCount[e] <= irq[d]

RegistryInv ==
    RegistryTypes /\ BasePlaced /\ IrqPlaced /\ BaseDisjoint /\ IrqDisjoint

\* The walk: the guest has been told of the first devices of the list, and
\* those before the current one are marked as reported.
Told(n) ==
    /\ found \in Seq(Devices) /\ Len(found) = n
    /\ n \in 0..Len(order)
    /\ \A i \in 1..n : found[i] = order[i]

WalkInv ==
    \/ /\ current = 0 /\ Told(0) /\ reported = {} /\ answer = "none"
    \/ /\ current = 0 /\ Told(Len(order)) /\ reported = Bus!Registered
       /\ answer = "DONE" /\ running
    \/ /\ current \in 1..Len(order) /\ Told(current)
       /\ reported = {order[i] : i \in 1..current - 1}
       /\ answer = "ADD_DEV" /\ running

\* The ring: its interrupt is high only if it holds something.
RingInv == Ev!TypeOK /\ Ev!InOrder /\ (evLine = 1 => first # last)

\* The kernel: nothing happens before the guest runs; then the lines of the
\* three devices are apart, the controller is told of the events device's line
\* as it is, and words are taken from the ring three at a time.
KernelInv ==
    /\ running \in BOOLEAN /\ left \in Nat
    /\ serving \in Nat \cup {None}
    /\ ~running => /\ booted = 0 /\ ~probed /\ serving = None
                   /\ irq_enabled = {} /\ level = {} /\ driven = {}
                   /\ evLine = 0
    /\ running => {"bus", "events", "battery"} \subseteq Bus!Registered
    /\ irq["events"] \in driven => evLine = 1
    /\ serving = irq["events"] => left <= Ev!Enqueued
    /\ \E t \in Nat : taken + (IF serving = irq["events"] THEN left ELSE 0) = 3 * t

IInv == CtrlInv /\ RegistryInv /\ WalkInv /\ RingInv /\ KernelInv

-----------------------------------------------------------------------------
(* The interrupt controller, for any set of lines.                         *)

\* Adding an absent line to a finite set of lines makes it one larger.
LEMMA AddLine ==
    ASSUME NEW S, IsFiniteSet(S), NEW n, n \notin S
    PROVE  /\ Cardinality(S) \in Nat
           /\ Cardinality(S \cup {n}) = Cardinality(S) + 1
  BY FS_AddElement, FS_CardinalityType

\* Removing a present line from a finite set of lines makes it one smaller.
LEMMA RemoveLine ==
    ASSUME NEW S, IsFiniteSet(S), NEW n \in S
    PROVE  /\ Cardinality(S) \in Nat
           /\ Cardinality(S \ {n}) = Cardinality(S) - 1
  BY FS_RemoveElement, FS_CardinalityType

\* goldfish_int_update makes the CPU's inputs exact.
LEMMA UpdateExact ==
    ASSUME fiq_enabled' = {}, goldfish_int_update
    PROVE  /\ parent_irq' = IF level' \cap irq_enabled' # {} THEN 1 ELSE 0
           /\ parent_fiq' = 0
  BY DEF goldfish_int_update

\* The reset state satisfies the invariant.
LEMMA InitCtrl == Init => CtrlInv
  BY FS_EmptySet DEF Init, CtrlInv, PendingCountExact, NoPhantomLevel

\* Driving a line high keeps it.
LEMMA RaiseCtrl ==
    ASSUME CtrlInv, NEW n \in Nat, RaiseIrq(n)
    PROVE  CtrlInv'
<1> DEFINE pending == level \cap irq_enabled
<1>1. /\ IsFiniteSet(level) /\ level \subseteq Nat /\ irq_enabled \subseteq Nat
      /\ fiq_enabled = {} /\ level \subseteq driven
      /\ pending_count = Cardinality(pending)
  BY DEF CtrlInv, PendingCountExact, NoPhantomLevel
<1>2. /\ level' = level \cup {n} /\ driven' = driven \cup {n}
      /\ irq_enabled' = irq_enabled /\ fiq_enabled' = {}
      /\ goldfish_int_update
  BY <1>1 DEF RaiseIrq
<1>3. IsFiniteSet(level') /\ IsFiniteSet(pending)
  BY <1>1, <1>2, FS_AddElement, FS_Subset
<1>4. pending_count' = Cardinality(level' \cap irq_enabled')
  <2>1. CASE n \in level \/ n \notin irq_enabled
    <3>1. level' \cap irq_enabled' = pending
      BY <1>2, <2>1
    <3>2. pending_count' = pending_count
      BY <2>1 DEF RaiseIrq
    <3> QED
      BY <1>1, <3>1, <3>2
  <2>2. CASE n \notin level /\ n \in irq_enabled
    <3>1. level' \cap irq_enabled' = pending \cup {n} /\ n \notin pending
      BY <1>2, <2>2
    <3>2. pending_count' = pending_count + 1
      BY <2>2 DEF RaiseIrq
    <3> QED
      BY <1>1, <1>3, <3>1, <3>2, AddLine
  <2> QED
    BY <2>1, <2>2
<1> QED
  BY <1>1, <1>2, <1>3, <1>4, UpdateExact DEF CtrlInv, PendingCountExact, NoPhantomLevel

\* Driving a line low keeps it.
LEMMA LowerCtrl ==
    ASSUME CtrlInv, NEW n \in Nat, LowerIrq(n)
    PROVE  CtrlInv'
<1> DEFINE pending == level \cap irq_enabled
<1>1. /\ IsFiniteSet(level) /\ level \subseteq Nat /\ irq_enabled \subseteq Nat
      /\ fiq_enabled = {} /\ level \subseteq driven
      /\ pending_count = Cardinality(pending)
  BY DEF CtrlInv, PendingCountExact, NoPhantomLevel
<1>2. /\ level' = level \ {n} /\ driven' = driven \ {n}
      /\ irq_enabled' = irq_enabled /\ fiq_enabled' = {}
      /\ goldfish_int_update
  BY <1>1 DEF LowerIrq
<1>3. IsFiniteSet(level') /\ IsFiniteSet(pending)
  BY <1>1, <1>2, FS_Subset
<1>4. pending_count' = Cardinality(level' \cap irq_enabled')
  <2>1. CASE n \notin level \/ n \notin irq_enabled
    <3>1. level' \cap irq_enabled' = pending
      BY <1>2, <2>1
    <3>2. pending_count' = pending_count
      BY <2>1 DEF LowerIrq
    <3> QED
      BY <1>1, <3>1, <3>2
  <2>2. CASE n \in level /\ n \in irq_enabled
    <3>1. level' \cap irq_enabled' = pending \ {n} /\ n \in pending
      BY <1>2, <2>2
    <3>2. pending_count' = pending_count - 1
      BY <2>2 DEF LowerIrq
    <3> QED
      BY <1>1, <1>3, <3>1, <3>2, RemoveLine
  <2> QED
    BY <2>1, <2>2
<1> QED
  BY <1>1, <1>2, <1>3, <1>4, UpdateExact DEF CtrlInv, PendingCountExact, NoPhantomLevel

\* Masking a line keeps it.
LEMMA DisableCtrl ==
    ASSUME CtrlInv, NEW n \in Nat, Disable(n)
    PROVE  CtrlInv'
<1> DEFINE pending == level \cap irq_enabled
<1>1. /\ IsFiniteSet(level) /\ level \subseteq Nat /\ irq_enabled \subseteq Nat
      /\ fiq_enabled = {} /\ level \subseteq driven
      /\ pending_count = Cardinality(pending)
  BY DEF CtrlInv, PendingCountExact, NoPhantomLevel
<1>2. /\ irq_enabled' = irq_enabled \ {n} /\ level' = level /\ driven' = driven
      /\ fiq_enabled' = {} /\ goldfish_int_update
  BY <1>1 DEF Disable
<1>3. IsFiniteSet(level') /\ IsFiniteSet(pending)
  BY <1>1, <1>2, FS_Subset
<1>4. pending_count' = Cardinality(level' \cap irq_enabled')
  <2>1. CASE n \notin level \/ n \notin irq_enabled
    <3>1. level' \cap irq_enabled' = pending
      BY <1>2, <2>1
    <3>2. pending_count' = pending_count
      BY <2>1 DEF Disable
    <3> QED
      BY <1>1, <3>1, <3>2
  <2>2. CASE n \in level /\ n \in irq_enabled
    <3>1. level' \cap irq_enabled' = pending \ {n} /\ n \in pending
      BY <1>2, <2>2
    <3>2. pending_count' = pending_count - 1
      BY <2>2 DEF Disable
    <3> QED
      BY <1>1, <1>3, <3>1, <3>2, RemoveLine
  <2> QED
    BY <2>1, <2>2
<1> QED
  BY <1>1, <1>2, <1>3, <1>4, UpdateExact DEF CtrlInv, PendingCountExact, NoPhantomLevel

\* Unmasking a line keeps it.
LEMMA EnableCtrl ==
    ASSUME CtrlInv, NEW n \in Nat, Enable(n)
    PROVE  CtrlInv'
<1> DEFINE pending == level \cap irq_enabled
<1>1. /\ IsFiniteSet(level) /\ level \subseteq Nat /\ irq_enabled \subseteq Nat
      /\ fiq_enabled = {} /\ level \subseteq driven
      /\ pending_count = Cardinality(pending)
  BY DEF CtrlInv, PendingCountExact, NoPhantomLevel
<1>2. /\ irq_enabled' = irq_enabled \cup {n} /\ level' = level /\ driven' = driven
      /\ fiq_enabled' = {} /\ goldfish_int_update
  BY <1>1 DEF Enable
<1>3. IsFiniteSet(level') /\ IsFiniteSet(pending)
  BY <1>1, <1>2, FS_Subset
<1>4. pending_count' = Cardinality(level' \cap irq_enabled')
  <2>1. CASE n \notin level \/ n \in irq_enabled
    <3>1. level' \cap irq_enabled' = pending
      BY <1>2, <2>1
    <3>2. pending_count' = pending_count
      BY <2>1 DEF Enable
    <3> QED
      BY <1>1, <3>1, <3>2
  <2>2. CASE n \in level /\ n \notin irq_enabled
    <3>1. level' \cap irq_enabled' = pending \cup {n} /\ n \notin pending
      BY <1>2, <2>2
    <3>2. pending_count' = pending_count + 1
      BY <2>2 DEF Enable
    <3> QED
      BY <1>1, <1>3, <3>1, <3>2, AddLine
  <2> QED
    BY <2>1, <2>2
<1> QED
  BY <1>1, <1>2, <1>3, <1>4, UpdateExact DEF CtrlInv, PendingCountExact, NoPhantomLevel

\* So does clearing the controller's record of all lines.
LEMMA DisableAllCtrl == CtrlInv /\ DisableAll => CtrlInv'
<1> SUFFICES ASSUME CtrlInv, DisableAll PROVE CtrlInv'
  OBVIOUS
<1>1. /\ level' = {} /\ pending_count' = 0 /\ irq_enabled' = irq_enabled
      /\ fiq_enabled' = {} /\ goldfish_int_update
  BY DEF DisableAll, CtrlInv
<1>2. IsFiniteSet(level') /\ level' \cap irq_enabled' = {} /\ Cardinality({}) = 0
  BY <1>1, FS_EmptySet
<1> QED
  BY <1>1, <1>2, UpdateExact DEF CtrlInv, PendingCountExact, NoPhantomLevel

\* A step that leaves the controller alone keeps its invariant.
LEMMA SameCtrl == CtrlInv /\ UNCHANGED vars => CtrlInv'
  BY DEF CtrlInv, vars, PendingCountExact, NoPhantomLevel

\* When lines are pending, INTERRUPT_NUMBER names one of them.
LEMMA NumberPending ==
    ASSUME CtrlInv, level \cap irq_enabled # {}
    PROVE  InterruptNumber \in level \cap irq_enabled
<1> DEFINE pending == level \cap irq_enabled
<1>1. pending \in SUBSET Nat /\ pending # {}
  BY DEF CtrlInv
<1>2. PICK i \in pending : \A j \in pending : <<j, i>> \notin OpToRel(<, Nat)
  BY <1>1, NatLessThanWellFounded, WFMin
<1>3. \A j \in pending : ~ (j < i)
  BY <1>1, <1>2 DEF OpToRel
<1>4. \A j \in pending : i <= j
  BY <1>1, <1>3
<1> QED
  BY <1>1, <1>4 DEF InterruptNumber

\* The invariant gives the guest a consistent view.
LEMMA CtrlGuestView == CtrlInv => GuestViewConsistent
<1> SUFFICES ASSUME CtrlInv PROVE GuestViewConsistent
  OBVIOUS
<1> DEFINE pending == level \cap irq_enabled
<1>1. IsFiniteSet(pending)
  BY FS_Subset DEF CtrlInv
<1>2. Cardinality(pending) \in Nat /\ (Cardinality(pending) = 0 <=> pending = {})
  BY <1>1, FS_CardinalityType, FS_EmptySet
<1>3. pending_count > 0 <=> pending # {}
  <2>1. pending_count = Cardinality(pending)
    BY DEF CtrlInv, PendingCountExact
  <2> HIDE DEF pending
  <2> QED
    BY <1>2, <2>1
<1> QED
  BY <1>3, NumberPending DEF CtrlInv, GuestViewConsistent

-----------------------------------------------------------------------------
(* The registry, for any devices in any order.                             *)

\* A board without devices satisfies the invariant.
LEMMA InitRegistry == Bus!Init => RegistryInv /\ WalkInv
<1> SUFFICES ASSUME Bus!Init PROVE RegistryInv /\ WalkInv
  OBVIOUS
<1>1. order = <<>> /\ found = <<>> /\ Bus!Registered = {}
  BY DEF Bus!Init, Bus!Registered
<1>2. RegistryTypes
  BY <1>1, FixedResources DEF Bus!FixedBelowFree, Bus!Init, RegistryTypes
<1>3. BasePlaced /\ IrqPlaced
  BY <1>1, FixedResources DEF Bus!FixedBelowFree, Bus!Init, BasePlaced, IrqPlaced
<1>4. BaseDisjoint /\ IrqDisjoint
  BY <1>1 DEF BaseDisjoint, IrqDisjoint
<1>5. WalkInv
  BY <1>1 DEF WalkInv, Told, Bus!Init
<1> QED
  BY <1>2, <1>3, <1>4, <1>5 DEF RegistryInv

\* Appending a device to the list registers it and no other, at a position of
\* its own.
LEMMA AppendRegisters ==
    ASSUME NEW dev \in Devices, RegistryTypes, dev \notin Bus!Registered,
           order' = Append(order, dev)
    PROVE  /\ Bus!Registered' = Bus!Registered \cup {dev}
           /\ order' \in Seq(Devices)
           /\ \A i, j \in 1..Len(order') : order'[i] = order'[j] => i = j
<1>1. order \in Seq(Devices) /\ Len(order) \in Nat /\ Len(order') = Len(order) + 1
  BY DEF RegistryTypes
<1>2. DOMAIN order = 1..Len(order) /\ DOMAIN order' = 1..Len(order) + 1
  BY <1>1
<1>3. \A i \in 1..Len(order) : order'[i] = order[i]
  BY <1>1
<1>4. order'[Len(order) + 1] = dev
  BY <1>1
<1>5. Bus!Registered' = {order'[i] : i \in 1..Len(order) + 1}
  BY <1>2 DEF Bus!Registered
<1>6. Bus!Registered = {order[i] : i \in 1..Len(order)}
  BY <1>2 DEF Bus!Registered
<1>7. order' \in Seq(Devices)
  BY <1>1
<1>8. Bus!Registered' = Bus!Registered \cup {dev}
  BY <1>1, <1>3, <1>4, <1>5, <1>6
<1>9. ASSUME NEW i \in 1..Len(order'), NEW j \in 1..Len(order'), order'[i] = order'[j]
      PROVE  i = j
  <2>1. \A x \in 1..Len(order) : order[x] # dev
    BY <1>6
  <2>2. CASE i \in 1..Len(order) /\ j \in 1..Len(order)
    BY <2>2, <1>3, <1>9 DEF RegistryTypes
  <2>3. CASE i \in 1..Len(order) /\ j \notin 1..Len(order)
    <3>1. j = Len(order) + 1
      BY <1>1, <2>3
    <3> QED
      BY <2>1, <2>3, <3>1, <1>3, <1>4, <1>9
  <2>4. CASE i \notin 1..Len(order) /\ j \in 1..Len(order)
    <3>1. i = Len(order) + 1
      BY <1>1, <2>4
    <3> QED
      BY <2>1, <2>4, <3>1, <1>3, <1>4, <1>9
  <2>5. CASE i \notin 1..Len(order) /\ j \notin 1..Len(order)
    BY <1>1, <2>5
  <2> QED
    BY <2>2, <2>3, <2>4, <2>5
<1> QED
  BY <1>7, <1>8, <1>9

\* Registered devices are devices.
LEMMA RegisteredAreDevices == RegistryTypes => Bus!Registered \subseteq Devices
  BY DEF RegistryTypes, Bus!Registered

\* Registering a device keeps the invariant: a fixed resource was apart from
\* all others from the start, an allocated one begins where the last ended.
LEMMA AddRegistry ==
    ASSUME RegistryInv, NEW dev \in Devices, Bus!goldfish_add_device_no_io(dev)
    PROVE  RegistryInv'
<1>0. /\ Size[dev] \in Nat /\ IrqCount[dev] \in Nat
      /\ FreeBase \in Nat /\ FreeIrq \in Nat
      /\ \A d \in Devices : /\ WantBase[d] \in Nat /\ Size[d] \in Nat
                            /\ WantIrq[d] \in Nat /\ IrqCount[d] \in Nat
  BY FixedResources DEF Bus!FixedBelowFree
<1>1. /\ Bus!Registered' = Bus!Registered \cup {dev} /\ dev \notin Bus!Registered
      /\ Bus!Registered \subseteq Devices
  <2>1. dev \notin Bus!Registered /\ order' = Append(order, dev)
    BY DEF Bus!goldfish_add_device_no_io
  <2>2. RegistryTypes
    BY DEF RegistryInv
  <2> QED
    BY <2>1, <2>2, AppendRegisters, RegisteredAreDevices
<1>2. /\ order' \in Seq(Devices)
      /\ \A i, j \in 1..Len(order') : order'[i] = order'[j] => i = j
  <2>1. dev \notin Bus!Registered /\ order' = Append(order, dev)
    BY DEF Bus!goldfish_add_device_no_io
  <2>2. RegistryTypes
    BY DEF RegistryInv
  <2> QED
    BY <2>1, <2>2, AppendRegisters
<1>3. /\ base' \in [Devices -> Nat] /\ goldfish_free_base' \in Nat
      /\ goldfish_free_base' >= goldfish_free_base
      /\ \A d \in Devices \ {dev} : base'[d] = base[d]
  <2>1. CASE base[dev] = 0
    <3>1. /\ base' = [base EXCEPT ![dev] = goldfish_free_base]
          /\ goldfish_free_base' = goldfish_free_base + Size[dev]
      BY <2>1 DEF Bus!goldfish_add_device_no_io
    <3>2. base \in [Devices -> Nat] /\ goldfish_free_base \in Nat
      BY DEF RegistryInv, RegistryTypes
    <3>3. base' \in [Devices -> Nat] /\ \A d \in Devices \ {dev} : base'[d] = base[d]
      BY <3>1, <3>2
    <3>4. goldfish_free_base' \in Nat /\ goldfish_free_base' >= goldfish_free_base
      BY <3>1, <3>2, <1>0
    <3> QED
      BY <3>3, <3>4
  <2>2. CASE base[dev] # 0
    BY <2>2, <1>0 DEF RegistryInv, RegistryTypes, Bus!goldfish_add_device_no_io
  <2> QED
    BY <2>1, <2>2
<1>4. /\ irq' \in [Devices -> Nat] /\ goldfish_free_irq' \in Nat
      /\ goldfish_free_irq' >= goldfish_free_irq
      /\ \A d \in Devices \ {dev} : irq'[d] = irq[d]
  <2>1. CASE irq[dev] = 0 /\ IrqCount[dev] > 0
    <3>1. /\ irq' = [irq EXCEPT ![dev] = goldfish_free_irq]
          /\ goldfish_free_irq' = goldfish_free_irq + IrqCount[dev]
      BY <2>1 DEF Bus!goldfish_add_device_no_io, Bus!IrqAfter
    <3>2. irq \in [Devices -> Nat] /\ goldfish_free_irq \in Nat
      BY DEF RegistryInv, RegistryTypes
    <3>3. irq' \in [Devices -> Nat] /\ \A d \in Devices \ {dev} : irq'[d] = irq[d]
      BY <3>1, <3>2
    <3>4. goldfish_free_irq' \in Nat /\ goldfish_free_irq' >= goldfish_free_irq
      BY <3>1, <3>2, <1>0
    <3> QED
      BY <3>3, <3>4
  <2>2. CASE ~(irq[dev] = 0 /\ IrqCount[dev] > 0)
    BY <2>2, <1>0 DEF RegistryInv, RegistryTypes, Bus!goldfish_add_device_no_io
  <2> QED
    BY <2>1, <2>2
<1>5. RegistryTypes'
  BY <1>0, <1>2, <1>3, <1>4 DEF RegistryInv, RegistryTypes
<1>6. IF WantBase[dev] # 0 THEN base'[dev] = WantBase[dev]
      ELSE /\ base'[dev] = goldfish_free_base
           /\ goldfish_free_base' = goldfish_free_base + Size[dev]
  BY <1>0, <1>1 DEF RegistryInv, RegistryTypes, BasePlaced, Bus!goldfish_add_device_no_io
<1>7. IrqCount[dev] # 0 =>
        IF WantIrq[dev] # 0 THEN irq'[dev] = WantIrq[dev]
        ELSE /\ irq'[dev] = goldfish_free_irq
             /\ goldfish_free_irq' = goldfish_free_irq + IrqCount[dev]
  BY <1>0, <1>1 DEF RegistryInv, RegistryTypes, IrqPlaced, Bus!goldfish_add_device_no_io, Bus!IrqAfter
<1>8. BasePlaced'
  <2> SUFFICES ASSUME NEW d \in Devices
      PROVE /\ WantBase[d] # 0 => base'[d] = WantBase[d]
            /\ WantBase[d] = 0 =>
                 IF d \in Bus!Registered'
                 THEN base'[d] >= FreeBase /\ base'[d] + Size[d] <= goldfish_free_base'
                 ELSE base'[d] = 0
    BY DEF BasePlaced
  <2>1. CASE d = dev
    BY <2>1, <1>0, <1>1, <1>3, <1>6 DEF RegistryInv, RegistryTypes
  <2>2. CASE d # dev
    BY <2>2, <1>0, <1>1, <1>3 DEF RegistryInv, RegistryTypes, BasePlaced
  <2> QED
    BY <2>1, <2>2
<1>9. IrqPlaced'
  <2> SUFFICES ASSUME NEW d \in Devices, IrqCount[d] # 0
      PROVE /\ WantIrq[d] # 0 => irq'[d] = WantIrq[d]
            /\ WantIrq[d] = 0 =>
                 IF d \in Bus!Registered'
                 THEN irq'[d] >= FreeIrq /\ irq'[d] + IrqCount[d] <= goldfish_free_irq'
                 ELSE irq'[d] = 0
    BY DEF IrqPlaced
  <2>1. CASE d = dev
    BY <2>1, <1>0, <1>1, <1>4, <1>7 DEF RegistryInv, RegistryTypes
  <2>2. CASE d # dev
    BY <2>2, <1>0, <1>1, <1>4 DEF RegistryInv, RegistryTypes, IrqPlaced
  <2> QED
    BY <2>1, <2>2
<1>10. \A d \in Bus!Registered :
         base'[d] + Size[d] <= base'[dev] \/ base'[dev] + Size[dev] <= base'[d]
  <2> SUFFICES ASSUME NEW d \in Bus!Registered
      PROVE base'[d] + Size[d] <= base'[dev] \/ base'[dev] + Size[dev] <= base'[d]
    OBVIOUS
  <2>1. d \in Devices /\ d # dev /\ base'[d] = base[d]
    BY <1>1, <1>3
  <2>2. /\ WantBase[d] # 0 => base[d] = WantBase[d]
        /\ WantBase[d] = 0 =>
             base[d] >= FreeBase /\ base[d] + Size[d] <= goldfish_free_base
    BY <2>1 DEF RegistryInv, BasePlaced
  <2>3. /\ WantBase[d] # 0 => WantBase[d] + Size[d] <= FreeBase
        /\ WantBase[dev] # 0 => WantBase[dev] + Size[dev] <= FreeBase
        /\ WantBase[d] # 0 /\ WantBase[dev] # 0 =>
             \/ WantBase[d] + Size[d] <= WantBase[dev]
             \/ WantBase[dev] + Size[dev] <= WantBase[d]
    BY <2>1, FixedResources DEF Bus!FixedBelowFree
  <2>4. goldfish_free_base \in Nat /\ goldfish_free_base >= FreeBase /\ base[d] \in Nat
    BY <2>1 DEF RegistryInv, RegistryTypes
  <2>5. base[d] + Size[d] <= goldfish_free_base
    BY <2>1, <2>2, <2>3, <2>4, <1>0
  <2>6. CASE WantBase[dev] = 0
    BY <2>1, <2>5, <2>6, <1>6
  <2>7. CASE WantBase[dev] # 0
    BY <2>1, <2>2, <2>3, <2>4, <2>7, <1>0, <1>6
  <2> QED
    BY <2>6, <2>7
<1>11. \A d \in Bus!Registered :
         \/ IrqCount[d] = 0 \/ IrqCount[dev] = 0
         \/ irq'[d] + IrqCount[d] <= irq'[dev]
         \/ irq'[dev] + IrqCount[dev] <= irq'[d]
  <2> SUFFICES ASSUME NEW d \in Bus!Registered, IrqCount[d] # 0, IrqCount[dev] # 0
      PROVE irq'[d] + IrqCount[d] <= irq'[dev] \/ irq'[dev] + IrqCount[dev] <= irq'[d]
    OBVIOUS
  <2>1. d \in Devices /\ d # dev /\ irq'[d] = irq[d]
    BY <1>1, <1>4
  <2>2. /\ WantIrq[d] # 0 => irq[d] = WantIrq[d]
        /\ WantIrq[d] = 0 =>
             irq[d] >= FreeIrq /\ irq[d] + IrqCount[d] <= goldfish_free_irq
    BY <2>1 DEF RegistryInv, IrqPlaced
  <2>3. /\ WantIrq[d] # 0 => WantIrq[d] + IrqCount[d] <= FreeIrq
        /\ WantIrq[dev] # 0 => WantIrq[dev] + IrqCount[dev] <= FreeIrq
        /\ WantIrq[d] # 0 /\ WantIrq[dev] # 0 =>
             \/ WantIrq[d] + IrqCount[d] <= WantIrq[dev]
             \/ WantIrq[dev] + IrqCount[dev] <= WantIrq[d]
    BY <2>1, FixedResources DEF Bus!FixedBelowFree
  <2>4. goldfish_free_irq \in Nat /\ goldfish_free_irq >= FreeIrq /\ irq[d] \in Nat
    BY <2>1 DEF RegistryInv, RegistryTypes
  <2>5. irq[d] + IrqCount[d] <= goldfish_free_irq
    BY <2>1, <2>2, <2>3, <2>4, <1>0
  <2>6. CASE WantIrq[dev] = 0
    BY <2>1, <2>5, <2>6, <1>7
  <2>7. CASE WantIrq[dev] # 0
    BY <2>1, <2>2, <2>3, <2>4, <2>7, <1>0, <1>7
  <2> QED
    BY <2>6, <2>7
<1>12. BaseDisjoint'
  BY <1>1, <1>3, <1>10 DEF RegistryInv, BaseDisjoint
<1>13. IrqDisjoint'
  BY <1>1, <1>4, <1>11 DEF RegistryInv, IrqDisjoint
<1> QED
  BY <1>5, <1>8, <1>9, <1>12, <1>13 DEF RegistryInv

\* Nothing else touches the registry.
LEMMA SameRegistry ==
    RegistryInv /\ UNCHANGED <<order, base, irq, goldfish_free_base, goldfish_free_irq>>
      => RegistryInv'
  BY DEF RegistryInv, RegistryTypes, BasePlaced, IrqPlaced, BaseDisjoint,
         IrqDisjoint, Bus!Registered

-----------------------------------------------------------------------------
(* The walk of the bus.                                                    *)

\* What the guest has been told stays true while the list is the same.
LEMMA SameWalk ==
    WalkInv /\ UNCHANGED <<order, running, reported, current, answer, found>> => WalkInv'
<1> SUFFICES ASSUME WalkInv,
                    UNCHANGED <<order, running, reported, current, answer, found>>
             PROVE  WalkInv'
  OBVIOUS
<1>1. /\ order' = order /\ running' = running /\ reported' = reported
      /\ current' = current /\ answer' = answer /\ found' = found
  OBVIOUS
<1>2. Bus!Registered' = Bus!Registered
  BY <1>1 DEF Bus!Registered
<1>3. CASE current = 0 /\ Told(0) /\ reported = {} /\ answer = "none"
  BY <1>1, <1>3 DEF WalkInv, Told
<1>4. CASE /\ current = 0 /\ Told(Len(order)) /\ reported = Bus!Registered
           /\ answer = "DONE" /\ running
  BY <1>1, <1>2, <1>4 DEF WalkInv, Told
<1>5. CASE /\ current \in 1..Len(order) /\ Told(current)
           /\ reported = {order[i] : i \in 1..current - 1}
           /\ answer = "ADD_DEV" /\ running
  BY <1>1, <1>5 DEF WalkInv, Told
<1> QED
  BY <1>3, <1>4, <1>5 DEF WalkInv

\* Devices are registered before any walk.
LEMMA AddWalk ==
    ASSUME RegistryInv, WalkInv, NEW dev \in Devices, Bus!goldfish_add_device_no_io(dev)
    PROVE  WalkInv'
<1>1. ~running /\ UNCHANGED <<reported, current, answer, found>>
  BY DEF Bus!goldfish_add_device_no_io, Bus!busVars
<1>2. current = 0 /\ Told(0) /\ reported = {} /\ answer = "none"
  BY <1>1 DEF WalkInv
<1>3. Len(order') \in Nat
  BY DEF RegistryInv, RegistryTypes, Bus!goldfish_add_device_no_io
<1> QED
  BY <1>1, <1>2, <1>3 DEF WalkInv, Told

\* OP_INIT begins a new walk.
LEMMA OpInitWalk == RegistryInv /\ Bus!goldfish_bus_op_init => WalkInv'
<1> SUFFICES ASSUME RegistryInv, Bus!goldfish_bus_op_init PROVE WalkInv'
  OBVIOUS
<1>1. /\ found' = <<>> /\ current' = 0 /\ reported' = {} /\ answer' = "none"
      /\ order' = order
  BY DEF Bus!goldfish_bus_op_init, Bus!ReportedAtInit, Bus!boardVars
<1>2. Len(order) \in Nat
  BY DEF RegistryInv, RegistryTypes
<1> QED
  BY <1>1, <1>2 DEF WalkInv, Told

\* When the first c devices are marked, the next one is at c + 1.
LEMMA NextUnreported ==
    ASSUME RegistryTypes, NEW c \in 0..Len(order)
    PROVE  LET told == {order[i] : i \in 1..c}
               rest == {i \in c + 1..Len(order) : order[i] \notin told}
           IN  /\ rest = c + 1..Len(order)
               /\ c < Len(order) => rest # {} /\ Bus!FirstOf(rest) = c + 1
               /\ c = Len(order) => rest = {}
<1> DEFINE told == {order[i] : i \in 1..c}
           rest == {i \in c + 1..Len(order) : order[i] \notin told}
<1>1. Len(order) \in Nat /\ c \in Nat
  BY DEF RegistryTypes
<1>2. \A i \in c + 1..Len(order) : order[i] \notin told
  <2> SUFFICES ASSUME NEW i \in c + 1..Len(order), NEW j \in 1..c, order[i] = order[j]
               PROVE  FALSE
    OBVIOUS
  <2>1. i \in 1..Len(order) /\ j \in 1..Len(order) /\ i # j
    BY <1>1
  <2> QED
    BY <2>1 DEF RegistryTypes
<1>3. rest = c + 1..Len(order)
  BY <1>2
<1> HIDE DEF rest
<1>4. ASSUME c < Len(order) PROVE rest # {} /\ Bus!FirstOf(rest) = c + 1
  <2>1. c + 1 \in rest /\ \A j \in rest : c + 1 <= j
    BY <1>1, <1>3, <1>4
  <2>2. \A i \in rest : (\A j \in rest : i <= j) => i = c + 1
    BY <1>1, <1>3, <2>1
  <2> QED
    BY <2>1, <2>2 DEF Bus!FirstOf
<1>5. ASSUME c = Len(order) PROVE rest = {}
  BY <1>1, <1>3, <1>5
<1> QED
  BY <1>3, <1>4, <1>5 DEF rest

\* One more device is added to what the guest knows.
LEMMA ToldNext ==
    ASSUME RegistryTypes, NEW c \in 0..Len(order), c < Len(order), Told(c),
           order' = order, found' = Append(found, order[c + 1])
    PROVE  Told(c + 1)'
<1>1. c \in Nat /\ Len(order) \in Nat /\ c + 1 \in 1..Len(order) /\ order[c + 1] \in Devices
  BY DEF RegistryTypes
<1>2. found \in Seq(Devices) /\ Len(found) = c /\ \A i \in 1..c : found[i] = order[i]
  BY DEF Told
<1>3. /\ found' \in Seq(Devices) /\ Len(found') = c + 1
      /\ \A i \in 1..c : found'[i] = found[i]
      /\ found'[c + 1] = order[c + 1]
  BY <1>1, <1>2
<1>4. \A i \in 1..c + 1 : found'[i] = order'[i]
  <2> TAKE i \in 1..c + 1
  <2>1. CASE i = c + 1
    BY <2>1, <1>3
  <2>2. CASE i # c + 1
    BY <2>2, <1>1, <1>2, <1>3
  <2> QED
    BY <2>1, <2>2
<1>5. c + 1 \in 0..Len(order')
  BY <1>1
<1> QED
  BY <1>3, <1>4, <1>5 DEF Told

\* A read of PDEV_BUS_OP goes one device further.
LEMMA BusOpWalk == RegistryInv /\ WalkInv /\ Bus!BusOp => WalkInv'
<1> SUFFICES ASSUME RegistryInv, WalkInv, Bus!BusOp PROVE WalkInv'
  OBVIOUS
<1> DEFINE told == IF current # 0 THEN reported \cup {order[current]} ELSE reported
           rest == {i \in current + 1..Len(order) : order[i] \notin told}
<1>1. RegistryTypes /\ order \in Seq(Devices) /\ Len(order) \in Nat
  BY DEF RegistryInv, RegistryTypes
<1>2. /\ running /\ running' = running /\ order' = order
      /\ reported' = told
      /\ current' = IF rest = {} THEN 0 ELSE Bus!FirstOf(rest)
      /\ answer' = IF rest = {} THEN "DONE" ELSE "ADD_DEV"
      /\ found' = IF rest = {} THEN found ELSE Append(found, order[Bus!FirstOf(rest)])
  BY DEF Bus!BusOp, Bus!boardVars
<1>3. Bus!Registered = {order[i] : i \in 1..Len(order)} /\ Bus!Registered' = Bus!Registered
  BY <1>1, <1>2 DEF Bus!Registered
<1>4. ASSUME NEW c \in 0..Len(order), current = c, Told(c), told = {order[i] : i \in 1..c}
      PROVE  WalkInv'
  <2>1. /\ c < Len(order) => rest # {} /\ Bus!FirstOf(rest) = c + 1
        /\ c = Len(order) => rest = {}
    BY <1>1, <1>4, NextUnreported
  <2> HIDE DEF told, rest
  <2>2. CASE c < Len(order)
    <3>1. /\ current' = c + 1 /\ answer' = "ADD_DEV"
          /\ found' = Append(found, order[c + 1])
      BY <1>2, <2>1, <2>2
    <3>2. Told(c + 1)'
      BY <1>1, <1>2, <1>4, <2>2, <3>1, ToldNext
    <3>3. current' \in 1..Len(order') /\ current' - 1 = c
      BY <1>1, <1>2, <2>2, <3>1
    <3>4. reported' = {order'[i] : i \in 1..current' - 1}
      BY <1>2, <1>4, <3>3
    <3>5. Told(current)'
      BY <3>1, <3>2 DEF Told
    <3> QED
      BY <1>2, <3>1, <3>3, <3>4, <3>5 DEF WalkInv
  <2>3. CASE c = Len(order)
    <3>1. current' = 0 /\ answer' = "DONE" /\ found' = found
      BY <1>2, <2>1, <2>3
    <3>2. Told(Len(order))'
      BY <1>2, <1>4, <2>3, <3>1 DEF Told
    <3>3. reported' = Bus!Registered'
      BY <1>2, <1>3, <1>4, <2>3
    <3> QED
      BY <1>2, <3>1, <3>2, <3>3 DEF WalkInv
  <2> QED
    BY <1>1, <2>2, <2>3
<1>5. CASE current = 0 /\ Told(0) /\ reported = {}
  <2>1. told = {order[i] : i \in 1..0} /\ 0 \in 0..Len(order)
    BY <1>1, <1>5
  <2> QED
    BY <1>4, <1>5, <2>1
<1>6. CASE current = 0 /\ Told(Len(order)) /\ reported = Bus!Registered
  <2>1. told = Bus!Registered /\ rest = {}
    BY <1>1, <1>3, <1>6
  <2> HIDE DEF told, rest
  <2>2. current' = 0 /\ answer' = "DONE" /\ found' = found /\ reported' = Bus!Registered'
    BY <1>2, <1>3, <2>1
  <2>3. Told(Len(order))'
    BY <1>2, <1>6, <2>2 DEF Told
  <2> QED
    BY <1>2, <2>2, <2>3 DEF WalkInv
<1>7. CASE /\ current \in 1..Len(order) /\ Told(current)
           /\ reported = {order[i] : i \in 1..current - 1}
  <2>1. told = {order[i] : i \in 1..current}
    <3>1. told = {order[i] : i \in 1..current - 1} \cup {order[current]}
      BY <1>7
    <3>2. \A i : i \in 1..current <=> i \in 1..current - 1 \/ i = current
      BY <1>1, <1>7
    <3> QED
      BY <3>1, <3>2
  <2>2. PICK c \in 0..Len(order) : c = current
    BY <1>1, <1>7
  <2> QED
    BY <1>4, <1>7, <2>1, <2>2
<1> QED
  BY <1>5, <1>6, <1>7 DEF WalkInv

\* Two sequences with the same elements are the same.
LEMMA SameSeq ==
    ASSUME NEW S, NEW s \in Seq(S), NEW t \in Seq(S), Len(s) = Len(t),
           \A i \in 1 .. Len(s) : s[i] = t[i]
    PROVE  s = t
  OBVIOUS

\* The walk is exact.
LEMMA WalkInvExact == RegistryInv /\ WalkInv => WalkExact
<1> SUFFICES ASSUME RegistryInv, WalkInv PROVE WalkExact
  OBVIOUS
<1>1. order \in Seq(Devices) /\ Len(order) \in Nat
  BY DEF RegistryInv, RegistryTypes
<1>2. ASSUME NEW n, Told(n) PROVE Len(found) = n /\ found = SubSeq(order, 1, n)
  <2>1. found \in Seq(Devices) /\ Len(found) = n /\ n \in 0..Len(order)
    BY <1>2 DEF Told
  <2>2. /\ SubSeq(order, 1, n) \in Seq(Devices) /\ Len(SubSeq(order, 1, n)) = n
        /\ \A i \in 1..n : SubSeq(order, 1, n)[i] = order[i]
    BY <1>1, <2>1
  <2>3. \A i \in 1..n : found[i] = SubSeq(order, 1, n)[i]
    BY <1>2, <2>2 DEF Told
  <2> QED
    BY <2>1, <2>2, <2>3, SameSeq
<1>3. SubSeq(order, 1, Len(order)) = order
  <2>1. /\ SubSeq(order, 1, Len(order)) \in Seq(Devices)
        /\ Len(SubSeq(order, 1, Len(order))) = Len(order)
        /\ \A i \in 1..Len(order) : SubSeq(order, 1, Len(order))[i] = order[i]
    BY <1>1
  <2> QED
    BY <1>1, <2>1, SameSeq
<1>4. found = SubSeq(order, 1, Len(found))
  BY <1>2 DEF WalkInv
<1>5. answer = "DONE" => found = order
  BY <1>2, <1>3 DEF WalkInv
<1>6. answer = "ADD_DEV" => found[Len(found)] = order[current]
  <2> SUFFICES ASSUME answer = "ADD_DEV" PROVE found[Len(found)] = order[current]
    OBVIOUS
  <2>1. current \in 1..Len(order) /\ Told(current)
    BY DEF WalkInv
  <2> QED
    BY <1>1, <2>1 DEF Told
<1> QED
  BY <1>4, <1>5, <1>6 DEF WalkExact, Bus!WalkExact

-----------------------------------------------------------------------------
(* The ring of the events device.                                          *)

\* The ring wraps: the i-th position from p lies i behind it.
LEMMA RingStep ==
    ASSUME NEW p \in 0..MAX_EVENTS - 1, NEW i \in 0..MAX_EVENTS - 1
    PROVE  /\ Ev!Mask(p + i) \in 0..MAX_EVENTS - 1
           /\ Ev!Behind(Ev!Mask(p + i), p) = i
<1>1. MAX_EVENTS \in Nat
  BY RingHoldsTwo DEF Ev!EventsAssumption
<1> DEFINE q == Ev!Mask(p + i)
<1>2. q = IF p + i >= MAX_EVENTS THEN p + i - MAX_EVENTS ELSE p + i
  BY <1>1 DEF Ev!Mask
<1> HIDE DEF q
<1>3. q \in 0..MAX_EVENTS - 1
  BY <1>1, <1>2
<1>4. Ev!Behind(q, p) = i
  BY <1>1, <1>2 DEF Ev!Behind
<1> QED
  BY <1>3, <1>4 DEF q

\* Seen from a position e further on, a position less than e from p is almost
\* a round behind, the others are closer by e.
LEMMA RingShift ==
    ASSUME NEW p \in 0..MAX_EVENTS - 1, NEW q \in 0..MAX_EVENTS - 1,
           NEW i \in 0..MAX_EVENTS - 1
    PROVE  LET e == Ev!Behind(q, p)
           IN  /\ e \in 0..MAX_EVENTS - 1
               /\ i < e => Ev!Behind(Ev!Mask(p + i), q) = i - e + MAX_EVENTS
               /\ i >= e => Ev!Behind(Ev!Mask(p + i), q) = i - e
<1>1. MAX_EVENTS \in Nat
  BY RingHoldsTwo DEF Ev!EventsAssumption
<1> DEFINE e == Ev!Behind(q, p)
           r == Ev!Mask(p + i)
<1>2. e = IF q < p THEN q - p + MAX_EVENTS ELSE q - p
  BY DEF Ev!Behind
<1>3. r = IF p + i >= MAX_EVENTS THEN p + i - MAX_EVENTS ELSE p + i
  BY <1>1 DEF Ev!Mask
<1>4. Ev!Behind(r, q) = IF r < q THEN r - q + MAX_EVENTS ELSE r - q
  BY DEF Ev!Behind
<1> DEFINE b == Ev!Behind(r, q)
<1> HIDE DEF e, r, b
<1>5. b = IF r < q THEN r - q + MAX_EVENTS ELSE r - q
  BY <1>4 DEF b
<1>6. e \in 0..MAX_EVENTS - 1
  BY <1>1, <1>2
<1>7. i < e => b = i - e + MAX_EVENTS
  BY <1>1, <1>2, <1>3, <1>5
<1>8. i >= e => b = i - e
  BY <1>1, <1>2, <1>3, <1>5
<1> QED
  BY <1>6, <1>7, <1>8 DEF e, r, b

\* The number of words in the ring.
LEMMA EnqueuedInt ==
    RingInv => Ev!Enqueued \in Nat /\ (Ev!Enqueued = 0 <=> first = last)
<1> SUFFICES ASSUME RingInv PROVE Ev!Enqueued \in Nat /\ (Ev!Enqueued = 0 <=> first = last)
  OBVIOUS
<1>1. MAX_EVENTS \in Nat
  BY RingHoldsTwo DEF Ev!EventsAssumption
<1>2. first \in 0..MAX_EVENTS - 1 /\ last \in 0..MAX_EVENTS - 1
  BY DEF RingInv, Ev!TypeOK
<1>3. Ev!Enqueued = IF last < first THEN last - first + MAX_EVENTS ELSE last - first
  BY DEF Ev!Enqueued, Ev!Behind
<1> QED
  BY <1>1, <1>2, <1>3

\* An empty ring is in order.
LEMMA InitRing == Ev!Init => RingInv
<1> SUFFICES ASSUME Ev!Init PROVE RingInv
  OBVIOUS
<1>1. MAX_EVENTS \in Nat /\ MAX_EVENTS >= 8
  BY RingHoldsTwo DEF Ev!EventsAssumption
<1>2. Ev!TypeOK
  BY <1>1 DEF Ev!TypeOK, Ev!Init
<1>3. Ev!Enqueued = 0
  BY DEF Ev!Enqueued, Ev!Behind, Ev!Init
<1> QED
  BY <1>1, <1>2, <1>3 DEF RingInv, Ev!InOrder, Ev!Init

\* Events go in behind those that wait, whatever the number that fits.
LEMMA PutRing ==
    ASSUME RingInv, NEW k \in Nat, Ev!Put(k)
    PROVE  /\ RingInv'
           /\ Ev!Enqueued' \in Nat /\ Ev!Enqueued' >= Ev!Enqueued /\ taken' = taken
           /\ evLine = 1 => evLine' = 1
<1> DEFINE e == Ev!Enqueued
<1>1. MAX_EVENTS \in Nat /\ MAX_EVENTS >= 8
  BY RingHoldsTwo DEF Ev!EventsAssumption
<1>2. PICK m \in 0..k :
        /\ m > 0 => Ev!Fits(m)
        /\ events' = [p \in 0..MAX_EVENTS - 1 |->
                        IF Ev!Behind(p, last) < 3 * m
                        THEN 3 * accepted + Ev!Behind(p, last) + 1
                        ELSE events[p]]
        /\ last' = Ev!Mask(last + 3 * m)
        /\ evLine' = Ev!LineAfterPut(m)
        /\ accepted' = accepted + m
        /\ UNCHANGED <<first, taken>>
  BY DEF Ev!Put
<1>3. /\ first \in 0..MAX_EVENTS - 1 /\ last \in 0..MAX_EVENTS - 1
      /\ accepted \in Nat /\ taken \in Nat /\ evLine \in {0, 1}
      /\ events \in [0..MAX_EVENTS - 1 -> Nat]
  BY DEF RingInv, Ev!TypeOK
<1>4. e = IF last < first THEN last - first + MAX_EVENTS ELSE last - first
  BY DEF Ev!Enqueued, Ev!Behind
<1>5. e \in 0..MAX_EVENTS - 1 /\ m \in Nat
  BY <1>1, <1>3, <1>4
<1>6. taken + e = 3 * accepted
  BY DEF RingInv, Ev!InOrder
<1>7. 3 * m + e < MAX_EVENTS
  <2>1. CASE m = 0
    BY <1>1, <1>5, <2>1
  <2>2. CASE m > 0
    <3>1. e + 3 * m < MAX_EVENTS - 1
      BY <1>2, <2>2 DEF Ev!Fits
    <3> HIDE DEF e
    <3> QED
      BY <1>1, <1>5, <3>1
  <2> QED
    BY <1>5, <2>1, <2>2
<1> HIDE DEF e
<1>8. last' = IF last + 3 * m >= MAX_EVENTS THEN last + 3 * m - MAX_EVENTS ELSE last + 3 * m
  BY <1>1, <1>2, <1>3, <1>5 DEF Ev!Mask
<1>9. last' \in 0..MAX_EVENTS - 1
  BY <1>1, <1>3, <1>5, <1>7, <1>8
<1>10. Ev!Enqueued' = e + 3 * m
  <2>1. Ev!Enqueued' = IF last' < first THEN last' - first + MAX_EVENTS ELSE last' - first
    BY <1>2 DEF Ev!Enqueued, Ev!Behind
  <2> QED
    BY <1>1, <1>3, <1>4, <1>5, <1>7, <1>8, <2>1
<1>11. \A p \in 0..MAX_EVENTS - 1 : Ev!Behind(p, last) \in Nat
  <2> TAKE p \in 0..MAX_EVENTS - 1
  <2>1. Ev!Behind(p, last) = IF p < last THEN p - last + MAX_EVENTS ELSE p - last
    BY DEF Ev!Behind
  <2> QED
    BY <1>1, <1>3, <2>1
<1>12. events' \in [0..MAX_EVENTS - 1 -> Nat]
  <2>1. \A p \in 0..MAX_EVENTS - 1 :
          (IF Ev!Behind(p, last) < 3 * m
           THEN 3 * accepted + Ev!Behind(p, last) + 1 ELSE events[p]) \in Nat
    BY <1>3, <1>11
  <2> QED
    BY <1>2, <2>1
<1>13. evLine' = (IF first = last /\ m > 0 THEN 1 ELSE evLine)
  BY <1>2 DEF Ev!LineAfterPut
<1>14. Ev!TypeOK'
  <2>1. accepted' \in Nat
    BY <1>2, <1>3, <1>5
  <2> QED
    BY <1>2, <1>3, <1>9, <1>12, <1>13, <2>1 DEF Ev!TypeOK
<1>15. \A i \in 0..MAX_EVENTS - 1 :
         i < e + 3 * m => events'[Ev!Mask(first + i)] = taken + i + 1
  <2> SUFFICES ASSUME NEW i \in 0..MAX_EVENTS - 1, i < e + 3 * m
               PROVE  events'[Ev!Mask(first + i)] = taken + i + 1
    OBVIOUS
  <2> DEFINE r == Ev!Mask(first + i)
             b == Ev!Behind(r, last)
  <2>1. /\ i < e => b = i - e + MAX_EVENTS
        /\ i >= e => b = i - e
    BY <1>3, RingShift DEF Ev!Enqueued, e
  <2>2. r \in 0..MAX_EVENTS - 1
    BY <1>3, RingStep
  <2>3. events'[r] = IF b < 3 * m THEN 3 * accepted + b + 1 ELSE events[r]
    BY <1>2, <2>2
  <2> HIDE DEF b
  <2>4. CASE i < e
    <3>1. ~(b < 3 * m)
      BY <1>1, <1>5, <1>7, <2>1, <2>4
    <3>2. events[r] = taken + i + 1
      BY <2>4 DEF RingInv, Ev!InOrder, e
    <3> QED
      BY <2>3, <3>1, <3>2
  <2>5. CASE i >= e
    <3>1. b = i - e /\ b < 3 * m
      BY <1>5, <2>1, <2>5
    <3>2. events'[r] = 3 * accepted + b + 1
      BY <2>3, <3>1
    <3>3. 3 * accepted + b + 1 = taken + i + 1
      BY <1>3, <1>5, <1>6, <3>1
    <3> QED
      BY <3>2, <3>3
  <2> QED
    BY <1>5, <2>4, <2>5
<1>16. Ev!InOrder'
  <2>1. taken' + (e + 3 * m) = 3 * accepted'
    BY <1>2, <1>3, <1>5, <1>6
  <2>2. \A i \in 0..MAX_EVENTS - 1 :
          i < e + 3 * m => events'[Ev!Mask(first' + i)] = taken' + i + 1
    BY <1>2, <1>15
  <2> QED
    BY <1>10, <2>1, <2>2 DEF Ev!InOrder, Ev!Mask
<1>17. evLine' = 1 => first' # last'
  <2> SUFFICES ASSUME evLine' = 1 PROVE first # last'
    BY <1>2
  <2>1. e + 3 * m > 0
    <3>1. CASE first = last /\ m > 0
      BY <1>5, <3>1
    <3>2. CASE ~(first = last /\ m > 0)
      <4>1. first # last
        BY <1>13, <3>2 DEF RingInv
      <4> QED
        BY <1>1, <1>3, <1>4, <1>5, <4>1
    <3> QED
      BY <3>1, <3>2
  <2>2. e + 3 * m = IF last' < first THEN last' - first + MAX_EVENTS ELSE last' - first
    BY <1>2, <1>10 DEF Ev!Enqueued, Ev!Behind
  <2> QED
    BY <1>1, <1>3, <1>9, <2>1, <2>2
<1>18. Ev!Enqueued' \in Nat /\ Ev!Enqueued' >= Ev!Enqueued
  BY <1>5, <1>10 DEF e
<1> QED
  BY <1>2, <1>13, <1>14, <1>16, <1>17, <1>18 DEF RingInv

\* Reading takes the next word, unless there is none.
LEMMA DequeueRing ==
    ASSUME RingInv, Ev!dequeue_event, first # last
    PROVE  /\ RingInv'
           /\ Ev!Enqueued' = Ev!Enqueued - 1 /\ taken' = taken + 1
           /\ Ev!Enqueued \in Nat
           /\ evLine' = 1 => evLine = 1
           /\ evLine' # evLine => evLine' = 0
<1> DEFINE e == Ev!Enqueued
<1>1. MAX_EVENTS \in Nat /\ MAX_EVENTS >= 8
  BY RingHoldsTwo DEF Ev!EventsAssumption
<1>2. /\ taken' = taken + 1 /\ first' = Ev!Mask(first + 1)
      /\ evLine' = IF first' = last THEN 0 ELSE evLine
      /\ UNCHANGED <<events, last, accepted>>
  BY DEF Ev!dequeue_event
<1>3. /\ first \in 0..MAX_EVENTS - 1 /\ last \in 0..MAX_EVENTS - 1
      /\ accepted \in Nat /\ taken \in Nat /\ evLine \in {0, 1}
      /\ events \in [0..MAX_EVENTS - 1 -> Nat]
  BY DEF RingInv, Ev!TypeOK
<1>4. e = IF last < first THEN last - first + MAX_EVENTS ELSE last - first
  BY DEF Ev!Enqueued, Ev!Behind
<1> HIDE DEF e
<1>5. e \in 1..MAX_EVENTS - 1
  BY <1>1, <1>3, <1>4
<1>6. first' = IF first + 1 >= MAX_EVENTS THEN first + 1 - MAX_EVENTS ELSE first + 1
  BY <1>1, <1>2, <1>3 DEF Ev!Mask
<1>7. first' \in 0..MAX_EVENTS - 1
  BY <1>1, <1>3, <1>6
<1>8. Ev!Enqueued' = e - 1
  <2>1. Ev!Enqueued' = IF last < first' THEN last - first' + MAX_EVENTS ELSE last - first'
    BY <1>2 DEF Ev!Enqueued, Ev!Behind
  <2> QED
    BY <1>1, <1>3, <1>4, <1>6, <2>1
<1>9. Ev!TypeOK'
  BY <1>2, <1>3, <1>7 DEF Ev!TypeOK
<1>10. \A i \in 0..MAX_EVENTS - 1 :
         i < e - 1 => events'[Ev!Mask(first' + i)] = taken' + i + 1
  <2> SUFFICES ASSUME NEW i \in 0..MAX_EVENTS - 1, i < e - 1
               PROVE  events[Ev!Mask(first' + i)] = taken + 1 + i + 1
    BY <1>2
  <2>1. i + 1 \in 0..MAX_EVENTS - 1 /\ i + 1 < e
    BY <1>1, <1>5
  <2>2. events[Ev!Mask(first + (i + 1))] = taken + (i + 1) + 1
    BY <2>1 DEF RingInv, Ev!InOrder, e
  <2>3. Ev!Mask(first' + i) = Ev!Mask(first + (i + 1))
    <3>1. CASE first + 1 >= MAX_EVENTS
      <4>1. first' = 0 /\ first = MAX_EVENTS - 1
        BY <1>1, <1>3, <1>6, <3>1
      <4>2. first' + i < MAX_EVENTS /\ first + (i + 1) = MAX_EVENTS + i
        BY <1>1, <4>1
      <4> QED
        BY <1>1, <4>1, <4>2 DEF Ev!Mask
    <3>2. CASE ~(first + 1 >= MAX_EVENTS)
      <4>1. first' + i = first + (i + 1)
        BY <1>3, <1>6, <3>2
      <4> QED
        BY <4>1
    <3> QED
      BY <3>1, <3>2
  <2> QED
    BY <1>3, <2>2, <2>3
<1>11. Ev!InOrder'
  <2>1. taken + e = 3 * accepted
    BY DEF RingInv, Ev!InOrder, e
  <2>2. taken' + (e - 1) = 3 * accepted'
    BY <1>2, <1>3, <1>5, <2>1
  <2> QED
    BY <1>8, <1>10, <2>2 DEF Ev!InOrder, Ev!Mask
<1> QED
  BY <1>2, <1>3, <1>5, <1>8, <1>9, <1>11 DEF RingInv, e

\* A step that leaves the events device alone keeps the ring as it is.
LEMMA SameRing == RingInv /\ UNCHANGED evVars => RingInv' /\ Ev!Enqueued' = Ev!Enqueued
  BY DEF RingInv, evVars, Ev!TypeOK, Ev!InOrder, Ev!Enqueued, Ev!Behind, Ev!Mask

-----------------------------------------------------------------------------
(* The kernel, the devices and the controller together.                    *)

\* The line of every device is a number, and once the guest runs the three
\* devices that drive theirs have different ones.
LEMMA LinesApart ==
    ASSUME IInv
    PROVE  /\ irq["bus"] \in Nat /\ irq["events"] \in Nat /\ irq["battery"] \in Nat
           /\ running => irq["bus"] # irq["events"] /\ irq["battery"] # irq["events"]
<1>1. \A d \in {"bus", "events", "battery"} :
        /\ d \in Devices /\ irq[d] \in Nat
        /\ IrqCount[d] \in Nat /\ IrqCount[d] > 0
  BY BoardsAssumption, FixedResources
  DEF Bus!FixedBelowFree, IInv, RegistryInv, RegistryTypes
<1>2. ASSUME running, NEW d \in {"bus", "battery"} PROVE irq[d] # irq["events"]
  <2>1. d \in Bus!Registered /\ "events" \in Bus!Registered /\ d # "events"
    BY <1>2 DEF IInv, KernelInv
  <2>2. \/ IrqCount[d] = 0 \/ IrqCount["events"] = 0
        \/ irq[d] + IrqCount[d] <= irq["events"]
        \/ irq["events"] + IrqCount["events"] <= irq[d]
    BY <2>1 DEF IInv, RegistryInv, IrqDisjoint
  <2> QED
    BY <1>1, <2>2
<1> QED
  BY <1>1, <1>2

\* goldfish_device_set_irq keeps the controller's invariant and changes only
\* the line it is about.
LEMMA SetIrqCtrl ==
    ASSUME CtrlInv, NEW n \in Nat, NEW old, NEW new, SetIrq(n, old, new)
    PROVE  /\ CtrlInv' /\ irq_enabled' = irq_enabled
           /\ \A x : x # n => (x \in driven' <=> x \in driven)
           /\ n \in driven' => n \in driven \/ new = 1
           /\ old = 1 /\ new = 0 => n \notin driven'
<1>1. CASE old = 0 /\ new = 1
  <2>1. RaiseIrq(n)
    BY <1>1 DEF SetIrq
  <2>2. CtrlInv'
    BY <2>1, RaiseCtrl
  <2> QED
    BY <1>1, <2>1, <2>2 DEF RaiseIrq
<1>2. CASE old = 1 /\ new = 0
  <2>1. LowerIrq(n)
    BY <1>2 DEF SetIrq
  <2>2. CtrlInv'
    BY <2>1, LowerCtrl
  <2> QED
    BY <1>2, <2>1, <2>2 DEF LowerIrq
<1>3. CASE ~(old = 0 /\ new = 1) /\ ~(old = 1 /\ new = 0)
  <2>1. UNCHANGED vars
    BY <1>3 DEF SetIrq
  <2>2. CtrlInv'
    BY <2>1, SameCtrl
  <2> QED
    BY <1>3, <2>1, <2>2 DEF vars
<1> QED
  BY <1>1, <1>2, <1>3

\* What a step of the running machine has to keep of KernelInv.
LEMMA KernelKept ==
    ASSUME IInv, running, UNCHANGED <<order, irq, running>>,
           left' \in Nat, serving' \in Nat \cup {None},
           irq["events"] \in driven' => evLine' = 1,
           serving' = irq["events"] => left' <= Ev!Enqueued',
           \E t \in Nat : taken' + (IF serving' = irq["events"] THEN left' ELSE 0) = 3 * t
    PROVE  KernelInv'
<1>1. Bus!Registered' = Bus!Registered
  BY DEF Bus!Registered
<1>2. {"bus", "events", "battery"} \subseteq Bus!Registered
  BY DEF IInv, KernelInv
<1> QED
  BY <1>1, <1>2 DEF KernelInv

\* A step that touches neither the events device nor its handler.
LEMMA KernelOthers ==
    ASSUME IInv, running, UNCHANGED <<order, irq, running, evVars, serving, left>>,
           irq["events"] \in driven' => irq["events"] \in driven
    PROVE  KernelInv'
<1>1. Ev!Enqueued' = Ev!Enqueued /\ evLine' = evLine /\ taken' = taken
  BY SameRing DEF IInv, evVars
<1>2. /\ left \in Nat /\ serving \in Nat \cup {None}
      /\ irq["events"] \in driven => evLine = 1
      /\ serving = irq["events"] => left <= Ev!Enqueued
      /\ \E t \in Nat : taken + (IF serving = irq["events"] THEN left ELSE 0) = 3 * t
  BY DEF IInv, KernelInv
<1> QED
  BY <1>1, <1>2, KernelKept

\* Powering on.
LEMMA InitIInv == BoardInit => IInv
<1> SUFFICES ASSUME BoardInit PROVE IInv
  OBVIOUS
<1>1. CtrlInv /\ RegistryInv /\ WalkInv /\ RingInv
  BY InitCtrl, InitRegistry, InitRing DEF BoardInit
<1>2. irq["events"] \in Nat
  BY <1>1, BoardsAssumption DEF RegistryInv, RegistryTypes
<1>3. serving # irq["events"] /\ taken = 3 * 0
  BY <1>2 DEF BoardInit, None, Ev!Init
<1>4. \E t \in Nat : taken + (IF serving = irq["events"] THEN left ELSE 0) = 3 * t
  <2>1. taken + 0 = 3 * 0
    BY <1>3
  <2> QED
    BY <1>3, <2>1
<1>5. /\ running = FALSE /\ booted = 0 /\ probed = FALSE /\ serving = None /\ left = 0
      /\ irq_enabled = {} /\ level = {} /\ driven = {} /\ evLine = 0
  BY DEF BoardInit, Init, Bus!Init, Ev!Init, Bat!Init
<1>6. KernelInv
  BY <1>3, <1>4, <1>5 DEF KernelInv
<1> QED
  BY <1>1, <1>6 DEF IInv

\* android_arm_init_ registers a device.
LEMMA AddDeviceIInv == ASSUME IInv, NEW dev \in Devices, AddDevice(dev) PROVE IInv'
<1>1. /\ Bus!goldfish_add_device_no_io(dev) /\ UNCHANGED <<vars, evVars, batVars, kernelVars>>
      /\ ~running /\ running' = running
  BY DEF AddDevice, Bus!goldfish_add_device_no_io
<1>2. CtrlInv' /\ RegistryInv' /\ WalkInv' /\ RingInv'
  BY <1>1, SameCtrl, AddRegistry, AddWalk, SameRing DEF IInv
<1>3. irq["events"] \in Nat /\ irq'["events"] \in Nat
  BY <1>2, BoardsAssumption DEF IInv, RegistryInv, RegistryTypes
<1>4. /\ UNCHANGED <<level, irq_enabled, driven, evLine, taken, probed, booted, serving, left>>
  BY <1>1 DEF vars, evVars, batVars, kernelVars
<1>5. /\ booted = 0 /\ ~probed /\ serving = None
      /\ irq_enabled = {} /\ level = {} /\ driven = {} /\ evLine = 0
      /\ left \in Nat /\ running \in BOOLEAN
  BY <1>1 DEF IInv, KernelInv
<1>6. serving # irq["events"] /\ serving # irq'["events"]
  BY <1>3, <1>5 DEF None
<1>7. PICK t \in Nat : taken + 0 = 3 * t
  BY <1>6 DEF IInv, KernelInv
<1>8. KernelInv'
  BY <1>1, <1>4, <1>5, <1>6, <1>7 DEF KernelInv
<1> QED
  BY <1>2, <1>8 DEF IInv

\* The guest starts on a complete board.
LEMMA StartIInv == IInv /\ Start => IInv'
<1> SUFFICES ASSUME IInv, Start PROVE IInv'
  OBVIOUS
<1>1. /\ order \in Boards /\ running' = TRUE /\ ~running
      /\ UNCHANGED <<order, base, irq, goldfish_free_base, goldfish_free_irq>>
      /\ UNCHANGED <<reported, current, answer, found>>
      /\ UNCHANGED <<vars, evVars, batVars, kernelVars>>
  BY DEF Start, Bus!Start, Bus!boardVars, Bus!busVars
<1>2. CtrlInv' /\ RegistryInv' /\ RingInv'
  BY <1>1, SameCtrl, SameRegistry, SameRing DEF IInv
<1>3. WalkInv'
  <2>1. current = 0 /\ Told(0) /\ reported = {} /\ answer = "none"
    BY <1>1 DEF IInv, WalkInv
  <2> QED
    BY <1>1, <2>1 DEF WalkInv, Told
<1>4. {"bus", "events", "battery"} \subseteq Bus!Registered'
  BY <1>1, BoardsAssumption DEF Bus!Registered
<1>5. irq["events"] \in Nat
  BY LinesApart
<1>6. /\ serving = None /\ driven = {} /\ left \in Nat
      /\ UNCHANGED <<driven, evLine, taken, serving, left>>
  BY <1>1 DEF IInv, KernelInv, vars, evVars, kernelVars
<1>7. serving # irq["events"]
  BY <1>5, <1>6 DEF None
<1>8. PICK t \in Nat : taken + 0 = 3 * t
  BY <1>7 DEF IInv, KernelInv
<1>9. KernelInv'
  BY <1>1, <1>4, <1>6, <1>7, <1>8 DEF KernelInv
<1> QED
  BY <1>2, <1>3, <1>9 DEF IInv

\* The user puts events into the ring.
LEMMA UserInputIInv == IInv /\ UserInput => IInv'
<1> SUFFICES ASSUME IInv, UserInput PROVE IInv'
  OBVIOUS
<1>1. /\ booted = 1 /\ SetIrq(irq["events"], evLine, evLine')
      /\ UNCHANGED <<busVars, batVars, kernelVars>>
      /\ \E k \in Nat : Ev!Put(k)
  BY DEF UserInput, EventsStep, Ev!events_put_keycode, Ev!PutTouch, Ev!PutTrackball
<1>2. running
  BY <1>1 DEF IInv, KernelInv
<1>3. /\ RingInv' /\ taken' = taken
      /\ Ev!Enqueued' \in Nat /\ Ev!Enqueued' >= Ev!Enqueued
      /\ evLine = 1 => evLine' = 1
  BY <1>1, PutRing DEF IInv
<1>4. /\ CtrlInv'
      /\ irq["events"] \in driven' => irq["events"] \in driven \/ evLine' = 1
  BY <1>1, LinesApart, SetIrqCtrl DEF IInv
<1>5. /\ UNCHANGED <<order, base, irq, goldfish_free_base, goldfish_free_irq>>
      /\ UNCHANGED <<order, running, reported, current, answer, found>>
      /\ serving' = serving /\ left' = left
  BY <1>1 DEF busVars, kernelVars
<1>6. RegistryInv' /\ WalkInv'
  BY <1>5, SameRegistry, SameWalk DEF IInv
<1>7. KernelInv'
  <2>1. /\ left \in Nat /\ serving \in Nat \cup {None}
        /\ irq["events"] \in driven => evLine = 1
        /\ serving = irq["events"] => left <= Ev!Enqueued
        /\ \E t \in Nat : taken + (IF serving = irq["events"] THEN left ELSE 0) = 3 * t
    BY DEF IInv, KernelInv
  <2>2. irq["events"] \in driven' => evLine' = 1
    BY <1>3, <1>4, <2>1
  <2>3. serving' = irq["events"] => left' <= Ev!Enqueued'
    <3>1. Ev!Enqueued \in Nat
      BY EnqueuedInt DEF IInv
    <3> QED
      BY <1>3, <1>5, <2>1, <3>1
  <2> QED
    BY <1>2, <1>3, <1>5, <2>1, <2>2, <2>3, KernelKept
<1> QED
  BY <1>3, <1>4, <1>6, <1>7 DEF IInv

\* A step of the battery, with what it does to its line.
LEMMA BatteryIInv ==
    ASSUME IInv, running, SetIrq(irq["battery"], batLine, batLine'),
           UNCHANGED <<busVars, evVars, serving>>, left' = left \/ left' = 0,
           serving # irq["events"]
    PROVE  IInv'
<1>1. /\ CtrlInv'
      /\ \A x : x # irq["battery"] => (x \in driven' <=> x \in driven)
  BY LinesApart, SetIrqCtrl DEF IInv
<1>2. irq["events"] \in driven' => irq["events"] \in driven
  BY <1>1, LinesApart
<1>3. /\ UNCHANGED <<order, base, irq, goldfish_free_base, goldfish_free_irq>>
      /\ UNCHANGED <<order, running, reported, current, answer, found>>
  BY DEF busVars
<1>4. RegistryInv' /\ WalkInv' /\ RingInv'
  BY <1>3, SameRegistry, SameWalk, SameRing DEF IInv
<1>5. KernelInv'
  <2>1. /\ left \in Nat /\ serving \in Nat \cup {None}
        /\ irq["events"] \in driven => evLine = 1
        /\ \E t \in Nat : taken + (IF serving = irq["events"] THEN left ELSE 0) = 3 * t
    BY DEF IInv, KernelInv
  <2>2. evLine' = evLine /\ taken' = taken /\ left' \in Nat
    BY <2>1 DEF evVars
  <2> QED
    BY <1>2, <1>3, <2>1, <2>2, KernelKept
<1> QED
  BY <1>1, <1>4, <1>5 DEF IInv

\* The same while the kernel serves the events device: left stays.
LEMMA BatteryWhileServing ==
    ASSUME IInv, running, SetIrq(irq["battery"], batLine, batLine'),
           UNCHANGED <<busVars, evVars, serving, left>>
    PROVE  IInv'
<1>1. /\ CtrlInv'
      /\ \A x : x # irq["battery"] => (x \in driven' <=> x \in driven)
  BY LinesApart, SetIrqCtrl DEF IInv
<1>2. irq["events"] \in driven' => irq["events"] \in driven
  BY <1>1, LinesApart
<1>3. /\ UNCHANGED <<order, base, irq, goldfish_free_base, goldfish_free_irq>>
      /\ UNCHANGED <<order, running, reported, current, answer, found>>
  BY DEF busVars
<1>4. RegistryInv' /\ WalkInv' /\ RingInv'
  BY <1>3, SameRegistry, SameWalk, SameRing DEF IInv
<1>5. KernelInv'
  BY <1>2, <1>3, KernelOthers
<1> QED
  BY <1>1, <1>4, <1>5 DEF IInv

\* The console changes the battery.
LEMMA PowerChangeIInv == ASSUME IInv, NEW kind, PowerChange(kind) PROVE IInv'
<1>1. /\ probed /\ SetIrq(irq["battery"], batLine, batLine')
      /\ UNCHANGED <<busVars, evVars, serving, left>>
  BY DEF PowerChange, BatteryStep, kernelVars
<1>2. running
  BY <1>1 DEF IInv, KernelInv
<1> QED
  BY <1>1, <1>2, BatteryWhileServing

\* The battery's driver is probed.
LEMMA ProbeIInv == IInv /\ Probe => IInv'
<1> SUFFICES ASSUME IInv, Probe PROVE IInv'
  OBVIOUS
<1>1. /\ irq["battery"] \in irq_enabled /\ SetIrq(irq["battery"], batLine, batLine')
      /\ UNCHANGED <<busVars, evVars, serving, left>>
  BY DEF Probe, BatteryStep, kernelVars
<1>2. running
  BY <1>1 DEF IInv, KernelInv
<1> QED
  BY <1>1, <1>2, BatteryWhileServing

\* The battery's driver reads its registers.
LEMMA ServeBatteryIInv == IInv /\ ServeBattery => IInv'
<1> SUFFICES ASSUME IInv, ServeBattery PROVE IInv'
  OBVIOUS
<1>1. /\ serving = irq["battery"] /\ left' = 0
      /\ SetIrq(irq["battery"], batLine, batLine')
      /\ UNCHANGED <<busVars, evVars, serving>>
  BY DEF ServeBattery, BatteryStep
<1>2. running
  BY <1>1, LinesApart DEF IInv, KernelInv, None
<1>3. serving # irq["events"]
  BY <1>1, <1>2, LinesApart
<1> QED
  BY <1>1, <1>2, <1>3, BatteryIInv

\* A write to the controller by the running kernel, outside of a handler's
\* beginning: only the mask or the record of the lines changes.
LEMMA ControllerIInv ==
    ASSUME IInv, running, CtrlInv', driven' = driven,
           UNCHANGED <<busVars, evVars, batVars, serving, left>>
    PROVE  IInv'
<1>1. /\ UNCHANGED <<order, base, irq, goldfish_free_base, goldfish_free_irq>>
      /\ UNCHANGED <<order, running, reported, current, answer, found>>
  BY DEF busVars
<1>2. RegistryInv' /\ WalkInv' /\ RingInv'
  BY <1>1, SameRegistry, SameWalk, SameRing DEF IInv
<1>3. KernelInv'
  BY <1>1, KernelOthers
<1> QED
  BY <1>2, <1>3 DEF IInv

\* The kernel resets the controller.
LEMMA BootIInv == IInv /\ Boot => IInv'
<1> SUFFICES ASSUME IInv, Boot PROVE IInv'
  OBVIOUS
<1>1. /\ running /\ DisableAll /\ UNCHANGED <<busVars, evVars, batVars, serving, left>>
      /\ driven' = driven
  BY DEF Boot, DisableAll
<1>2. CtrlInv'
  BY <1>1, DisableAllCtrl DEF IInv
<1> QED
  BY <1>1, <1>2, ControllerIInv

\* A driver asks for its line.
LEMMA RequestIInv ==
    ASSUME IInv, RequestBusIrq \/ \E dev \in {"events", "battery"} : RequestIrq(dev)
    PROVE  IInv'
<1>1. PICK n \in Nat : Enable(n)
  BY LinesApart DEF RequestBusIrq, RequestIrq
<1>2. /\ UNCHANGED <<busVars, evVars, batVars, serving, left>>
      /\ booted = 1 \/ answer = "DONE"
  BY DEF RequestBusIrq, RequestIrq, kernelVars
<1>3. running
  BY <1>2 DEF IInv, KernelInv, WalkInv
<1>4. CtrlInv' /\ driven' = driven
  BY <1>1, EnableCtrl DEF IInv, Enable
<1> QED
  BY <1>2, <1>3, <1>4, ControllerIInv

\* A step of the bus device, with what it does to its line.
LEMMA BusStepIInv ==
    ASSUME IInv, running, SetIrq(irq["bus"], busLine, busLine'),
           UNCHANGED <<order, base, irq, goldfish_free_base, goldfish_free_irq, running>>,
           UNCHANGED <<evVars, batVars, serving>>, WalkInv',
           left' = left \/ (left' = 0 /\ serving # irq["events"])
    PROVE  IInv'
<1>1. /\ CtrlInv'
      /\ \A x : x # irq["bus"] => (x \in driven' <=> x \in driven)
  BY LinesApart, SetIrqCtrl DEF IInv
<1>2. irq["events"] \in driven' => irq["events"] \in driven
  BY <1>1, LinesApart
<1>3. RegistryInv' /\ RingInv'
  BY SameRegistry, SameRing DEF IInv
<1>4. KernelInv'
  <2>1. CASE left' = left
    BY <1>2, <2>1, KernelOthers
  <2>2. CASE left' = 0 /\ serving # irq["events"]
    <3>1. /\ serving \in Nat \cup {None}
          /\ irq["events"] \in driven => evLine = 1
          /\ \E t \in Nat : taken + (IF serving = irq["events"] THEN left ELSE 0) = 3 * t
      BY DEF IInv, KernelInv
    <3>2. evLine' = evLine /\ taken' = taken
      BY DEF evVars
    <3> QED
      BY <1>2, <2>2, <3>1, <3>2, KernelKept
  <2> QED
    BY <2>1, <2>2
<1> QED
  BY <1>1, <1>3, <1>4 DEF IInv

\* The bus driver starts a walk.
LEMMA StartWalkIInv == IInv /\ StartWalk => IInv'
<1> SUFFICES ASSUME IInv, StartWalk PROVE IInv'
  OBVIOUS
<1>1. /\ irq["bus"] \in irq_enabled \/ serving = irq["bus"]
      /\ Bus!goldfish_bus_op_init /\ SetIrq(irq["bus"], busLine, busLine')
      /\ UNCHANGED <<evVars, batVars, serving, left>>
  BY DEF StartWalk, BusStep, kernelVars
<1>2. running
  BY <1>1, LinesApart DEF IInv, KernelInv, None
<1>3. UNCHANGED <<order, base, irq, goldfish_free_base, goldfish_free_irq, running>>
  BY <1>1 DEF Bus!goldfish_bus_op_init, Bus!boardVars
<1>4. WalkInv'
  BY <1>1, OpInitWalk DEF IInv
<1> QED
  BY <1>1, <1>2, <1>3, <1>4, BusStepIInv

\* The bus driver reads the next device.
LEMMA ServeBusIInv == IInv /\ ServeBus => IInv'
<1> SUFFICES ASSUME IInv, ServeBus PROVE IInv'
  OBVIOUS
<1>1. /\ serving = irq["bus"] /\ Bus!BusOp /\ SetIrq(irq["bus"], busLine, busLine')
      /\ UNCHANGED <<evVars, batVars, serving>> /\ (left' = left \/ left' = 0)
  BY DEF ServeBus, BusStep
<1>2. running
  BY <1>1 DEF Bus!BusOp
<1>3. UNCHANGED <<order, base, irq, goldfish_free_base, goldfish_free_irq, running>>
  BY <1>1 DEF Bus!BusOp, Bus!boardVars
<1>4. WalkInv'
  BY <1>1, BusOpWalk DEF IInv
<1>5. serving # irq["events"]
  BY <1>1, <1>2, LinesApart
<1> QED
  BY <1>1, <1>2, <1>3, <1>4, <1>5, BusStepIInv

\* The handler of the events device begins only when an event waits, and
\* between its turns whole events wait: so there are three words to read.
LEMMA EnterIInv == IInv /\ Enter => IInv'
<1> SUFFICES ASSUME IInv, Enter PROVE IInv'
  OBVIOUS
<1> DEFINE n == InterruptNumber
<1>1. /\ parent_irq = 1 /\ serving = None /\ Disable(n) /\ serving' = n
      /\ left' = IF n = irq["events"] THEN 3 ELSE 1
      /\ UNCHANGED <<busVars, evVars, batVars, booted>>
  BY DEF Enter
<1>2. level \cap irq_enabled # {}
  BY <1>1 DEF IInv, CtrlInv
<1>3. n \in level \cap irq_enabled /\ n \in Nat /\ n \in driven
  <2>1. n \in level \cap irq_enabled
    BY <1>2, NumberPending DEF IInv
  <2> QED
    BY <2>1 DEF IInv, CtrlInv, NoPhantomLevel
<1> HIDE DEF n
<1>4. running
  BY <1>3 DEF IInv, KernelInv
<1>5. CtrlInv' /\ driven' = driven
  BY <1>1, <1>3, DisableCtrl DEF IInv, Disable
<1>6. /\ UNCHANGED <<order, base, irq, goldfish_free_base, goldfish_free_irq>>
      /\ UNCHANGED <<order, running, reported, current, answer, found>>
      /\ evLine' = evLine /\ taken' = taken
  BY <1>1 DEF busVars, evVars
<1>7. RegistryInv' /\ WalkInv' /\ RingInv' /\ Ev!Enqueued' = Ev!Enqueued
  BY <1>1, <1>6, SameRegistry, SameWalk, SameRing DEF IInv
<1>8. serving # irq["events"]
  BY <1>1, LinesApart DEF None
<1>9. PICK t \in Nat : taken = 3 * t
  <2>1. PICK t \in Nat : taken + 0 = 3 * t
    BY <1>8 DEF IInv, KernelInv
  <2>2. taken \in Nat
    BY DEF IInv, RingInv, Ev!TypeOK
  <2> QED
    BY <2>1, <2>2
<1>10. n = irq["events"] => Ev!Enqueued >= 3
  <2> SUFFICES ASSUME n = irq["events"] PROVE Ev!Enqueued >= 3
    OBVIOUS
  <2>1. evLine = 1 /\ first # last
    BY <1>3 DEF IInv, KernelInv, RingInv
  <2>2. Ev!Enqueued \in Nat /\ Ev!Enqueued # 0
    BY <2>1, EnqueuedInt DEF IInv
  <2>3. taken + Ev!Enqueued = 3 * accepted /\ accepted \in Nat
    BY DEF IInv, RingInv, Ev!InOrder, Ev!TypeOK
  <2> QED
    BY <1>9, <2>2, <2>3
<1>11. \E u \in Nat : taken' + (IF serving' = irq["events"] THEN left' ELSE 0) = 3 * u
  <2>1. CASE n = irq["events"]
    <3>1. taken' + left' = 3 * (t + 1) /\ t + 1 \in Nat
      BY <1>1, <1>6, <1>9, <2>1
    <3> QED
      BY <1>1, <2>1, <3>1
  <2>2. CASE n # irq["events"]
    <3>1. taken' + 0 = 3 * t
      BY <1>6, <1>9
    <3> QED
      BY <1>1, <2>2, <3>1
  <2> QED
    BY <2>1, <2>2
<1>12. irq["events"] \in driven' => evLine' = 1
  BY <1>5, <1>6 DEF IInv, KernelInv
<1>13. serving' = irq["events"] => left' <= Ev!Enqueued'
  <2>1. Ev!Enqueued \in Nat
    BY EnqueuedInt DEF IInv
  <2> QED
    BY <1>1, <1>7, <1>10, <2>1
<1>14. left' \in Nat /\ serving' \in Nat \cup {None}
  BY <1>1, <1>3
<1>15. KernelInv'
  BY <1>4, <1>6, <1>11, <1>12, <1>13, <1>14, KernelKept
<1> QED
  BY <1>5, <1>7, <1>15 DEF IInv

\* The events driver reads a word, which is there.
LEMMA ServeEventsIInv == IInv /\ ServeEvents => IInv'
<1> SUFFICES ASSUME IInv, ServeEvents PROVE IInv'
  OBVIOUS
<1>1. /\ serving = irq["events"] /\ left > 0 /\ Ev!dequeue_event
      /\ SetIrq(irq["events"], evLine, evLine')
      /\ UNCHANGED <<busVars, batVars, serving>> /\ left' = left - 1
  BY DEF ServeEvents, EventsStep
<1>2. running
  BY <1>1, LinesApart DEF IInv, KernelInv, None
<1>3. left \in Nat /\ left <= Ev!Enqueued /\ Ev!Enqueued \in Nat
  BY <1>1, EnqueuedInt DEF IInv, KernelInv
<1>4. first # last
  <2>1. Ev!Enqueued # 0
    BY <1>1, <1>3
  <2> QED
    BY <2>1, EnqueuedInt DEF IInv
<1>5. /\ RingInv' /\ Ev!Enqueued' = Ev!Enqueued - 1 /\ taken' = taken + 1
      /\ evLine' = 1 => evLine = 1
      /\ evLine' # evLine => evLine' = 0
  BY <1>1, <1>4, DequeueRing DEF IInv
<1>6. /\ CtrlInv'
      /\ irq["events"] \in driven' => irq["events"] \in driven \/ evLine' = 1
      /\ evLine = 1 /\ evLine' = 0 => irq["events"] \notin driven'
  BY <1>1, LinesApart, SetIrqCtrl DEF IInv
<1>7. /\ UNCHANGED <<order, base, irq, goldfish_free_base, goldfish_free_irq>>
      /\ UNCHANGED <<order, running, reported, current, answer, found>>
  BY <1>1 DEF busVars
<1>8. RegistryInv' /\ WalkInv'
  BY <1>7, SameRegistry, SameWalk DEF IInv
<1>9. irq["events"] \in driven' => evLine' = 1
  BY <1>5, <1>6 DEF IInv, KernelInv
<1>10. \E u \in Nat : taken' + (IF serving' = irq["events"] THEN left' ELSE 0) = 3 * u
  <2>1. PICK t \in Nat : taken + left = 3 * t
    BY <1>1 DEF IInv, KernelInv
  <2>2. taken \in Nat
    BY DEF IInv, RingInv, Ev!TypeOK
  <2>3. taken' + left' = 3 * t
    BY <1>1, <1>3, <1>5, <2>1, <2>2
  <2> QED
    BY <1>1, <2>3
<1>11. /\ left' \in Nat /\ left' <= Ev!Enqueued' /\ serving' \in Nat \cup {None}
  <2>1. left' \in Nat /\ left' <= Ev!Enqueued'
    BY <1>1, <1>3, <1>5
  <2> QED
    BY <1>1, <2>1 DEF IInv, KernelInv
<1>12. KernelInv'
  BY <1>2, <1>7, <1>9, <1>10, <1>11, KernelKept
<1> QED
  BY <1>5, <1>6, <1>8, <1>12 DEF IInv

\* The handler ends with all it had to read.
LEMMA ExitIInv == IInv /\ Exit => IInv'
<1> SUFFICES ASSUME IInv, Exit PROVE IInv'
  OBVIOUS
<1>1. /\ serving # None /\ left = 0 /\ Enable(serving) /\ serving' = None /\ left' = left
      /\ UNCHANGED <<busVars, evVars, batVars, booted>>
  BY DEF Exit
<1>2. running /\ serving \in Nat
  BY <1>1 DEF IInv, KernelInv
<1>3. CtrlInv' /\ driven' = driven
  BY <1>1, <1>2, EnableCtrl DEF IInv, Enable
<1>4. /\ UNCHANGED <<order, base, irq, goldfish_free_base, goldfish_free_irq>>
      /\ UNCHANGED <<order, running, reported, current, answer, found>>
      /\ evLine' = evLine /\ taken' = taken
  BY <1>1 DEF busVars, evVars
<1>5. RegistryInv' /\ WalkInv' /\ RingInv'
  BY <1>1, <1>4, SameRegistry, SameWalk, SameRing DEF IInv
<1>6. serving' # irq["events"]
  BY <1>1, LinesApart DEF None
<1>7. \E t \in Nat : taken' + (IF serving' = irq["events"] THEN left' ELSE 0) = 3 * t
  <2>1. PICK t \in Nat : taken + (IF serving = irq["events"] THEN left ELSE 0) = 3 * t
    BY DEF IInv, KernelInv
  <2>2. taken + 0 = 3 * t
    BY <1>1, <2>1
  <2> QED
    BY <1>4, <1>6, <2>2
<1>8. left' \in Nat /\ (irq["events"] \in driven' => evLine' = 1)
  BY <1>1, <1>3, <1>4 DEF IInv, KernelInv
<1>9. KernelInv'
  BY <1>1, <1>2, <1>4, <1>6, <1>7, <1>8, KernelKept
<1> QED
  BY <1>3, <1>5, <1>9 DEF IInv

\* Nothing happens.
LEMMA SameIInv == IInv /\ UNCHANGED boardVars => IInv'
<1> SUFFICES ASSUME IInv, UNCHANGED boardVars PROVE IInv'
  OBVIOUS
<1>1. /\ UNCHANGED <<vars, evVars>>
      /\ UNCHANGED <<order, base, irq, goldfish_free_base, goldfish_free_irq>>
      /\ UNCHANGED <<order, running, reported, current, answer, found>>
      /\ UNCHANGED <<level, irq_enabled, driven, evLine, taken, probed, booted, serving, left>>
  BY DEF boardVars, busVars, evVars, batVars, kernelVars, vars
<1>2. CtrlInv' /\ RegistryInv' /\ WalkInv' /\ RingInv' /\ Ev!Enqueued' = Ev!Enqueued
  BY <1>1, SameCtrl, SameRegistry, SameWalk, SameRing DEF IInv
<1>3. Bus!Registered' = Bus!Registered
  BY <1>1 DEF Bus!Registered
<1>4. KernelInv'
  BY <1>1, <1>2, <1>3 DEF IInv, KernelInv
<1> QED
  BY <1>2, <1>4 DEF IInv

\* Every step keeps the invariant.
LEMMA NextIInv == IInv /\ [BoardNext]_boardVars => IInv'
<1> SUFFICES ASSUME IInv, [BoardNext]_boardVars PROVE IInv'
  OBVIOUS
<1>1. CASE \E dev \in Devices : AddDevice(dev)
  BY <1>1, AddDeviceIInv
<1>2. CASE Start \/ UserInput
  BY <1>2, StartIInv, UserInputIInv
<1>3. CASE \E kind \in Bat!Kinds : PowerChange(kind)
  BY <1>3, PowerChangeIInv
<1>4. CASE Kernel
  BY <1>4, BootIInv, RequestIInv, StartWalkIInv, ProbeIInv, EnterIInv, ServeBusIInv,
     ServeEventsIInv, ServeBatteryIInv, ExitIInv DEF Kernel
<1>5. CASE Quiet \/ UNCHANGED boardVars
  BY <1>5, SameIInv DEF Quiet
<1> QED
  BY <1>1, <1>2, <1>3, <1>4, <1>5 DEF BoardNext

\* The invariant holds from power-on in every state of the board.
LEMMA AlwaysIInv == BoardSpec => []IInv
  BY InitIInv, NextIInv, PTL DEF BoardSpec

-----------------------------------------------------------------------------
(* The results.                                                            *)

\* On any board, in every state of the machine from power-on, the pending count
\* kept by goldfish_int_set_irq and goldfish_int_write is the number of lines
\* both high and enabled.
THEOREM BoardCountExact == BoardSpec => []PendingCountExact
<1>1. IInv => PendingCountExact
  BY DEF IInv, CtrlInv
<1> QED
  BY <1>1, AlwaysIInv, PTL

\* The kernel's interrupt loop never sees a status, a number and a CPU input
\* that disagree, and the controller never holds a line high that no device
\* drives.
THEOREM BoardGuestView == BoardSpec => [](GuestViewConsistent /\ NoPhantomLevel)
<1>1. IInv => GuestViewConsistent /\ NoPhantomLevel
  BY CtrlGuestView DEF IInv, CtrlInv
<1> QED
  BY <1>1, AlwaysIInv, PTL

\* However many devices a board has and in whatever order it adds them, no two
\* share a register window or an interrupt line (goldfish_add_device_no_io),
\* provided that the fixed resources lie below the first free ones.
THEOREM BoardResourcesDisjoint == BoardSpec => []ResourcesDisjoint
<1>1. IInv => ResourcesDisjoint
  BY DEF IInv, RegistryInv, BaseDisjoint, IrqDisjoint, ResourcesDisjoint,
         Bus!ResourcesDisjoint
<1> QED
  BY <1>1, AlwaysIInv, PTL

\* The walk of the bus is exact for a list of any length, restarted any number
\* of times at any point (goldfish_bus_read, goldfish_bus_op_init).
THEOREM BoardWalkExact == BoardSpec => []WalkExact
<1>1. IInv => WalkExact
  BY WalkInvExact DEF IInv
<1> QED
  BY <1>1, AlwaysIInv, PTL

\* For every size of the ring the driver reads whole events in the order they
\* were put in: no word is lost, torn or overwritten where the ring wraps, and
\* when the handler is entered three words are there (enqueue_event,
\* dequeue_event).
THEOREM BoardEventsInOrder == BoardSpec => []EventsInOrder
<1>1. IInv => EventsInOrder
  <2> SUFFICES ASSUME IInv PROVE EventsInOrder
    OBVIOUS
  <2>1. Ev!InOrder /\ (serving = irq["events"] => left <= Ev!Enqueued)
    BY DEF IInv, RingInv, KernelInv
  <2>2. Ev!Enqueued \in Nat /\ left \in Nat
    BY EnqueuedInt DEF IInv, KernelInv
  <2> QED
    BY <2>1, <2>2 DEF EventsInOrder
<1> QED
  BY <1>1, AlwaysIInv, PTL

\* The controller on its own, whatever the devices and the guest do to it: for
\* every finite set of lines its types are kept, the count is exact, the guest's
\* view consistent and no line held that is not driven.
THEOREM ControllerAlwaysExact ==
    Spec => [](TypeOK /\ PendingCountExact /\ GuestViewConsistent /\ NoPhantomLevel)
<1>1. Init => CtrlInv /\ TypeOK
  BY InitCtrl DEF Init, TypeOK
<1>2. CtrlInv /\ [Next]_vars => CtrlInv'
  <2> SUFFICES ASSUME CtrlInv, [Next]_vars PROVE CtrlInv'
    OBVIOUS
  <2>1. Irqs \subseteq Nat
    BY IrqsAssumption
  <2>2. CASE DisableAll
    BY <2>2, DisableAllCtrl
  <2>3. CASE \E n \in Irqs : RaiseIrq(n) \/ LowerIrq(n) \/ Disable(n) \/ Enable(n)
    BY <2>1, <2>3, RaiseCtrl, LowerCtrl, DisableCtrl, EnableCtrl
  <2>4. CASE UNCHANGED vars
    BY <2>4, SameCtrl
  <2> QED
    BY <2>2, <2>3, <2>4 DEF Next
<1>3. CtrlInv => /\ PendingCountExact /\ GuestViewConsistent /\ NoPhantomLevel
                 /\ pending_count \in Nat
  <2> SUFFICES ASSUME CtrlInv PROVE pending_count \in Nat
    BY CtrlGuestView DEF CtrlInv
  <2>1. IsFiniteSet(level \cap irq_enabled)
    BY FS_Subset DEF CtrlInv
  <2> QED
    BY <2>1, FS_CardinalityType DEF CtrlInv, PendingCountExact
<1>4. TypeOK /\ [Next]_vars /\ (pending_count \in Nat)' => TypeOK'
  <2> SUFFICES ASSUME TypeOK, [Next]_vars, pending_count' \in Nat PROVE TypeOK'
    OBVIOUS
  <2> USE DEF TypeOK, goldfish_int_update
  <2>1. CASE DisableAll
    BY <2>1 DEF DisableAll
  <2>2. ASSUME NEW n \in Irqs, RaiseIrq(n) PROVE TypeOK'
    BY <2>2 DEF RaiseIrq
  <2>3. ASSUME NEW n \in Irqs, LowerIrq(n) PROVE TypeOK'
    BY <2>3 DEF LowerIrq
  <2>4. ASSUME NEW n \in Irqs, Disable(n) PROVE TypeOK'
    BY <2>4 DEF Disable
  <2>5. ASSUME NEW n \in Irqs, Enable(n) PROVE TypeOK'
    BY <2>5 DEF Enable
  <2>6. CASE UNCHANGED vars
    BY <2>6 DEF vars
  <2> QED
    BY <2>1, <2>2, <2>3, <2>4, <2>5, <2>6 DEF Next
<1> QED
  BY <1>1, <1>2, <1>3, <1>4, PTL DEF Spec

\* The registry on its own, with devices added in any order and the guest
\* restarting its walk at will: no two devices share registers or a line, and
\* every walk is exact.
THEOREM RegistryAlwaysExact ==
    Bus!Spec => [](Bus!ResourcesDisjoint /\ Bus!WalkExact)
<1> DEFINE BInv == RegistryInv /\ WalkInv
<1>1. Bus!Init => BInv
  BY InitRegistry
<1>2. BInv /\ [Bus!Next]_(Bus!vars) => BInv'
  <2> SUFFICES ASSUME RegistryInv, WalkInv, [Bus!Next]_(Bus!vars)
               PROVE  RegistryInv' /\ WalkInv'
    OBVIOUS
  <2>1. ASSUME NEW dev \in Devices, Bus!goldfish_add_device_no_io(dev)
        PROVE  RegistryInv' /\ WalkInv'
    BY <2>1, AddRegistry, AddWalk
  <2>2. CASE Bus!Start
    <3>1. /\ UNCHANGED <<order, base, irq, goldfish_free_base, goldfish_free_irq>>
          /\ UNCHANGED <<reported, current, answer, found>>
          /\ running' = TRUE
      BY <2>2 DEF Bus!Start, Bus!boardVars, Bus!busVars
    <3>2. WalkInv'
      BY <3>1 DEF WalkInv, Told, Bus!Registered
    <3> QED
      BY <3>1, <3>2, SameRegistry
  <2>3. CASE Bus!goldfish_bus_op_init
    <3>1. UNCHANGED <<order, base, irq, goldfish_free_base, goldfish_free_irq>>
      BY <2>3 DEF Bus!goldfish_bus_op_init, Bus!boardVars
    <3> QED
      BY <2>3, <3>1, SameRegistry, OpInitWalk
  <2>4. CASE Bus!BusOp
    <3>1. UNCHANGED <<order, base, irq, goldfish_free_base, goldfish_free_irq>>
      BY <2>4 DEF Bus!BusOp, Bus!boardVars
    <3> QED
      BY <2>4, <3>1, SameRegistry, BusOpWalk
  <2>5. CASE UNCHANGED Bus!vars
    BY <2>5, SameRegistry, SameWalk DEF Bus!vars, Bus!boardVars, Bus!busVars
  <2> QED
    BY <2>1, <2>2, <2>3, <2>4, <2>5 DEF Bus!Next
<1>3. BInv => Bus!ResourcesDisjoint /\ Bus!WalkExact
  BY WalkInvExact DEF RegistryInv, BaseDisjoint, IrqDisjoint,
                      Bus!ResourcesDisjoint, WalkExact
<1> HIDE DEF BInv
<1> QED
  BY <1>1, <1>2, <1>3, PTL DEF Bus!Spec
=============================================================================
