-------------------------- MODULE GoldfishFbProofs --------------------------
(***************************************************************************)
(* Proofs about the frame buffer (GoldfishFb) for any number of buffers,   *)
(* any geometry and any way lines lie on pages.  IrqExact and              *)
(* DoneMeansShown are inductive.  That an update shows the memory needs    *)
(* to know what holds between two updates: while no full update is due, a  *)
(* line that is not on a dirty page is on the screen as it is in memory,   *)
(* even if its pages were cleaned for other lines.                         *)
(***************************************************************************)
EXTENDS GoldfishFb, TLAPS

\* The types of the registers, the memory and the screen.
TypeOK ==
    /\ fb_base \in Bases \cup {0}
    /\ need_update \in {0, 1} /\ need_int \in {0, 1} /\ blank \in {0, 1}
    /\ ram \in [Bases -> [Lines -> Pixels]]
    /\ screen \in [Lines -> Pixels \cup {Garbage, Black}]

\* Line l of the current buffer lies on a dirty page.
IsDirty(l) == \E p \in PagesOf[l] : <<fb_base, p>> \in dirty

\* While no full update is due, what is not dirty is up to date.
CleanIsShown ==
    need_update = 0 /\ blank = 0 /\ fb_base # 0 =>
        \A l \in Lines : IsDirty(l) \/ screen[l] = ram[fb_base][l]

\* The inductive invariant.
IInv == TypeOK /\ IrqExact /\ DoneMeansShown /\ CleanIsShown

\* goldfish_fb_init establishes IInv.
LEMMA InitIInv == Init => IInv
  BY DEF Init, IInv, TypeOK, IrqExact, DoneMeansShown, CleanIsShown, Level

\* Drawing marks the page it touches, so only the line drawn may differ and it
\* is dirty.
LEMMA DrawIInv ==
    ASSUME IInv, NEW b \in Bases, NEW l \in Lines, NEW p \in Pages,
           NEW x \in Pixels, Draw(b, l, p, x)
    PROVE  IInv'
<1> USE DEF Draw, regs
<1>1. TypeOK'
  BY DEF IInv, TypeOK
<1>2. IrqExact' /\ DoneMeansShown'
  BY DEF IInv, IrqExact, DoneMeansShown, Level
<1>3. CleanIsShown'
  <2> SUFFICES ASSUME need_update = 0, blank = 0, fb_base # 0, NEW m \in Lines
               PROVE  IsDirty(m)' \/ screen'[m] = ram'[fb_base][m]
    BY DEF CleanIsShown
  <2>1. IsDirty(m) => IsDirty(m)'
    BY DEF IsDirty
  <2>2. fb_base \in Bases
    BY DEF IInv, TypeOK
  <2>3. CASE b = fb_base /\ m = l
    BY <2>3 DEF IsDirty
  <2>4. CASE ~(b = fb_base /\ m = l)
    <3>1. ram'[fb_base][m] = ram[fb_base][m]
      BY <2>2, <2>4 DEF IInv, TypeOK
    <3> QED
      BY <2>1, <3>1 DEF IInv, CleanIsShown
  <2> QED
    BY <2>3, <2>4
<1> QED
  BY <1>1, <1>2, <1>3 DEF IInv

\* goldfish_fb_update_display leaves the memory's content on the screen: with
\* a full update all lines that differ are copied, without one those that are
\* dirty, and the others do not differ by CleanIsShown.
LEMMA UpdateShows ==
    ASSUME IInv, goldfish_fb_update_display
    PROVE  screen' = IF blank = 1 THEN [l \in Lines |-> Black] ELSE ram[fb_base]
<1>1. fb_base \in Bases /\ ram[fb_base] \in [Lines -> Pixels]
  BY DEF IInv, TypeOK, goldfish_fb_update_display
<1>2. CASE blank = 1
  BY <1>2 DEF goldfish_fb_update_display
<1>3. CASE blank = 0
  <2>1. screen' = [l \in Lines |-> IF l \in Copied THEN ram[fb_base][l] ELSE screen[l]]
    BY <1>3 DEF goldfish_fb_update_display
  <2>2. ASSUME NEW l \in Lines, l \notin Copied PROVE screen[l] = ram[fb_base][l]
    <3>1. CASE need_update = 1
      BY <2>2, <3>1 DEF Copied
    <3>2. CASE need_update = 0
      <4>1. ~IsDirty(l)
        BY <2>2, <3>2 DEF Copied, IsDirty
      <4> QED
        BY <1>3, <3>2, <4>1 DEF IInv, CleanIsShown, goldfish_fb_update_display
    <3> QED
      BY <3>1, <3>2 DEF IInv, TypeOK
  <2>3. screen' = [l \in Lines |-> ram[fb_base][l]]
    BY <2>1, <2>2
  <2> QED
    BY <1>1, <1>3, <2>3
<1> QED
  BY <1>2, <1>3 DEF IInv, TypeOK

\* goldfish_fb_update_display preserves IInv.
LEMMA UpdateIInv == ASSUME IInv, goldfish_fb_update_display PROVE IInv'
<1>1. screen' = IF blank = 1 THEN [l \in Lines |-> Black] ELSE ram[fb_base]
  BY UpdateShows
<1>2. /\ UNCHANGED <<fb_base, blank, int_enable, ram>>
      /\ need_update' = 0
      /\ \/ need_update = 1 /\ shown' = fb_base /\ need_int' = 0
         \/ need_update = 0 /\ UNCHANGED <<shown, need_int>>
  BY DEF goldfish_fb_update_display, IInv, TypeOK
<1>3. fb_base \in Bases /\ ram[fb_base] \in [Lines -> Pixels]
  BY DEF IInv, TypeOK, goldfish_fb_update_display
<1>4. TypeOK'
  BY <1>1, <1>2, <1>3 DEF IInv, TypeOK
<1>5. CleanIsShown'
  BY <1>1, <1>2, <1>3 DEF CleanIsShown, IInv, TypeOK
<1>6. DoneMeansShown'
  BY <1>2 DEF IInv, DoneMeansShown, goldfish_fb_update_display, RaisesDone, TypeOK
<1>7. IrqExact'
  BY <1>2 DEF IInv, IrqExact, Level, goldfish_fb_update_display
<1> QED
  BY <1>4, <1>5, <1>6, <1>7 DEF IInv

\* Every step preserves IInv.
LEMMA NextIInv == IInv /\ [Next]_vars => IInv'
<1> SUFFICES ASSUME IInv, [Next]_vars PROVE IInv'
  OBVIOUS
<1> USE DEF IInv, TypeOK, IrqExact, DoneMeansShown, CleanIsShown, IsDirty, Level
<1>1. ASSUME NEW b \in Bases, NEW l \in Lines, NEW p \in Pages, NEW x \in Pixels,
             Draw(b, l, p, x)
      PROVE  IInv'
  BY <1>1, DrawIInv
<1>2. CASE goldfish_fb_update_display
  BY <1>2, UpdateIInv
<1>3. CASE goldfish_fb_invalidate_display
  BY <1>3 DEF goldfish_fb_invalidate_display
<1>4. CASE ReadIntStatus
  BY <1>4 DEF ReadIntStatus
<1>5. ASSUME NEW mask \in SUBSET {"VSYNC", "DONE"}, WriteIntEnable(mask) PROVE IInv'
  BY <1>5 DEF WriteIntEnable
<1>6. ASSUME NEW b \in Bases \cup {0}, SetBase(b) PROVE IInv'
  BY <1>6 DEF SetBase
<1>7. ASSUME NEW differs \in {0, 1}, SetRotation(differs) PROVE IInv'
  BY <1>7 DEF SetRotation
<1>8. ASSUME NEW v \in {0, 1}, SetBlank(v) PROVE IInv'
  BY <1>8 DEF SetBlank
<1>9. CASE UNCHANGED vars
  BY <1>9 DEF vars, regs
<1> QED
  BY <1>1, <1>2, <1>3, <1>4, <1>5, <1>6, <1>7, <1>8, <1>9 DEF Next

\* IInv holds throughout.
THEOREM AlwaysIInv == Spec => []IInv
  BY InitIInv, NextIInv, PTL DEF Spec

\* The interrupt is up exactly while an enabled event is pending.
THEOREM IrqAlwaysExact == Spec => []IrqExact
<1>1. IInv => IrqExact
  BY DEF IInv
<1> QED
  BY <1>1, AlwaysIInv, PTL

\* A guest that sees BASE_UPDATE_DONE may reuse its previous buffer: the one it
\* asked for last is on the screen.
THEOREM DoneAlwaysMeansShown == Spec => []DoneMeansShown
<1>1. IInv => DoneMeansShown
  BY DEF IInv
<1> QED
  BY <1>1, AlwaysIInv, PTL

\* Whatever the geometry, no update of the display misses a line: the dirty
\* flags goldfish_fb_update_display clears are those of lines it has shown.
THEOREM UpdateAlwaysShowsMemory == Spec => UpdateShowsMemory
<1>1. IInv /\ [Next]_vars =>
        [goldfish_fb_update_display =>
           screen' = IF blank = 1 THEN [l \in Lines |-> Black] ELSE ram[fb_base]]_vars
  BY UpdateShows
<1> QED
  BY <1>1, AlwaysIInv, PTL DEF Spec, UpdateShowsMemory

=============================================================================
