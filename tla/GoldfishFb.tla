----------------------------- MODULE GoldfishFb ----------------------------
(***************************************************************************)
(* The goldfish frame buffer (hw/goldfish_fb.c).  The guest draws into a   *)
(* buffer in its memory, points FB_SET_BASE at it and waits for the        *)
(* BASE_UPDATE_DONE interrupt; the user interface calls update_display     *)
(* now and then, which copies lines to the screen: all lines that differ   *)
(* when a full update is due, otherwise only lines on a dirty page.        *)
(* What a line shows is one of a few values; a page may hold parts of two  *)
(* lines.  FB_SET_ROTATION only matters in that the next FB_SET_BASE       *)
(* rotates the host's frame buffer and with it destroys its content.       *)
(***************************************************************************)
EXTENDS Integers

CONSTANTS
    Bases,      \* addresses of frame buffers the guest uses, 0 not among them
    Lines,      \* the lines of the screen
    Pages,      \* the memory pages of one frame buffer
    PagesOf,    \* PagesOf[l]: the pages line l lies on
    Pixels      \* what a line may show

Garbage == "garbage"
Black == "black"

VARIABLES
    fb_base, need_update, need_int, blank, base_valid,
    turned,     \* set_rotation # rotation
    int_status, int_enable,
    line,       \* the device's interrupt
    ram,        \* ram[b][l]: line l of the buffer at b
    dirty,      \* pages <<b, p>> with VGA_DIRTY_FLAG set
    screen,     \* what the host shows
    shown       \* history: the base of the last full update

regs == <<fb_base, need_update, need_int, blank, base_valid, turned, int_status, int_enable>>
vars == <<regs, line, ram, dirty, screen, shown>>

\* The interrupt level for a status and a mask.
Level(status, enable) == IF status \cap enable # {} THEN 1 ELSE 0

\* goldfish_fb_init: zeroed state; all guest memory counts as dirty.
Init ==
    /\ fb_base = 0 /\ need_update = 0 /\ need_int = 0
    /\ blank = 0 /\ base_valid = 0 /\ turned = 0
    /\ int_status = {} /\ int_enable = {} /\ line = 0
    /\ ram \in [Bases -> {[l \in Lines |-> x] : x \in Pixels}]
    /\ dirty = Bases \X Pages
    /\ screen = [l \in Lines |-> Garbage]
    /\ shown = 0

-----------------------------------------------------------------------------
\* The guest draws on a part of line l that lies on page p (external).
Draw(b, l, p, x) ==
    /\ p \in PagesOf[l]
    /\ ram' = [ram EXCEPT ![b][l] = x]
    /\ dirty' = dirty \cup {<<b, p>>}
    /\ UNCHANGED <<regs, line, screen, shown>>

\* The lines update_display copies: those that differ, or those on a dirty page.
Copied ==
    {l \in Lines :
        IF need_update = 1 THEN screen[l] # ram[fb_base][l]
        ELSE \E p \in PagesOf[l] : <<fb_base, p>> \in dirty}

\* The pages cpu_physical_memory_reset_dirty cleans: those of the lines from
\* the first to the last one copied, in whole pages.
Cleaned(lines) ==
    {<<fb_base, p>> : p \in UNION {PagesOf[l] : l \in
        {m \in Lines : (\E i \in lines : i <= m) /\ (\E j \in lines : m <= j)}}}

\* Mutant of RaisesDone: no answer while the screen is blank.
RaisesDoneUnlessBlank == need_update = 1 /\ need_int = 1 /\ blank = 0

\* A full update that answers an FB_SET_BASE.
RaisesDone == need_update = 1 /\ need_int = 1

\* goldfish_fb_update_display: first the interrupts, then the copying.
goldfish_fb_update_display ==
    LET vsync  == IF "VSYNC" \in int_enable THEN {"VSYNC"} ELSE {}
        done   == IF RaisesDone THEN {"DONE"} ELSE {}
        copied == IF blank = 1 THEN Lines ELSE Copied
    IN  /\ fb_base # 0
        /\ int_status' = int_status \cup vsync \cup done
        /\ line' = IF vsync \ int_status # {} \/ done \cap int_enable # {}
                   THEN 1 ELSE line
        /\ IF need_update = 1
           THEN need_int' = 0 /\ need_update' = 0 /\ shown' = fb_base
           ELSE UNCHANGED <<need_int, need_update, shown>>
        /\ screen' = [l \in Lines |-> IF blank = 1 THEN Black
                                      ELSE IF l \in copied THEN ram[fb_base][l]
                                      ELSE screen[l]]
        /\ dirty' = dirty \ Cleaned(copied)
        /\ UNCHANGED <<fb_base, blank, base_valid, turned, int_enable, ram>>

\* goldfish_fb_invalidate_display
goldfish_fb_invalidate_display ==
    /\ need_update' = 1
    /\ UNCHANGED <<fb_base, need_int, blank, base_valid, turned, int_status,
                   int_enable, line, ram, dirty, screen, shown>>

\* goldfish_fb_read of FB_INT_STATUS: the enabled events are returned and
\* cleared.
ReadIntStatus ==
    /\ int_status \cap int_enable # {}
    /\ int_status' = int_status \ int_enable
    /\ line' = 0
    /\ UNCHANGED <<fb_base, need_update, need_int, blank, base_valid, turned,
                   int_enable, ram, dirty, screen, shown>>

\* goldfish_fb_write to FB_INT_ENABLE.
WriteIntEnable(mask) ==
    /\ int_enable' = mask
    /\ line' = Level(int_status, mask)
    /\ UNCHANGED <<fb_base, need_update, need_int, blank, base_valid, turned,
                   int_status, ram, dirty, screen, shown>>

\* Mutant of SetBase: an earlier DONE is not taken back.
SetBaseKeepsDone(b) ==
    /\ fb_base' = b
    /\ need_update' = 1 /\ need_int' = 1 /\ base_valid' = 1 /\ turned' = 0
    /\ screen' = IF base_valid = 0 \/ turned = 1
                 THEN [l \in Lines |-> Garbage] ELSE screen
    /\ UNCHANGED <<blank, int_status, int_enable, line, ram, dirty, shown>>

\* goldfish_fb_write to FB_SET_BASE.
SetBase(b) ==
    /\ fb_base' = b
    /\ int_status' = int_status \ {"DONE"}
    /\ need_update' = 1 /\ need_int' = 1 /\ base_valid' = 1 /\ turned' = 0
    /\ line' = Level(int_status', int_enable)
    /\ screen' = IF base_valid = 0 \/ turned = 1
                 THEN [l \in Lines |-> Garbage] ELSE screen
    /\ UNCHANGED <<blank, int_enable, ram, dirty, shown>>

\* goldfish_fb_write to FB_SET_ROTATION: to the rotation in use, or another.
SetRotation(differs) ==
    /\ turned' = differs
    /\ UNCHANGED <<fb_base, need_update, need_int, blank, base_valid,
                   int_status, int_enable, line, ram, dirty, screen, shown>>

\* Mutant of SetBlank: no update is asked for.
SetBlankOnly(v) ==
    /\ blank' = v
    /\ UNCHANGED <<fb_base, need_update, need_int, base_valid, turned,
                   int_status, int_enable, line, ram, dirty, screen, shown>>

\* goldfish_fb_write to FB_SET_BLANK.
SetBlank(v) ==
    /\ blank' = v
    /\ need_update' = 1
    /\ UNCHANGED <<fb_base, need_int, base_valid, turned,
                   int_status, int_enable, line, ram, dirty, screen, shown>>

Next ==
    \/ \E b \in Bases, l \in Lines, p \in Pages, x \in Pixels : Draw(b, l, p, x)
    \/ goldfish_fb_update_display
    \/ goldfish_fb_invalidate_display
    \/ ReadIntStatus
    \/ \E mask \in SUBSET {"VSYNC", "DONE"} : WriteIntEnable(mask)
    \/ \E b \in Bases \cup {0} : SetBase(b)
    \/ \E differs \in {0, 1} : SetRotation(differs)
    \/ \E v \in {0, 1} : SetBlank(v)

\* The user interface's refresh timer keeps calling update_display.
Spec == Init /\ [][Next]_vars /\ WF_vars(goldfish_fb_update_display)

-----------------------------------------------------------------------------
\* The interrupt is high exactly while an enabled event is pending, whichever
\* of the five handlers changed status or mask last.
IrqExact == line = Level(int_status, int_enable)

\* BASE_UPDATE_DONE is pending only if the base last set has been displayed:
\* the guest may then reuse the buffer it showed before.
DoneMeansShown == "DONE" \in int_status => shown = fb_base /\ need_int = 0

\* An update leaves the screen with what the guest drew at the current base
\* (or black): no line is skipped because its dirty page was cleaned earlier,
\* while blank, for another base, or for a neighbouring line.
UpdateShowsMemory ==
    [][goldfish_fb_update_display =>
         screen' = IF blank = 1 THEN [l \in Lines |-> Black] ELSE ram[fb_base]]_vars

\* A change of base is answered, unless the guest goes back to base 0.
BaseUpdateAnswered ==
    need_int = 1 /\ fb_base # 0 ~> "DONE" \in int_status \/ fb_base = 0

=============================================================================
