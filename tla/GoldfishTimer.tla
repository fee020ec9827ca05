--------------------------- MODULE GoldfishTimer ---------------------------
(***************************************************************************)
(* The goldfish timer (hw/goldfish_timer.c).  Time is a 64-bit count the   *)
(* guest reads and programs as two 32-bit registers; here a word holds     *)
(* values 0..WordSize-1 so that carries into the high word happen within   *)
(* MaxTime.                                                                *)
(*                                                                         *)
(* The machine may be saved at any time and loaded by another emulator     *)
(* (-loadvm).  All there is after that comes from the snapshot or from     *)
(* that emulator's Init, whenever it is loaded, so saving and loading are  *)
(* one step, Restore.  The clock, the interrupt controller and the guest   *)
(* are restored by others, before the timer.                               *)
(***************************************************************************)
EXTENDS Integers

CONSTANTS
    WordSize,   \* number of values of a register (2^32 in the code), even
    MaxTime     \* bound on the virtual clock

ASSUME TimerAssumption ==
    WordSize \in Nat \ {0} /\ WordSize % 2 = 0 /\ MaxTime \in Nat

NoTime == -WordSize * WordSize - 1      \* below every time and alarm

VARIABLES
    clock,      \* vm_clock, in nanoseconds
    now,        \* s->now: the time latched by the last TIMER_TIME_LOW read
    alarm_low,  \* s->alarm_low
    alarm_high, \* s->alarm_high, a signed word
    armed,      \* s->armed
    timer,      \* expiry of the QEMUTimer s->timer, NoTime when inactive
    line,       \* the timer's interrupt
    wanted,     \* history: last alarm programmed and not cleared, or NoTime
    high,       \* history: the high word the guest has written last
    regs,       \* history: whether the registers are those of the last alarm:
                \* "whole"; "half" after a new high word; "lost" when they
                \* were not restored
    torn,       \* history: 1 while the device's alarm is not the guest's
                \* because registers were lost or saved between two writes
    lowAt,      \* history: the clock at the guest's last TIMER_TIME_LOW read
    got         \* history: the time the guest put together from two reads

alarmVars == <<alarm_low, alarm_high, wanted, high, regs, torn>>
devVars == <<now, armed, timer, line, alarmVars>>
vars == <<clock, devVars, lowAt, got>>

\* goldfish_timer_and_rtc_init: the state is static, hence zero.
Init ==
    /\ clock = 0
    /\ now = 0
    /\ alarm_low = 0 /\ alarm_high = 0
    /\ armed = 0
    /\ timer = NoTime
    /\ line = 0
    /\ wanted = NoTime
    /\ high = 0 /\ regs = "whole" /\ torn = 0
    /\ lowAt = NoTime
    /\ got = NoTime

\* A register value as an int32_t.
Signed(v) == IF v >= WordSize \div 2 THEN v - WordSize ELSE v

-----------------------------------------------------------------------------
\* goldfish_timer_read of TIMER_TIME_LOW.
ReadTimeLow ==
    /\ now' = clock
    /\ lowAt' = clock
    /\ got' = NoTime
    /\ UNCHANGED <<clock, armed, timer, line, alarmVars>>

\* Mutant of TimeHigh: the high word is taken from the clock, not the latch.
TimeHighLive == clock \div WordSize

\* What goldfish_timer_read returns for TIMER_TIME_HIGH.
TimeHigh == now \div WordSize

\* The guest reads TIMER_TIME_HIGH after TIMER_TIME_LOW, any time later.
ReadTimeHigh ==
    /\ lowAt # NoTime
    /\ got' = TimeHigh * WordSize + (lowAt % WordSize)
    /\ UNCHANGED <<clock, devVars, lowAt>>

\* goldfish_timer_write to TIMER_ALARM_HIGH.
WriteAlarmHigh(v) ==
    /\ alarm_high' = Signed(v)
    /\ high' = Signed(v) /\ regs' = "half"
    /\ UNCHANGED <<clock, now, alarm_low, armed, timer, line, wanted, torn, lowAt, got>>

\* Mutant of Alarm: the high word is not used.
AlarmLow(v) == v

\* The time of an alarm whose low word is v.
Alarm(v) == alarm_high * WordSize + v

\* goldfish_timer_write to TIMER_ALARM_LOW: an alarm that is due raises the
\* interrupt and leaves an earlier host timer running.
WriteAlarmLow(v) ==
    /\ IF Alarm(v) <= clock
       THEN line' = 1 /\ UNCHANGED <<armed, timer>>
       ELSE timer' = Alarm(v) /\ armed' = 1 /\ UNCHANGED line
    /\ alarm_low' = v
    /\ wanted' = high * WordSize + v
    /\ IF regs = "lost" THEN torn' = 1 /\ UNCHANGED regs
       ELSE torn' = 0 /\ regs' = "whole"
    /\ UNCHANGED <<clock, now, alarm_high, high, lowAt, got>>

\* goldfish_timer_write to TIMER_CLEAR_INTERRUPT.
ClearInterrupt ==
    /\ line' = 0
    /\ UNCHANGED <<clock, now, armed, timer, alarmVars, lowAt, got>>

\* goldfish_timer_write to TIMER_CLEAR_ALARM, which falls through to
\* TIMER_CLEAR_INTERRUPT.
ClearAlarm ==
    /\ timer' = NoTime
    /\ armed' = 0
    /\ line' = 0
    /\ wanted' = NoTime /\ torn' = 0
    /\ UNCHANGED <<clock, now, alarm_low, alarm_high, high, regs, lowAt, got>>

\* Mutant of goldfish_timer_tick: only the flag is cleared.
TimerTickSilent ==
    /\ timer # NoTime /\ timer <= clock
    /\ timer' = NoTime
    /\ armed' = 0
    /\ UNCHANGED <<clock, now, line, alarmVars, lowAt, got>>

\* qemu_run_timers takes an expired timer off its list and calls
\* goldfish_timer_tick; the main loop may come to it any time after expiry.
goldfish_timer_tick ==
    /\ timer # NoTime /\ timer <= clock
    /\ timer' = NoTime
    /\ armed' = 0
    /\ line' = 1
    /\ UNCHANGED <<clock, now, alarmVars, lowAt, got>>

\* Mutant of SavedDiff: the alarm is saved as it is.
SavedAlarm == Alarm(alarm_low)

\* What goldfish_timer_save saves of an alarm.
SavedDiff == Alarm(alarm_low) - clock

\* goldfish_timer_save, and goldfish_timer_load in another emulator: the host
\* timer is set from the difference saved, or the interrupt is raised when the
\* alarm is due; the registers of the alarm are not restored.
Restore ==
    /\ IF armed = 0 THEN UNCHANGED <<armed, timer, line>>
       ELSE IF SavedDiff <= 0
       THEN line' = 1 /\ armed' = 0 /\ timer' = NoTime
       ELSE timer' = clock + SavedDiff /\ UNCHANGED <<armed, line>>
    /\ alarm_low' = 0 /\ alarm_high' = 0 /\ regs' = "lost"
    /\ torn' = IF armed = 1 /\ regs # "whole" THEN 1 ELSE torn
    /\ UNCHANGED <<clock, now, wanted, high, lowAt, got>>

\* The virtual clock advances.
Advance ==
    /\ clock < MaxTime
    /\ clock' = clock + 1
    /\ UNCHANGED <<devVars, lowAt, got>>

Next ==
    \/ ReadTimeLow
    \/ ReadTimeHigh
    \/ \E v \in 0..WordSize - 1 : WriteAlarmHigh(v)
    \/ \E v \in 0..WordSize - 1 : WriteAlarmLow(v)
    \/ ClearInterrupt
    \/ ClearAlarm
    \/ goldfish_timer_tick
    \/ Restore
    \/ Advance

\* The clock runs and the main loop keeps calling qemu_run_timers.
Spec == Init /\ [][Next]_vars /\ WF_vars(Advance) /\ WF_vars(goldfish_timer_tick)

-----------------------------------------------------------------------------
\* The flag goldfish_timer_save relies on agrees with the host timer, also
\* after loads: armed is set exactly while the timer is on the list, and the
\* alarm it is set for is the one last programmed, unless that alarm was already
\* due, or goldfish_timer_save found the registers of another one.
ArmedIffTimerRuns ==
    /\ armed = 1 <=> timer # NoTime
    /\ armed = 1 /\ torn = 0 => timer = wanted \/ wanted <= clock

\* A time assembled from a TIMER_TIME_LOW and a later TIMER_TIME_HIGH read is
\* the time of the first read, whatever carries happen in between, and also
\* when the machine is saved and loaded "in the middle of a timer read".
TimeNotTorn == got # NoTime => got = lowAt

\* The interrupt never rises early or after TIMER_CLEAR_ALARM, nor does a load
\* raise it early: when it rises, the guest has an alarm programmed, and its
\* time has come (save for alarms whose registers were lost).
NeverEarly ==
    [][line = 0 /\ line' = 1 /\ torn' = 0 => wanted' # NoTime /\ wanted' <= clock]_vars

\* An alarm set for a later time raises the interrupt unless the guest
\* replaces or clears it first, however often the machine is saved and loaded.
AlarmFires ==
    \A t \in 0..MaxTime : (timer = t /\ wanted = t /\ torn = 0)
                           ~> (line = 1 \/ wanted # t \/ torn = 1)

=============================================================================
