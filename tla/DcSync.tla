------------------------------- MODULE DcSync -------------------------------
(***************************************************************************)
(* The coupling of the robot kernel's trigger to the distributed clock:    *)
(* the part of set_state that takes the cycle time from the trigger device *)
(* when the bus has been opened, and master::recv_dc, the callback of each *)
(* clock datagram, in the mode ref_clock.  Times are in nanoseconds; the   *)
(* rate the code keeps is the inverse of the period kept here.             *)
(***************************************************************************)
EXTENDS MovingAverage, Totals

CONSTANTS
    DevicePeriod,       \* period of the trigger device as it is configured
    Divisor,            \* trg->divisor
    Overrides,          \* dc_sync_timer_override: none where it is negative
    Deviation,          \* max_timer_deviation_in_percent
    ConvergeCycles,     \* dc_sync_converge_cycles
    AverageCount,       \* dc_act_diff_average_count
    Threshold,          \* dc_act_diff_threshold_dcsoffset_correction
    Corrections,        \* timer corrections of the bus library's controller
    SyncUnits,          \* sync units a slave's dc.type has configured: 0, or 0 and 1
    CycleTimes,         \* dc.cycle_time_0 and _1 as configured: 0 for none
    Diffs,              \* clock differences it measures
    EarlyCallback       \* a clock datagram is back before the timer is set

ASSUME DcSyncAssumption ==
    /\ {DevicePeriod, Divisor, AverageCount} \subseteq Nat \ {0}
    /\ {Deviation, ConvergeCycles, Threshold} \subseteq Nat
    /\ Deviation <= 100
    /\ Overrides \subseteq Int /\ Corrections \subseteq Int /\ Diffs \subseteq Int
    /\ EarlyCallback \in BOOLEAN /\ CycleTimes \subseteq Nat

VARIABLES
    adjust,         \* dc_sync.adjust_master_clock, fixed by the configuration
    given,          \* cycle times of a slave, fixed by the configuration
    phase,          \* "closed", "acquired" (the trigger runs), "armed", and
                    \* "running" when the slaves have been started
    period,         \* of the trigger device
    timerOverride,  \* dc_sync.timer_override
    startTimer,     \* dc_sync.start_timer
    minTimer,       \* min_timer_rate
    maxTimer,       \* max_timer_rate
    cycleTime,      \* of the slave: dc.cycle_time_0 and _1
    average,        \* act_diff_avg
    cnt,            \* dc_sync.diff_converge_cnt
    converged,      \* dc_sync.diff_converged
    measured,       \* history: recv_dc has run since the timer was set
    below,          \* history: callbacks below the margin, up to the bound
    window,         \* history: samples since the last correction, at most
                    \* AverageCount of them
    completed       \* history: the window the last callback corrected the
                    \* offset for, empty where it did not

config == <<adjust, given>>
timers == <<timerOverride, startTimer, minTimer, maxTimer, cycleTime>>
vars   == <<config, phase, period, timers, average, cnt, converged, measured,
            below, window, completed>>

BelowBound == ConvergeCycles + 1

TypeOK ==
    /\ {adjust, converged, measured} \subseteq BOOLEAN
    /\ phase \in {"closed", "acquired", "armed", "running"}
    /\ {period, startTimer, minTimer, maxTimer} \subseteq Nat
    /\ timerOverride \in Int
    /\ {given, cycleTime} \subseteq [SyncUnits -> Nat]
    /\ average.pos \in 0 .. AverageCount - 1
    /\ average.count \in 0 .. AverageCount
    /\ cnt \in 0 .. ConvergeCycles + 10
    /\ below \in 0 .. BelowBound

Init ==
    /\ adjust \in BOOLEAN
    /\ given \in [SyncUnits -> CycleTimes] /\ cycleTime = given
    /\ phase = "closed" /\ period = DevicePeriod
    /\ timerOverride \in Overrides
    /\ startTimer = 0 /\ minTimer = 0 /\ maxTimer = 0
    /\ average = NewAverage(AverageCount)
    /\ cnt = 0 /\ converged = FALSE
    /\ measured = FALSE /\ below = 0 /\ window = << >> /\ completed = << >>

-----------------------------------------------------------------------------
(* set_state behind the preop rung: the trigger is acquired first, the     *)
(* timer is set from its rate afterwards.                                  *)

AcquireTrigger ==
    /\ phase = "closed" /\ phase' = "acquired" /\ measured' = FALSE
    /\ UNCHANGED <<config, period, timers, average, cnt, converged, below, window,
                   completed>>

Armed == phase \in {"armed", "running"}

(* Mutant: the trigger's rate is read on every start. *)
IntervalReadAgain == Divisor * period

(* The rate of the device is divided for this module; an override, which   *)
(* the first start leaves behind, takes precedence.                        *)
Interval == IF timerOverride > 0 THEN timerOverride ELSE Divisor * period

SetTimer ==
    /\ phase = "acquired" /\ phase' = "armed"
    /\ timerOverride' = Interval /\ startTimer' = Interval
    /\ minTimer' = ((100 - Deviation) * Interval) \div 100
    /\ maxTimer' = ((100 + Deviation) * Interval) \div 100
    /\ measured' = FALSE
    /\ UNCHANGED <<config, cycleTime, period, average, cnt, converged, below, window,
                   completed>>

(* Mutant: every start sets the time, over the configured one. *)
FillAlways(u) == startTimer

(* slave::pre_state_transition on the way to safeop: a slave without a     *)
(* cycle time gets the cycle of the bus, and has one from then on.         *)
Filled(u) == IF cycleTime[u] = 0 THEN startTimer ELSE cycleTime[u]

StartSlaves ==
    /\ phase = "armed" /\ phase' = "running"
    /\ cycleTime' = [u \in SyncUnits |-> Filled(u)]
    /\ UNCHANGED <<config, period, timerOverride, startTimer, minTimer, maxTimer,
                   average, cnt, converged, measured, below, window, completed>>

(* Back to preop: the trigger runs on. *)
StopSlaves ==
    /\ phase = "running" /\ phase' = "armed"
    /\ UNCHANGED <<config, period, timers, average, cnt, converged, measured,
                   below, window, completed>>

(* On the way to init the trigger is released; the timers keep their value *)
(* and the trigger device its rate.                                        *)
ReleaseTrigger ==
    /\ Armed /\ phase' = "closed"
    /\ UNCHANGED <<config, period, timers, average, cnt, converged, measured,
                   below, window, completed>>

-----------------------------------------------------------------------------
(* master::recv_dc.                                                        *)

(* Mutant: only the upper limit is applied. *)
ClampAbove(corr) ==
    IF startTimer + corr > maxTimer THEN {maxTimer} ELSE {startTimer + corr}

(* The periods a correction may lead to.  A sum below zero is converted to *)
(* an unsigned integer, which is undefined: it ends at one limit or at the *)
(* other.                                                                  *)
Clamp(corr) ==
    LET timer == startTimer + corr
    IN  IF timer < 0 THEN {minTimer, maxTimer}
        ELSE IF timer < minTimer THEN {minTimer}
        ELSE IF timer > maxTimer THEN {maxTimer} ELSE {timer}

AdjustMasterClock(corr) ==
    /\ adjust
    /\ period' \in Clamp(corr)
    /\ UNCHANGED <<average, window, completed>>

(* Mutant: the average is used before the window is full. *)
OffsetExceededEarly(a) ==
    Average(a) > Threshold \/ Average(a) < -Threshold

(* The average is taken for an offset between the clocks. *)
OffsetExceeded(a) ==
    /\ Full(a, AverageCount)
    /\ Average(a) > Threshold \/ Average(a) < -Threshold

Slide(w, v) == Append(IF Len(w) = AverageCount THEN Tail(w) ELSE w, v)

AdjustClockOffset(diff) ==
    /\ ~adjust
    /\ LET a == AddSample(average, AverageCount, diff)
       IN  IF OffsetExceeded(a)
           THEN /\ average' = Reset(a) /\ window' = << >>
                /\ completed' = Slide(window, diff)
           ELSE /\ average' = a /\ window' = Slide(window, diff)
                /\ completed' = << >>
    /\ UNCHANGED period

(* Mutant: the counter has to reach the limit, not to pass it. *)
ConvergeReached(diff) ==
    LET gain == IF 1000 * diff < startTimer THEN 10
                ELSE IF 100 * diff < startTimer THEN 1 ELSE 0
    IN  /\ cnt' = cnt + gain
        /\ converged' = (cnt + gain >= ConvergeCycles)

(* A difference below a tenth of a percent of the cycle counts ten times;  *)
(* a negative one is below every margin.                                   *)
Converge(diff) ==
    LET gain == IF 1000 * diff < startTimer THEN 10
                ELSE IF 100 * diff < startTimer THEN 1 ELSE 0
    IN  /\ cnt' = cnt + gain
        /\ converged' = (cnt + gain > ConvergeCycles)

CountBelow(diff) ==
    below' = IF 100 * diff < startTimer /\ below < BelowBound THEN below + 1
             ELSE below

RecvDc(corr, diff) ==
    /\ Armed \/ (EarlyCallback /\ phase = "acquired")
    /\ AdjustMasterClock(corr) \/ AdjustClockOffset(diff)
    /\ IF converged THEN UNCHANGED <<cnt, converged>> ELSE Converge(diff)
    /\ CountBelow(diff)
    /\ measured' = TRUE
    /\ UNCHANGED <<config, phase, timers>>

Next ==
    \/ AcquireTrigger \/ SetTimer \/ StartSlaves \/ StopSlaves \/ ReleaseTrigger
    \/ \E corr \in Corrections, diff \in Diffs : RecvDc(corr, diff)

Spec == Init /\ [][Next]_vars

-----------------------------------------------------------------------------
(* Properties.                                                             *)

(* Whatever the bus library's controller asks for, the trigger is set to a *)
(* period inside the configured deviation (master.cpp:258-272), and to     *)
(* none at all while the clock is adjusted the other way round.            *)
PeriodInBand ==
    Armed /\ measured =>
        IF adjust THEN minTimer <= period /\ period <= maxTimer
        ELSE period = DevicePeriod

(* A slave without a cycle time of its own runs with the cycle of the bus  *)
(* on every start, although it keeps the time of its first one and recv_dc *)
(* changes the rate of the device the cycle was read from (slave.cpp:731,  *)
(* master.cpp:833-848): the cycle does not drift from start to start.      *)
SlaveCycleIsBusCycle ==
    phase = "running" =>
        \A u \in SyncUnits : cycleTime[u] = IF given[u] = 0 THEN startTimer ELSE given[u]

(* And that cycle time is the override or the rate the trigger device is   *)
(* configured with, never one that recv_dc has set.                        *)
IntervalOfTrigger ==
    Armed => startTimer \in Overrides \union {Divisor * DevicePeriod}

(* The running sum is the sum of the samples since the last correction, as *)
(* many as the window holds, and the ring holds those samples although a   *)
(* reset leaves old ones behind (master.h:87-131).                         *)
WindowSummed ==
    /\ average.count = Len(window)
    /\ average.sum = Total(window)
    /\ \A i \in 1 .. Len(window) :
         average.buffer[(average.pos + AverageCount - Len(window) + i - 1)
                        % AverageCount] = window[i]

(* The offset of the clock is corrected only for a whole window of samples *)
(* behind the last correction, the one just taken included, and only when  *)
(* one of these samples exceeds the threshold (master.cpp:274-281).        *)
Samples(w) == {w[i] : i \in 1 .. Len(w)}

CorrectionJustified ==
    completed # << >> =>
        /\ Len(completed) = AverageCount
        /\ \E v \in Samples(completed) : v > Threshold \/ v < -Threshold

(* The clock is taken for converged only after more callbacks below the    *)
(* margin than a tenth of dc_sync_converge_cycles, over all starts         *)
(* (master.cpp:286-300).                                                   *)
ConvergedByCallbacks == converged => 10 * below > ConvergeCycles

=============================================================================
