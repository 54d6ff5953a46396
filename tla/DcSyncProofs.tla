----------------------------- MODULE DcSyncProofs -----------------------------
(***************************************************************************)
(* The cycle time of the bus, the convergence of its clock and the window  *)
(* its offset is averaged over, for every trigger, every deviation, every  *)
(* length of the window and every sequence of clock callbacks.             *)
(***************************************************************************)
EXTENDS DcSync, TotalsProofs

-----------------------------------------------------------------------------
(* The band.                                                               *)

LEMMA DivisionMonotonic ==
    ASSUME NEW a \in Nat, NEW b \in Nat, a <= b
    PROVE  /\ a \div 100 \in Nat /\ b \div 100 \in Nat
           /\ a \div 100 <= b \div 100
OBVIOUS

LEMMA BandOrdered ==
    ASSUME NEW n \in Nat
    PROVE  /\ ((100 - Deviation) * n) \div 100 \in Nat
           /\ ((100 + Deviation) * n) \div 100 \in Nat
           /\ ((100 - Deviation) * n) \div 100 <= ((100 + Deviation) * n) \div 100
<1> USE DcSyncAssumption
<1>1. Deviation \in Nat /\ 100 - Deviation \in Nat /\ 100 + Deviation \in Nat
  OBVIOUS
<1>2. Deviation * n \in Nat
  BY <1>1
<1>3. /\ (100 - Deviation) * n \in Nat /\ (100 + Deviation) * n \in Nat
      /\ (100 - Deviation) * n <= (100 + Deviation) * n
  BY <1>1, <1>2
<1> QED BY <1>3, DivisionMonotonic

(* The timer and its limits are set together; a trigger that is not        *)
(* adjusted keeps its configured period.                                   *)
BandInv ==
    /\ {period, startTimer, minTimer, maxTimer} \subseteq Nat
    /\ timerOverride \in Int
    /\ minTimer <= maxTimer
    /\ ~adjust => period = DevicePeriod
    /\ Armed /\ measured /\ adjust => minTimer <= period /\ period <= maxTimer

LEMMA IntervalNat == BandInv => Interval \in Nat
BY DcSyncAssumption DEF BandInv, Interval

(* Clamping never leaves the band, not even from a sum that wrapped.       *)
LEMMA ClampInBand ==
    ASSUME BandInv, NEW corr \in Int, NEW p \in Clamp(corr)
    PROVE  p \in Nat /\ minTimer <= p /\ p <= maxTimer
BY DEF BandInv, Clamp

LEMMA BandStep == BandInv /\ [Next]_vars => BandInv'
<1> SUFFICES ASSUME BandInv, [Next]_vars PROVE BandInv'
  OBVIOUS
<1>1. CASE SetTimer
  BY <1>1, IntervalNat, BandOrdered DEF SetTimer, BandInv, config, Armed
<1>2. ASSUME NEW corr \in Corrections, NEW diff \in Diffs, RecvDc(corr, diff)
      PROVE  BandInv'
  <2>1. CASE AdjustMasterClock(corr)
    <3>1. corr \in Int
      BY DcSyncAssumption
    <3>2. period' \in Nat /\ minTimer <= period' /\ period' <= maxTimer
      BY <2>1, <3>1, ClampInBand DEF AdjustMasterClock
    <3> QED BY <1>2, <2>1, <3>2 DEF RecvDc, AdjustMasterClock, BandInv, config, timers
  <2>2. CASE AdjustClockOffset(diff)
    BY <1>2, <2>2 DEF RecvDc, AdjustClockOffset, BandInv, config, timers, Armed
  <2> QED BY <1>2, <2>1, <2>2 DEF RecvDc
<1>3. CASE AcquireTrigger \/ ReleaseTrigger
  BY <1>3 DEF AcquireTrigger, ReleaseTrigger, BandInv, config, timers, Armed
<1>4. CASE StartSlaves \/ StopSlaves \/ UNCHANGED vars
  BY <1>4 DEF StartSlaves, StopSlaves, BandInv, vars, config, timers, Armed
<1> QED BY <1>1, <1>2, <1>3, <1>4 DEF Next

(* Whatever the controller asks for, the trigger keeps to its band         *)
(* (master.cpp:257-272).                                                   *)
THEOREM BandKept == Spec => []PeriodInBand
<1>1. Init => BandInv
  BY DcSyncAssumption DEF Init, BandInv, Armed
<1>2. BandInv => PeriodInBand
  BY DEF BandInv, PeriodInBand
<1> QED BY <1>1, <1>2, BandStep, PTL DEF Spec

-----------------------------------------------------------------------------
(* The cycle time.                                                         *)

(* The first start fixes the interval for good: until then no callback has *)
(* changed the period it is read from.                                     *)
CycleInv ==
    /\ timerOverride \in Int
    /\ phase \in {"closed", "acquired", "armed", "running"}
    /\ timerOverride \in Overrides \union {Divisor * DevicePeriod}
    /\ timerOverride <= 0 => period = DevicePeriod
    /\ Armed => startTimer = timerOverride /\ timerOverride > 0

(* A slave keeps its own time, has none yet, or has that of the bus.       *)
SlaveInv ==
    /\ cycleTime \in [SyncUnits -> Nat]
    /\ \A u \in SyncUnits :
         /\ given[u] # 0 => cycleTime[u] = given[u]
         /\ given[u] = 0 /\ cycleTime[u] # 0 => cycleTime[u] = timerOverride
         /\ phase = "running" => cycleTime[u] # 0

LEMMA CycleStep ==
    ASSUME ~EarlyCallback, CycleInv, SlaveInv, [Next]_vars
    PROVE  CycleInv' /\ SlaveInv'
<1>1. CASE SetTimer
  <2>1. Divisor * DevicePeriod \in Nat /\ Divisor * DevicePeriod > 0
    BY DcSyncAssumption
  <2>2. Interval \in Int /\ Interval > 0
        /\ Interval \in Overrides \union {Divisor * DevicePeriod}
        /\ (timerOverride > 0 => Interval = timerOverride)
    BY <2>1 DEF CycleInv, Interval
  <2>3. CycleInv'
    BY <1>1, <2>2 DEF SetTimer, CycleInv, config, Armed
  <2>4. \A u \in SyncUnits : given[u] = 0 /\ cycleTime[u] # 0 => timerOverride > 0
    BY DEF SlaveInv, CycleInv
  <2>5. SlaveInv'
    BY <1>1, <2>2, <2>4 DEF SetTimer, SlaveInv, config
  <2> QED BY <2>3, <2>5
<1>2. CASE StartSlaves
  <2>1. startTimer = timerOverride /\ startTimer \in Nat \ {0}
    BY <1>2 DEF StartSlaves, CycleInv, Armed
  <2> QED BY <1>2, <2>1 DEF StartSlaves, CycleInv, SlaveInv, Filled, config, Armed
<1>3. ASSUME NEW corr \in Corrections, NEW diff \in Diffs, RecvDc(corr, diff)
      PROVE  CycleInv' /\ SlaveInv'
  BY <1>3 DEF RecvDc, CycleInv, SlaveInv, config, timers, Armed
<1>4. CASE AcquireTrigger \/ StopSlaves \/ ReleaseTrigger \/ UNCHANGED vars
  BY <1>4 DEF AcquireTrigger, StopSlaves, ReleaseTrigger, CycleInv, SlaveInv,
              vars, config, timers, Armed
<1> QED BY <1>1, <1>2, <1>3, <1>4 DEF Next

LEMMA CycleFixed == ~EarlyCallback => (Spec => [](CycleInv /\ SlaveInv))
<1> SUFFICES ASSUME ~EarlyCallback PROVE Spec => [](CycleInv /\ SlaveInv)
  OBVIOUS
<1>1. Init => CycleInv /\ SlaveInv
  BY DcSyncAssumption DEF Init, CycleInv, SlaveInv, Armed
<1>2. CycleInv /\ SlaveInv /\ [Next]_vars => CycleInv' /\ SlaveInv'
  BY CycleStep
<1> QED BY <1>1, <1>2, PTL DEF Spec

(* The cycle is the override or the configured rate, never one recv_dc has *)
(* set - as long as no callback comes between acquire and the setting of   *)
(* the timer (master.cpp:829-852).                                         *)
THEOREM CycleOfTrigger == ASSUME ~EarlyCallback PROVE Spec => []IntervalOfTrigger
<1>1. CycleInv => IntervalOfTrigger
  BY DEF CycleInv, IntervalOfTrigger
<1> QED BY <1>1, CycleFixed, PTL

(* The slaves run with the cycle of the bus on every start, although they  *)
(* keep that of their first one (slave.cpp:725-755).                       *)
THEOREM SlavesFollow == ASSUME ~EarlyCallback PROVE Spec => []SlaveCycleIsBusCycle
<1>1. CycleInv /\ SlaveInv => SlaveCycleIsBusCycle
  BY DEF CycleInv, SlaveInv, SlaveCycleIsBusCycle, Armed
<1> QED BY <1>1, CycleFixed, PTL

-----------------------------------------------------------------------------
(* Convergence.                                                            *)

(* What is not above c and exceeds b puts c beyond b. *)
LEMMA Beyond ==
    ASSUME NEW a \in Nat, NEW b \in Nat, NEW c \in Nat, a > b, a <= c PROVE c > b
OBVIOUS

(* The counter gains at most ten for each callback below the margin.       *)
CountInv ==
    /\ cnt \in Nat /\ below \in 0 .. BelowBound
    /\ IF converged THEN 10 * below > ConvergeCycles
       ELSE cnt <= 10 * below \/ below = BelowBound

LEMMA CountStep == BandInv /\ CountInv /\ [Next]_vars => CountInv'
<1> SUFFICES ASSUME BandInv, CountInv, [Next]_vars PROVE CountInv'
  OBVIOUS
<1>1. ASSUME NEW corr \in Corrections, NEW diff \in Diffs, RecvDc(corr, diff)
      PROVE  CountInv'
  <2>1. diff \in Int /\ ConvergeCycles \in Nat /\ startTimer \in Nat
    BY DcSyncAssumption DEF BandInv
  <2>2. 1000 * diff < startTimer => 100 * diff < startTimer
    BY <2>1
  <2>3. below' = IF 100 * diff < startTimer /\ below < BelowBound THEN below + 1
                 ELSE below
    BY <1>1 DEF RecvDc, CountBelow
  <2>6. /\ cnt \in Nat /\ {below, below'} \subseteq 0 .. BelowBound
        /\ below <= below' /\ BelowBound = ConvergeCycles + 1
    BY <2>1, <2>3 DEF CountInv, BelowBound
  <2>4. CASE converged
    BY <1>1, <2>1, <2>4, <2>6 DEF RecvDc, CountInv
  <2>5. CASE ~converged
    <3>1. PICK gain \in {0, 1, 10} :
            /\ gain # 0 => 100 * diff < startTimer
            /\ cnt' = cnt + gain /\ converged' = (cnt + gain > ConvergeCycles)
      BY <1>1, <2>2, <2>5 DEF RecvDc, Converge
    <3>2. cnt' <= 10 * below' \/ below' = BelowBound
      <4>1. cnt <= 10 * below \/ below = BelowBound
        BY <2>5 DEF CountInv
      <4>2. CASE gain = 0
        BY <2>1, <2>6, <3>1, <4>1, <4>2
      <4>3. CASE gain # 0 /\ below = BelowBound
        BY <2>1, <2>6, <4>3
      <4>4. CASE gain # 0 /\ below # BelowBound
        <5>1. below' = below + 1
          BY <2>1, <2>3, <2>6, <3>1, <4>4
        <5>2. gain \in Nat /\ gain <= 10
          BY <3>1
        <5> QED BY <2>1, <2>6, <3>1, <4>1, <4>4, <5>1, <5>2
      <4> QED BY <4>2, <4>3, <4>4
    <3>3. converged' => 10 * below' > ConvergeCycles
      <4>1. converged' => cnt' > ConvergeCycles
        BY <3>1
      <4>2. below' \in Nat /\ 10 * below' \in Nat /\ cnt' \in Nat
        BY <2>1, <2>6, <3>1
      <4>3. below' = BelowBound => 10 * below' > ConvergeCycles
        BY <2>1, <2>6
      <4>4. cnt' > ConvergeCycles /\ cnt' <= 10 * below' => 10 * below' > ConvergeCycles
        BY <2>1, <4>2, Beyond
      <4> QED BY <3>2, <4>1, <4>3, <4>4
    <3> QED BY <2>1, <2>6, <3>1, <3>2, <3>3 DEF CountInv
  <2> QED BY <2>4, <2>5
<1>2. CASE \/ AcquireTrigger \/ SetTimer \/ StartSlaves \/ StopSlaves
           \/ ReleaseTrigger \/ UNCHANGED vars
  BY <1>2 DEF AcquireTrigger, SetTimer, StartSlaves, StopSlaves,
                    ReleaseTrigger, vars, CountInv, BelowBound
<1> QED BY <1>1, <1>2 DEF Next

(* The clock is taken for converged only after a tenth of the configured   *)
(* number of callbacks below the margin (master.cpp:286-300).              *)
THEOREM ConvergenceCounted == Spec => []ConvergedByCallbacks
<1>1. Init => BandInv /\ CountInv
  BY DcSyncAssumption DEF Init, BandInv, CountInv, BelowBound, Armed
<1>2. CountInv => ConvergedByCallbacks
  BY DEF CountInv, ConvergedByCallbacks
<1> QED BY <1>1, <1>2, BandStep, CountStep, PTL DEF Spec

-----------------------------------------------------------------------------
(* The averaging window.                                                   *)

(* Where the ring has the sample i of a window of len samples. *)
RingPlace(pos, len, i) == (pos + AverageCount - len + i - 1) % AverageCount

(* The average a has the samples of w, and their sum. *)
Holds(a, w) ==
    /\ a.buffer \in [0 .. AverageCount - 1 -> Int]
    /\ a.pos \in 0 .. AverageCount - 1
    /\ w \in Seq(Int) /\ Len(w) <= AverageCount
    /\ a.count = Len(w) /\ a.sum = Total(w)
    /\ \A i \in 1 .. Len(w) : a.buffer[RingPlace(a.pos, Len(w), i)] = w[i]

RingInv == Holds(average, window)

LEMMA ModOnce ==
    ASSUME NEW n \in Nat \ {0}, NEW k \in Nat, k < 2 * n
    PROVE  k % n = IF k < n THEN k ELSE k - n
OBVIOUS

LEMMA RingPlaceRange ==
    ASSUME NEW pos \in 0 .. AverageCount - 1, NEW len \in 0 .. AverageCount,
           NEW i \in 1 .. len
    PROVE  RingPlace(pos, len, i) \in 0 .. AverageCount - 1
<1>1. AverageCount \in Nat \ {0}
  BY DcSyncAssumption
<1>2. pos + AverageCount - len + i - 1 \in Nat
  BY <1>1
<1> QED BY <1>1, <1>2 DEF RingPlace

(* The next sample drives out the oldest one of a full window, and no      *)
(* other.                                                                  *)
LEMMA RingPlaces ==
    ASSUME NEW pos \in 0 .. AverageCount - 1, NEW len \in 0 .. AverageCount
    PROVE  LET next == (pos + 1) % AverageCount
           IN  /\ next \in 0 .. AverageCount - 1
               /\ len < AverageCount =>
                    /\ RingPlace(next, len + 1, len + 1) = pos
                    /\ \A i \in 1 .. len :
                         /\ RingPlace(next, len + 1, i) = RingPlace(pos, len, i)
                         /\ RingPlace(pos, len, i) # pos
               /\ len = AverageCount =>
                    /\ RingPlace(pos, len, 1) = pos
                    /\ RingPlace(next, len, len) = pos
                    /\ \A i \in 1 .. len - 1 :
                         /\ RingPlace(next, len, i) = RingPlace(pos, len, i + 1)
                         /\ RingPlace(next, len, i) # pos
<1> DEFINE n == AverageCount
           next == (pos + 1) % n
<1>1. n \in Nat \ {0}
  BY DcSyncAssumption
<1> HIDE DEF n
<1>2. next = IF pos + 1 < n THEN pos + 1 ELSE 0
  <2>1. pos \in Nat /\ pos + 1 \in Nat /\ pos + 1 < 2 * n /\ pos + 1 <= n
    BY <1>1 DEF n
  <2>2. (pos + 1) % n = IF pos + 1 < n THEN pos + 1 ELSE (pos + 1) - n
    BY <1>1, <2>1, ModOnce
  <2> QED BY <1>1, <2>1, <2>2
<1> HIDE DEF next
<1>3. ASSUME NEW q \in 0 .. n - 1, NEW l \in 0 .. n, NEW i \in 1 .. l
      PROVE  RingPlace(q, l, i) = IF q - l + i - 1 < 0 THEN q + n - l + i - 1
                                  ELSE q - l + i - 1
  <2> DEFINE k == q + n - l + i - 1
  <2>1. k \in Nat /\ k < 2 * n /\ (k < n <=> q - l + i - 1 < 0) /\ k - n = q - l + i - 1
    BY <1>1
  <2>2. RingPlace(q, l, i) = k % n
    BY DEF RingPlace, n
  <2> HIDE DEF k
  <2>3. k % n = IF k < n THEN k ELSE k - n
    BY <1>1, <2>1, ModOnce
  <2> QED BY <2>1, <2>2, <2>3 DEF k
<1>4. pos \in 0 .. n - 1 /\ len \in 0 .. n /\ next \in 0 .. n - 1
  BY <1>1, <1>2 DEF n
<1>5. ASSUME len < n
      PROVE  /\ RingPlace(next, len + 1, len + 1) = pos
             /\ \A i \in 1 .. len :
                  /\ RingPlace(next, len + 1, i) = RingPlace(pos, len, i)
                  /\ RingPlace(pos, len, i) # pos
  <2>1. len + 1 \in 0 .. n /\ len + 1 \in 1 .. len + 1
    BY <1>4, <1>5, <1>1
  <2>2. RingPlace(next, len + 1, len + 1) = pos
    BY <1>1, <1>2, <1>3, <1>4, <2>1
  <2>3. ASSUME NEW i \in 1 .. len
        PROVE  /\ RingPlace(next, len + 1, i) = RingPlace(pos, len, i)
               /\ RingPlace(pos, len, i) # pos
    <3>1. i \in 1 .. len + 1
      BY <1>4
    <3>2. RingPlace(next, len + 1, i) = IF next - (len + 1) + i - 1 < 0
                                        THEN next + n - (len + 1) + i - 1
                                        ELSE next - (len + 1) + i - 1
      BY <1>3, <1>4, <2>1, <3>1
    <3>3. RingPlace(pos, len, i) = IF pos - len + i - 1 < 0 THEN pos + n - len + i - 1
                                   ELSE pos - len + i - 1
      BY <1>3, <1>4
    <3>4. pos \in Nat /\ pos < n /\ len \in Nat /\ i \in Nat /\ 1 <= i /\ i <= len
      BY <1>1, <1>4
    <3> QED BY <1>1, <1>2, <1>5, <3>2, <3>3, <3>4
  <2> QED BY <2>2, <2>3
<1>6. ASSUME len = n
      PROVE  /\ RingPlace(pos, len, 1) = pos
             /\ RingPlace(next, len, len) = pos
             /\ \A i \in 1 .. len - 1 :
                  /\ RingPlace(next, len, i) = RingPlace(pos, len, i + 1)
                  /\ RingPlace(next, len, i) # pos
  <2>1. 1 \in 1 .. len /\ len \in 1 .. len
    BY <1>1, <1>6
  <2>2. RingPlace(pos, len, 1) = pos /\ RingPlace(next, len, len) = pos
    BY <1>1, <1>2, <1>3, <1>4, <1>6, <2>1
  <2>3. ASSUME NEW i \in 1 .. len - 1
        PROVE  /\ RingPlace(next, len, i) = RingPlace(pos, len, i + 1)
               /\ RingPlace(next, len, i) # pos
    <3>1. i \in 1 .. len /\ i + 1 \in 1 .. len
      BY <1>4
    <3>2. RingPlace(next, len, i) = IF next - len + i - 1 < 0 THEN next + n - len + i - 1
                                    ELSE next - len + i - 1
      BY <1>3, <1>4, <3>1
    <3>3. RingPlace(pos, len, i + 1) = IF pos - len + (i + 1) - 1 < 0
                                       THEN pos + n - len + (i + 1) - 1
                                       ELSE pos - len + (i + 1) - 1
      BY <1>3, <1>4, <3>1
    <3>4. pos \in Nat /\ pos < n /\ len \in Nat /\ i \in Nat /\ 1 <= i /\ i <= len - 1
      BY <1>1, <1>4
    <3> QED BY <1>1, <1>2, <1>6, <3>2, <3>3, <3>4
  <2> QED BY <2>2, <2>3
<1> QED BY <1>4, <1>5, <1>6 DEF n, next

(* A sample is added to the ring and to the window alike. *)
LEMMA SampleAdded ==
    ASSUME RingInv, NEW diff \in Int
    PROVE  /\ Holds(AddSample(average, AverageCount, diff), Slide(window, diff))
           /\ Len(window) \in Nat /\ Len(Slide(window, diff)) <= Len(window) + 1
<1> DEFINE a == AddSample(average, AverageCount, diff)
           w == Slide(window, diff)
           n == AverageCount
           pos == average.pos
           next == (pos + 1) % n
           len == Len(window)
<1>1. n \in Nat \ {0} /\ len \in 0 .. n /\ pos \in 0 .. n - 1
  BY DcSyncAssumption DEF RingInv, Holds
<1>2. /\ average.buffer \in [0 .. n - 1 -> Int] /\ window \in Seq(Int)
      /\ average.count = len /\ average.sum = Total(window) /\ Total(window) \in Int
      /\ \A i \in 1 .. len : average.buffer[RingPlace(pos, len, i)] = window[i]
  BY TotalAppend DEF RingInv, Holds
<1>3. /\ a.buffer = [average.buffer EXCEPT ![pos] = diff] /\ a.pos = next
      /\ a.sum = (IF len = n THEN average.sum - average.buffer[pos]
                  ELSE average.sum) + diff
      /\ a.count = IF len = n THEN len ELSE len + 1
  BY <1>2 DEF AddSample, Full, Capacity
<1> HIDE DEF a
<1>4. next \in 0 .. n - 1
  BY <1>1, RingPlaces
<1>5. ASSUME len < n PROVE Holds(a, w) /\ Len(w) <= len + 1
  <2>1. w = Append(window, diff)
    BY <1>1, <1>5 DEF Slide
  <2> HIDE DEF w
  <2>2. /\ w \in Seq(Int) /\ Len(w) = len + 1 /\ w[len + 1] = diff
        /\ \A i \in 1 .. len : w[i] = window[i]
    BY <1>2, <2>1
  <2>3. /\ RingPlace(next, len + 1, len + 1) = pos
        /\ \A i \in 1 .. len : /\ RingPlace(next, len + 1, i) = RingPlace(pos, len, i)
                               /\ RingPlace(pos, len, i) # pos
    BY <1>1, <1>5, RingPlaces
  <2>4. a.sum = Total(w) /\ a.count = Len(w)
    BY <1>1, <1>2, <1>3, <1>5, <2>1, <2>2, TotalAppend
  <2>5. ASSUME NEW i \in 1 .. Len(w) PROVE a.buffer[RingPlace(next, len + 1, i)] = w[i]
    <3>1. CASE i = len + 1
      BY <1>1, <1>2, <1>3, <2>2, <2>3, <3>1
    <3>2. CASE i # len + 1
      <4>1. i \in 1 .. len
        BY <1>1, <2>2, <3>2
      <4>2. RingPlace(pos, len, i) \in 0 .. n - 1
        BY <1>1, <4>1, RingPlaceRange
      <4>3. a.buffer[RingPlace(pos, len, i)] = average.buffer[RingPlace(pos, len, i)]
        BY <1>2, <1>3, <2>3, <4>1, <4>2
      <4> QED BY <1>2, <2>2, <2>3, <4>1, <4>3
    <3> QED BY <3>1, <3>2
  <2>6. \A i \in 1 .. Len(w) : a.buffer[RingPlace(a.pos, Len(w), i)] = w[i]
    BY <1>3, <2>2, <2>5
  <2>7. a.buffer \in [0 .. n - 1 -> Int] /\ a.pos \in 0 .. n - 1
    BY <1>2, <1>3, <1>4
  <2>8. Len(w) <= n /\ len \in Nat /\ Len(w) <= len + 1
    BY <1>1, <1>5, <2>2
  <2> QED BY <2>2, <2>4, <2>6, <2>7, <2>8 DEF Holds
<1>6. ASSUME len = n PROVE Holds(a, w) /\ Len(w) <= len + 1
  <2>1. w = Append(Tail(window), diff) /\ window # << >>
    BY <1>1, <1>2, <1>6 DEF Slide
  <2> HIDE DEF w
  <2>2. /\ Tail(window) \in Seq(Int) /\ Len(Tail(window)) = len - 1
        /\ \A i \in 1 .. len - 1 : Tail(window)[i] = window[i + 1]
    BY <1>1, <1>2, <2>1
  <2>3. /\ w \in Seq(Int) /\ Len(w) = len /\ w[len] = diff
        /\ \A i \in 1 .. len - 1 : w[i] = window[i + 1]
    BY <1>1, <2>1, <2>2
  <2>4. /\ RingPlace(pos, len, 1) = pos
        /\ RingPlace(next, len, len) = pos
        /\ \A i \in 1 .. len - 1 : /\ RingPlace(next, len, i) = RingPlace(pos, len, i + 1)
                                   /\ RingPlace(next, len, i) # pos
    <3>1. pos \in 0 .. n - 1 /\ len \in 0 .. n
      BY ONLY <1>1
    <3> HIDE DEF len, pos, n
    <3>2. n = AverageCount /\ next = (pos + 1) % AverageCount
      BY DEF n
    <3> HIDE DEF next
    <3> QED BY ONLY <1>6, <3>1, <3>2, RingPlaces
  <2>5. average.buffer[pos] = window[1] /\ window[1] \in Int
    BY <1>1, <1>2, <1>6, <2>4
  <2>6. Total(w) = Total(window) - window[1] + diff
    BY <1>2, <2>1, <2>2, TotalAppend, TotalTail
  <2>7. a.sum = Total(w) /\ a.count = Len(w)
    BY <1>2, <1>3, <1>6, <2>3, <2>5, <2>6
  <2>8. ASSUME NEW i \in 1 .. Len(w) PROVE a.buffer[RingPlace(next, len, i)] = w[i]
    <3>1. CASE i = len
      BY <1>1, <1>2, <1>3, <2>3, <2>4, <3>1
    <3>2. CASE i # len
      <4>1. i \in 1 .. len - 1 /\ i + 1 \in 1 .. len
        BY <1>1, <2>3, <3>2
      <4>2. RingPlace(pos, len, i + 1) \in 0 .. n - 1
        BY <1>1, <4>1, RingPlaceRange
      <4>3. a.buffer[RingPlace(pos, len, i + 1)]
              = average.buffer[RingPlace(pos, len, i + 1)]
        BY <1>2, <1>3, <2>4, <4>1, <4>2
      <4> QED BY <1>2, <2>3, <2>4, <4>1, <4>3
    <3> QED BY <3>1, <3>2
  <2>9. \A i \in 1 .. Len(w) : a.buffer[RingPlace(a.pos, Len(w), i)] = w[i]
    BY <1>3, <2>3, <2>8
  <2>10. a.buffer \in [0 .. n - 1 -> Int] /\ a.pos \in 0 .. n - 1
    BY <1>2, <1>3, <1>4
  <2>11. Len(w) <= n /\ Len(w) <= len + 1
    BY <1>1, <1>6, <2>3
  <2> QED BY <2>3, <2>7, <2>9, <2>10, <2>11 DEF Holds
<1>7. Holds(a, w) /\ Len(w) <= len + 1
  <2> HIDE DEF w
  <2> QED BY <1>1, <1>5, <1>6
<1> QED BY <1>1, <1>7 DEF a

LEMMA RingStep == RingInv /\ [Next]_vars => RingInv'
<1> SUFFICES ASSUME RingInv, [Next]_vars PROVE RingInv'
  OBVIOUS
<1>1. ASSUME NEW diff \in Diffs, AdjustClockOffset(diff) PROVE RingInv'
  <2> DEFINE a == AddSample(average, AverageCount, diff)
             w == Slide(window, diff)
  <2>1. diff \in Int
    BY DcSyncAssumption
  <2>2. Holds(a, w)
    BY <2>1, SampleAdded
  <2>3. CASE OffsetExceeded(a)
    <3>1. average' = Reset(a) /\ window' = << >>
      BY <1>1, <2>3 DEF AdjustClockOffset
    <3>2. /\ average'.buffer = a.buffer /\ average'.pos = 0 /\ average'.count = 0
          /\ average'.sum = 0
      BY <3>1 DEF Reset, AddSample
    <3>3. AverageCount \in Nat \ {0}
      BY DcSyncAssumption
    <3> HIDE DEF a
    <3> QED BY <2>2, <3>1, <3>2, <3>3, TotalEmpty DEF RingInv, Holds
  <2>4. CASE ~OffsetExceeded(a)
    <3>1. average' = a /\ window' = w
      BY <1>1, <2>4 DEF AdjustClockOffset
    <3> HIDE DEF a, w
    <3> QED BY <2>2, <3>1 DEF RingInv
  <2> QED BY <2>3, <2>4
<1>2. CASE UNCHANGED <<average, window, completed>>
  BY <1>2 DEF RingInv, Holds
<1>3. CASE \/ AcquireTrigger \/ SetTimer \/ StartSlaves \/ StopSlaves
           \/ ReleaseTrigger \/ UNCHANGED vars
  BY <1>2, <1>3 DEF AcquireTrigger, SetTimer, StartSlaves, StopSlaves, ReleaseTrigger, vars
<1>4. ASSUME NEW corr \in Corrections, NEW diff \in Diffs, RecvDc(corr, diff)
      PROVE  RingInv'
  BY <1>1, <1>2, <1>4 DEF RecvDc, AdjustMasterClock
<1> QED BY <1>3, <1>4 DEF Next

LEMMA RingKept == Spec => []RingInv
<1>1. Init => RingInv
  <2> SUFFICES ASSUME Init PROVE RingInv
    OBVIOUS
  <2>1. AverageCount \in Nat \ {0}
    BY DcSyncAssumption
  <2>2. /\ average.buffer = [i \in 0 .. AverageCount - 1 |-> 0] /\ average.sum = 0
        /\ average.pos = 0 /\ average.count = 0 /\ window = << >>
    BY DEF Init, NewAverage
  <2> QED BY <2>1, <2>2, TotalEmpty DEF RingInv, Holds
<1> QED BY <1>1, RingStep, PTL DEF Spec

(* The running sum of the averaging window is the sum of the samples since *)
(* the last correction, for a window of any length and any sequence of     *)
(* samples and resets (master.h:87-131).                                   *)
THEOREM SumIsOfWindow == Spec => []WindowSummed
<1>1. RingInv => WindowSummed
  BY DEF RingInv, Holds, WindowSummed, RingPlace
<1> QED BY <1>1, RingKept, PTL

LEMMA DivisionAbove ==
    ASSUME NEW n \in Nat \ {0}, NEW x \in Nat, NEW t \in Nat, x \div n > t
    PROVE  x > n * t
OBVIOUS

(* An average beyond the threshold needs a sample beyond it. *)
LEMMA AverageBeyond ==
    ASSUME NEW w \in Seq(Int), w # << >>, NEW q,
           q = Quotient(Total(w), Len(w)), q > Threshold \/ q < -Threshold
    PROVE  \E i \in 1 .. Len(w) : w[i] > Threshold \/ w[i] < -Threshold
<1> SUFFICES ASSUME \A i \in 1 .. Len(w) : ~(w[i] > Threshold \/ w[i] < -Threshold)
             PROVE  FALSE
  OBVIOUS
<1> DEFINE s == Total(w)
           n == Len(w)
<1>1. Threshold \in Nat /\ -Threshold \in Int /\ n \in Nat \ {0} /\ s \in Int
  <2>1. Total(w) \in Int
    BY 0 \in Int, TotalAppend
  <2> QED BY <2>1, DcSyncAssumption
<1>2. ASSUME NEW i \in 1 .. n PROVE -Threshold <= w[i] /\ w[i] <= Threshold
  <2>1. w[i] \in Int /\ ~(w[i] > Threshold) /\ ~(w[i] < -Threshold)
    OBVIOUS
  <2> HIDE DEF n
  <2> QED BY <1>1, <2>1
<1>3. n * (-Threshold) <= s /\ s <= n * Threshold
  <2>1. PICK lo \in Int : lo = -Threshold
    BY <1>1
  <2>2. \A i \in 1 .. Len(w) : lo <= w[i] /\ w[i] <= Threshold
    BY <1>2, <2>1
  <2>3. Len(w) * lo <= Total(w) /\ Total(w) <= Len(w) * Threshold
    <3>1. Threshold \in Int
      BY <1>1
    <3> QED BY <2>2, <3>1, TotalBounded, Zenon
  <2> QED BY <2>1, <2>3
<1>4. n * (-Threshold) = -(n * Threshold) /\ n * Threshold \in Nat
  BY <1>1
<1>5. q = IF s >= 0 THEN s \div n ELSE -((-s) \div n)
  BY DEF Quotient
<1> HIDE DEF s, n
<1>6. CASE s >= 0
  <2>1. s \in Nat /\ s \div n \in Nat /\ q = s \div n
    BY <1>1, <1>5, <1>6
  <2>2. s \div n > Threshold
    BY <1>1, <2>1
  <2>3. s > n * Threshold
    BY <1>1, <2>1, <2>2, DivisionAbove
  <2> QED BY <1>1, <1>3, <1>4, <2>3
<1>7. CASE s < 0
  <2>1. -s \in Nat /\ (-s) \div n \in Nat /\ q = -((-s) \div n)
    BY <1>1, <1>5, <1>7
  <2>2. (-s) \div n > Threshold
    BY <1>1, <2>1
  <2>3. -s > n * Threshold
    BY <1>1, <2>1, <2>2, DivisionAbove
  <2> QED BY <1>1, <1>3, <1>4, <2>3
<1> QED BY <1>1, <1>6, <1>7

(* The offset of the clock is corrected only for a whole window of samples *)
(* behind the last correction, the one just taken included, and only when  *)
(* one of these samples exceeds the threshold (master.cpp:274-281).        *)
THEOREM CorrectionFromWindow == Spec => []CorrectionJustified
<1>1. Init => CorrectionJustified
  BY DEF Init, CorrectionJustified
<1>2. RingInv /\ CorrectionJustified /\ [Next]_vars => CorrectionJustified'
  <2> SUFFICES ASSUME RingInv, CorrectionJustified, [Next]_vars, completed' # completed,
                      completed' # << >>
               PROVE  CorrectionJustified'
    BY DEF CorrectionJustified
  <2>1. PICK diff \in Diffs : AdjustClockOffset(diff)
    BY DEF Next, AcquireTrigger, SetTimer, StartSlaves, StopSlaves, ReleaseTrigger,
           RecvDc, AdjustMasterClock, vars
  <2> DEFINE a == AddSample(average, AverageCount, diff)
             w == Slide(window, diff)
  <2>2. diff \in Int /\ AverageCount \in Nat \ {0}
    BY DcSyncAssumption
  <2>3. /\ w \in Seq(Int) /\ a.count = Len(w) /\ a.sum = Total(w)
    BY <2>2, SampleAdded DEF Holds
  <2>4. w # << >>
    BY DEF Slide, RingInv, Holds
  <2>5. OffsetExceeded(a) /\ completed' = w
    BY <2>1 DEF AdjustClockOffset
  <2> HIDE DEF a, w
  <2>6. Len(w) = AverageCount
    BY <2>3, <2>5 DEF OffsetExceeded, Full, Capacity
  <2>7. \E i \in 1 .. Len(w) : w[i] > Threshold \/ w[i] < -Threshold
    BY <2>3, <2>4, <2>5, AverageBeyond DEF OffsetExceeded, Average
  <2>8. \E v \in Samples(w) : v > Threshold \/ v < -Threshold
    BY <2>7 DEF Samples
  <2> QED BY <2>5, <2>6, <2>8 DEF CorrectionJustified, Samples
<1> QED BY RingKept, <1>1, <1>2, PTL DEF Spec

=============================================================================
