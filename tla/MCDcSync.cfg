SPECIFICATION Spec
CONSTANTS
    DevicePeriod = 500
    Divisor = 2
    Overrides <- NoneOr900
    Deviation = 5
    ConvergeCycles = 10
    AverageCount = 3
    SyncUnits = {0, 1}
    CycleTimes <- NoneOr700
    Threshold = 20
    Corrections <- FourCorrs
    Diffs <- FourDiffs
    EarlyCallback = FALSE
INVARIANTS SlaveCycleIsBusCycle PeriodInBand IntervalOfTrigger WindowSummed
INVARIANTS ConvergedByCallbacks CorrectionJustified
