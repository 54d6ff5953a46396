SPECIFICATION LiveSpec
CONSTANTS
    Directions <- BothDirections
    Ids = {1, 2, 3}
    Requests <- OncePerCall
    Quiescent = TRUE
INVARIANTS
    NeverNull
    WholeWhenIdle
PROPERTIES
    RefusedInCallsOnly
    ExchangeServed
