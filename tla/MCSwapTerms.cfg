SPECIFICATION Spec
CONSTANTS
    Interval <- Intervals
    ShortWindow <- ShortWindows
    LongWindow <- LongWindows
    MinimumWindow <- MinimumWindows
    MaxHeight <- HeightTypes
    StartHeights <- Starts
    MinimumLifetime = 1
    MaximumLifetime = 4
    Lifetimes = {4}
    MaximumClockSkew = 1
    ClockError = 1
    Drift = 2
    Lag <- Lags
    Versions = {1, 2}
    Horizon = 50
INVARIANT TermsTypeOK
INVARIANT NoEarlyRefund
INVARIANT FundableUntilDeadline
INVARIANT JournaledIsAcceptable
PROPERTY EpochsInOrder
\* A trade that can no longer be accepted, and chains past the last refund, stop.
CHECK_DEADLOCK FALSE
