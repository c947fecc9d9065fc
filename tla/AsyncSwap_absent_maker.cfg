SPECIFICATION Spec
CONSTANTS
    MakerGives = "BTC"
    FirstFunder = "taker"
    Prompt = {"taker"}
    MinedInTime = TRUE
    MaxAborts = 1
    MaxReorgs = 2
INVARIANT Atomicity
INVARIANT AtomicOutcome
INVARIANT SettledAgrees
INVARIANT ExpiredUnfunded
INVARIANT TemplateBeforeFunding
PROPERTY NoLateReveal
\* A settled swap with both chains past the last refund height stops.
CHECK_DEADLOCK FALSE
