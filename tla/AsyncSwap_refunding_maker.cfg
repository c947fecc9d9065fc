SPECIFICATION Spec
CONSTANTS
    MakerGives = "BTC"
    FirstFunder = "taker"
    Prompt = {"maker"}
    MinedInTime = TRUE
    MaxAborts = 1
    MaxReorgs = 0
INVARIANT NoMakerLoss
\* A settled swap with both chains past the last refund height stops.
CHECK_DEADLOCK FALSE
