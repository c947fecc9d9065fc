SPECIFICATION FairSpec
CONSTANTS
    MakerGives = "BTC"
    FirstFunder = "taker"
    Prompt = {"taker"}
    MinedInTime = TRUE
    MaxAborts = 1
    MaxReorgs = 0
PROPERTY ImplementsFairAtomicSwap
PROPERTY TakerSettles
\* A settled swap with both chains past the last refund height stops.
CHECK_DEADLOCK FALSE
