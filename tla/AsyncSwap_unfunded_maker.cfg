SPECIFICATION FairSpec
CONSTANTS
    MakerGives = "BTC"
    FirstFunder = "taker"
    Prompt = {"taker"}
    MinedInTime = TRUE
    MaxAborts = 1
    MaxReorgs = 0
PROPERTY MakerSettles
\* A settled swap with both chains past the last refund height stops.
CHECK_DEADLOCK FALSE
