SPECIFICATION FairSpec
CONSTANTS
    MakerGives = "BTC"
    FirstFunder = "taker"
    Prompt = {"maker", "taker"}
    MinedInTime = TRUE
    MaxAborts = 1
    MaxReorgs = 1
PROPERTY BothSettle
\* A settled swap with both chains past the last refund height stops.
CHECK_DEADLOCK FALSE
