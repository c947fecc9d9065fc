SPECIFICATION FairSpec
CONSTANTS
    MakerGives = "QDAY"
    FirstFunder = "maker"
    Prompt = {"maker"}
    MaxAborts = 1
    MaxReorgs = 1
INVARIANT TypeOK
INVARIANT PresentNeverLose
INVARIANT AgreementBeforeFunding
INVARIANT SettledAgrees
INVARIANT NothingLocked
PROPERTY FundedMakerIsPaid
\* A settled swap with both chains past the last refund height stops.
CHECK_DEADLOCK FALSE
