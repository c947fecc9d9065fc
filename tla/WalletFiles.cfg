SPECIFICATION Spec
CONSTANTS
    Requests = {r1, r2, r3}
    Nobody = Nobody
    Overlap = FALSE
    MaxFaults = 2
    MaxRestarts = 1
INVARIANT TypeOK
INVARIANT OneWallet
INVARIANT RunsWhatIsInstalled
INVARIANT KeptUntilReplaced
INVARIANT NoBackupIsLeft
INVARIANT SwapsKeepTheirWallet
\* When every request has returned nothing is left to do but lock and unlock.
CHECK_DEADLOCK FALSE
