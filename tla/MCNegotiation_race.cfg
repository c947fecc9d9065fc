SPECIFICATION NegotiationSpec
CONSTANTS
    m = m
    t = t
    u = u
    Makers = {m}
    Takers = {t,u}
    OrderNumbers = {1}
    AcceptanceNumbers = {1}
    MatchNumbers = {1}
    Envelopes = {1}
    MaxOpenOrders = 2
    MaxPending = 1
    MaxTombstones = 9
    MaxSequence = 0
    Coins = {1}
    Ahead = {m,t,u}
    Behind = {}
    LocksSurvive = TRUE
    MaxFaults = 1
    MaxWalletFaults = 0
INVARIANT NegotiationTypeOK
INVARIANT BindingIsKept
INVARIANT OneMatch
\* A settled order stops: its inputs are finite.
CHECK_DEADLOCK FALSE
SYMMETRY TakersAlike
