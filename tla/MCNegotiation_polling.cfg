SPECIFICATION NegotiationFairSpec
CONSTANTS
    m = m
    t = t
    u = u
    Makers = {m}
    Takers = {t}
    OrderNumbers = {1}
    AcceptanceNumbers = {1}
    MatchNumbers = {1,2}
    Envelopes = {1}
    MaxOpenOrders = 2
    MaxPending = 1
    MaxTombstones = 9
    MaxSequence = 0
    Coins = {1}
    Ahead = {m,t}
    Behind = {m}
    LocksSurvive = FALSE
    MaxFaults = 1
    MaxWalletFaults = 1
PROPERTY CancellationSettles
PROPERTY OffersAreServed
PROPERTY MatchesArrive
PROPERTY ReservationRestored
\* A settled order stops: its inputs are finite.
CHECK_DEADLOCK FALSE
