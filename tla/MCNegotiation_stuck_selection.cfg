SPECIFICATION NegotiationFairSpec
CONSTANTS
    m = m
    t = t
    u = u
    Makers = {m}
    Takers = {t}
    OrderNumbers = {1}
    AcceptanceNumbers = {1}
    MatchNumbers = {1}
    Envelopes = {1}
    MaxOpenOrders = 2
    MaxPending = 1
    MaxTombstones = 9
    MaxSequence = 0
    Coins = {1}
    Ahead = {}
    Behind = {}
    LocksSurvive = TRUE
    MaxFaults = 0
    MaxWalletFaults = 0
PROPERTY WithdrawnOffersAreFree
\* A settled order stops: its inputs are finite.
CHECK_DEADLOCK FALSE
