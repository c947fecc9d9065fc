SPECIFICATION Spec
CONSTANTS
    m = m
    t = t
    u = u
    Makers = {m}
    Takers = {t, u}
    OrderNumbers = {1}
    AcceptanceNumbers = {1, 2}
    MatchNumbers = {1}
    Envelopes = {1, 2}
    MaxOpenOrders = 1
    MaxPending = 1
    MaxTombstones = 2
    MaxSequence = 2
SYMMETRY TakersAlike
INVARIANT TypeOK
INVARIANT MatchXorCancel
INVARIANT NoRevival
INVARIANT OnlyTakerRevokes
INVARIANT QueueBounded
INVARIANT MailboxInOrder
PROPERTY MatchIsFinal
CHECK_DEADLOCK FALSE
