----------------------------- MODULE SwapTerms -----------------------------
(***************************************************************************)
(* The times and heights of one trade: who may sign what and when, the     *)
(* refund heights both parties compute, and what they mean once two chains *)
(* have run (internal/order/order.go, internal/trade/protocol.go,          *)
(* internal/swap/terms.go, ensureFundingWindows of internal/app/engine.go).*)
(*                                                                         *)
(* Everything a signature covers besides times and heights (keys, amounts, *)
(* hashes, the funding bytes) is copied and compared for equality, and is  *)
(* left out.  The clocks of maker, taker and relay err, and may be set; a  *)
(* chain is ahead of its block interval or behind by a bounded time.       *)
(***************************************************************************)
EXTENDS Integers

CONSTANTS
    Interval,           \* time units per block, for each chain
    ShortWindow,        \* blocks until the second funder's refund
    LongWindow,         \* blocks until the first funder's refund
    MinimumWindow,      \* blocks that must remain when a leg is funded
    MaxHeight,          \* the largest value of a chain's height type
    StartHeights,       \* heights at which a trade may begin
    MinimumLifetime, MaximumLifetime, Lifetimes,
    MaximumClockSkew,   \* how far in the future a signature may be dated
    ClockError,         \* bound on the error of a clock
    Drift,              \* bound on how far a chain leaves its schedule
    Lag,                \* blocks of a chain that a synchronised wallet may miss
    Versions,           \* protocol versions: 1, 2
    Horizon             \* bound on time

Chains == {"QDAY", "BTC"}
Traders == {"maker", "taker"}
Clocks == Traders \cup {"relay"}
Heights == [Chains -> Nat]

ASSUME TermsAssumption ==
    /\ {Interval, ShortWindow, LongWindow, MinimumWindow} \in SUBSET [Chains -> Nat \ {0}]
    /\ {MaxHeight, Lag} \in SUBSET Heights
    /\ StartHeights \in SUBSET Heights
    /\ \A h \in StartHeights, c \in Chains : h[c] <= MaxHeight[c]
    /\ \A W \in {ShortWindow, LongWindow}, c \in Chains :
          MaximumLifetime <= Interval[c] * (MaxHeight[c] - W[c])
    /\ {MinimumLifetime, MaximumLifetime} \in SUBSET (Nat \ {0})
    /\ Lifetimes \in SUBSET Nat
    /\ {MaximumClockSkew, ClockError, Drift, Horizon} \in SUBSET Nat
    /\ Versions \in SUBSET {1, 2}

VARIABLES
    now,            \* real time
    error,          \* error[p]: how far p's clock is ahead
    start, height,  \* heights at time 0, and now
    version,
    give,           \* the asset of the maker's leg
    order,          \* dates and heights the maker signed with its order
    acceptance,     \* those the taker signed with its acceptance
    matchedAt,      \* the date the maker signed with its match
    hello,          \* version 1: the heights each party announced
    refund,         \* the refund heights of the contracts
    anchor,         \* the time from which the refund windows are counted
    stage           \* how far the trade is

chainVars == <<now, error, start, height>>
signedVars == <<order, acceptance, matchedAt, hello>>
vars == <<chainVars, version, give, signedVars, refund, anchor, stage>>

Stages == {"none", "open", "pending", "stored", "journaled", "matched", "agreed"}

NoHeights == [c \in Chains |-> 0]
Unsigned == [createdAt |-> 0, expiresAt |-> 0, height |-> NoHeights]

Init ==
    /\ now = 0
    /\ version \in Versions
    /\ error \in [Clocks -> IF version = 1 THEN {0} ELSE -ClockError..ClockError]
    /\ start \in StartHeights
    /\ height = start
    /\ give \in Chains
    /\ order = Unsigned
    /\ acceptance = Unsigned
    /\ matchedAt = 0
    /\ hello = [p \in Traders |-> NoHeights]
    /\ refund = NoHeights
    /\ anchor = 0
    /\ stage = "none"

-----------------------------------------------------------------------------
(* Refund heights *)

Clock(p) == now + error[p]

\* What a wallet that says it is synchronised reports, and signs if positive.
Report(h) == \A c \in Chains : h[c] > 0 /\ h[c] \in height[c] - Lag[c] .. height[c]
Reports == {h \in [Chains -> UNION {height[c] - Lag[c] .. height[c] : c \in Chains}] : Report(h)}

Later(g, h) == [c \in Chains |-> IF g[c] > h[c] THEN g[c] ELSE h[c]]

\* Who owns the secret, funds first and has the later refund.
FirstFunder == IF version = 2 THEN "taker" ELSE "maker"

OtherChain(c) == IF c = "QDAY" THEN "BTC" ELSE "QDAY"
FirstChain == IF FirstFunder = "maker" THEN give ELSE OtherChain(give)
SecondChain == OtherChain(FirstChain)

\* Mutant of Window: the long window goes to the party that funds second.
SwappedWindow(c) == IF c = FirstChain THEN ShortWindow[c] ELSE LongWindow[c]

Window(c) == IF c = FirstChain THEN LongWindow[c] ELSE ShortWindow[c]

\* Mutants of BlocksFor: blocks are not rounded up, the rest of the order's
\* life does not count.
WholeBlocks(span, c) == span \div Interval[c]
NoBlocks(span, c) == 0

\* The blocks a chain makes in a span of time, rounded up.
BlocksFor(span, c) == (span + Interval[c] - 1) \div Interval[c]

\* Only version 2 adds Bitcoin heights in a wider type.
Wide(c) == version = 2 /\ c = "BTC"

RefundHeights(base, span) ==
    [c \in Chains |->
        LET sum == base[c] + BlocksFor(span, c) + Window(c)
        IN IF Wide(c) THEN sum ELSE sum % (MaxHeight[c] + 1)]

\* Mutant of Overflows: a sum that does not fit its type is not noticed.
NothingOverflows(base, sum) == FALSE

Overflows(base, sum) ==
    \E c \in Chains : IF Wide(c) THEN sum[c] > MaxHeight[c] ELSE sum[c] < base[c]

-----------------------------------------------------------------------------
(* What a signature on dates must satisfy when it is verified at time t *)

LifetimeAllowed(s) == s.expiresAt - s.createdAt \in MinimumLifetime..MaximumLifetime

DatesValid(s, t) ==
    /\ s.createdAt <= t + MaximumClockSkew
    /\ t < s.expiresAt
    /\ LifetimeAllowed(s)

AcceptanceValid(a, heights, t) ==
    /\ DatesValid(order, t)
    /\ DatesValid(a, t)
    /\ a.expiresAt <= order.expiresAt
    /\ \A c \in Chains : heights[c] > a.height[c]

\* Mutant of DuringAcceptance: a maker whose clock is behind signs as well.
BeforeItsEnd(date) == date <= acceptance.expiresAt

DuringAcceptance(date) == date \in acceptance.createdAt..acceptance.expiresAt

MatchValid(date, t) ==
    /\ AcceptanceValid(acceptance, refund, t)
    /\ date <= t + MaximumClockSkew
    /\ date \in acceptance.createdAt..acceptance.expiresAt

-----------------------------------------------------------------------------
(* A trade of version 2 *)

RelayOffers == Clock("relay") < order.expiresAt

CreateOffer(lifetime, heights) ==
    LET signed == [createdAt |-> Clock("maker"),
                   expiresAt |-> Clock("maker") + lifetime,
                   height    |-> heights]
    IN
    /\ version = 2
    /\ stage = "none"
    /\ DatesValid(signed, Clock("maker"))
    /\ DatesValid(signed, Clock("relay"))
    /\ order' = signed
    /\ anchor' = signed.expiresAt
    /\ stage' = "open"
    /\ UNCHANGED <<chainVars, version, give, acceptance, matchedAt, hello, refund>>

\* The windows begin at the order's deadline, counted from the heights known
\* to either party and in the time that remains at the acceptance.
AsyncRefundHeights(a) ==
    RefundHeights(Later(order.height, a.height), order.expiresAt - a.createdAt)

AcceptOffer(heights) ==
    LET signed == [createdAt |-> Clock("taker"),
                   expiresAt |-> order.expiresAt,
                   height    |-> heights]
        agreed == AsyncRefundHeights(signed)
    IN
    /\ stage = "open"
    /\ RelayOffers
    /\ DatesValid(order, Clock("taker"))
    /\ ~Overflows(Later(order.height, heights), agreed)
    /\ AcceptanceValid(signed, agreed, Clock("taker"))
    /\ acceptance' = signed
    /\ refund' = agreed
    /\ stage' = "pending"
    /\ UNCHANGED <<chainVars, version, give, order, matchedAt, hello, anchor>>

SubmitAcceptance ==
    /\ stage = "pending"
    /\ RelayOffers
    /\ AcceptanceValid(acceptance, refund, Clock("relay"))
    /\ stage' = "stored"
    /\ UNCHANGED <<chainVars, version, give, signedVars, refund, anchor>>

\* The heights in the acceptance are the ones that everybody computes.
ValidateAsync == refund = AsyncRefundHeights(acceptance)

\* The agreement is verified at the date of the acceptance.
BuildAsyncAgreement ==
    /\ AcceptanceValid(acceptance, refund, acceptance.createdAt)
    /\ ValidateAsync

\* The maker agrees, signs and journals its match.
MatchAcceptance ==
    /\ stage = "stored"
    /\ AcceptanceValid(acceptance, refund, Clock("maker"))
    /\ BuildAsyncAgreement
    /\ DuringAcceptance(Clock("maker"))
    /\ matchedAt' = Clock("maker")
    /\ stage' = "journaled"
    /\ UNCHANGED <<chainVars, version, give, order, acceptance, hello, refund, anchor>>

\* What no step reads once the refund heights are final is forgotten: the
\* errors of the clocks, the dates and the announced heights.
Forget ==
    /\ error' = [p \in Clocks |-> 0]
    /\ order' = Unsigned
    /\ acceptance' = Unsigned
    /\ matchedAt' = 0
    /\ hello' = [p \in Traders |-> NoHeights]

ConfirmMatch ==
    /\ stage = "journaled"
    /\ RelayOffers
    /\ MatchValid(matchedAt, Clock("relay"))
    /\ stage' = "matched"
    /\ Forget
    /\ UNCHANGED <<now, start, height, version, give, refund, anchor>>

-----------------------------------------------------------------------------
(* A trade of version 1: the heights are announced after the match *)

SendHello(p, heights) ==
    /\ version = 1
    /\ \A q \in Traders : hello[q] = NoHeights
    /\ hello' = [hello EXCEPT ![p] = heights]
    /\ UNCHANGED <<chainVars, version, give, order, acceptance, matchedAt, refund,
                   anchor, stage>>

\* The second announcement determines the agreement, whenever it is built.
BuildAgreement(p, heights) ==
    LET other == CHOOSE q \in Traders : q # p
        base == Later(hello[other], heights)
        agreed == RefundHeights(base, 0)
    IN
    /\ version = 1
    /\ stage = "none"
    /\ hello[p] = NoHeights
    /\ hello[other] # NoHeights
    /\ ~Overflows(base, agreed)
    /\ refund' = agreed
    /\ anchor' = now
    /\ stage' = "agreed"
    /\ Forget
    /\ UNCHANGED <<now, start, height, version, give>>

-----------------------------------------------------------------------------
(* Time, clocks and chains *)

\* A chain is never further from its schedule than Drift.
OnSchedule(t, h) ==
    \A c \in Chains : t - Interval[c] * (h[c] - start[c]) \in -Drift..Drift

Remaining(c) == IF height[c] < refund[c] THEN refund[c] - height[c] ELSE 0

WindowsOpen == \A c \in Chains : Remaining(c) >= MinimumWindow[c]

RefundDue(c) == height[c] >= refund[c]

\* The epochs of SwapLegs, for the contracts of this trade.
Epoch ==
    IF refund = NoHeights THEN 0
    ELSE IF RefundDue(FirstChain) THEN 3
    ELSE IF RefundDue(SecondChain) THEN 2
    ELSE IF WindowsOpen THEN 0
    ELSE 1

Final == stage \in {"matched", "agreed"}

\* A trade begins at time 0 and is followed to the end of its order on every
\* clock (in version 1, as long) or, if it came about, until both refunds are
\* due.
Running ==
    /\ stage # "none" \/ \E p \in Traders : hello[p] # NoHeights
    /\ ~Final => now < ClockError + IF version = 1 THEN MaximumLifetime ELSE order.expiresAt
    /\ now < Horizon
    /\ Epoch < 3

Tick ==
    /\ Running
    /\ now' = now + 1
    /\ OnSchedule(now', height)
    /\ UNCHANGED <<error, start, height, version, give, signedVars, refund, anchor, stage>>

Mine(c) ==
    /\ Running
    /\ height[c] < MaxHeight[c]
    /\ height' = [height EXCEPT ![c] = @ + 1]
    /\ OnSchedule(now, height')
    /\ UNCHANGED <<now, error, start, version, give, signedVars, refund, anchor, stage>>

\* Somebody's clock is set.
SetClock(p) ==
    /\ version = 2
    /\ ~Final
    /\ \E e \in -ClockError..ClockError : error' = [error EXCEPT ![p] = e]
    /\ UNCHANGED <<now, start, height, version, give, signedVars, refund, anchor, stage>>

Next ==
    \/ \E lifetime \in Lifetimes, heights \in Reports : CreateOffer(lifetime, heights)
    \/ \E heights \in Reports : AcceptOffer(heights)
    \/ SubmitAcceptance
    \/ MatchAcceptance
    \/ ConfirmMatch
    \/ \E p \in Traders, heights \in Reports : SendHello(p, heights) \/ BuildAgreement(p, heights)
    \/ Tick
    \/ \E c \in Chains : Mine(c)
    \/ \E p \in Clocks : SetClock(p)

Spec == Init /\ [][Next]_vars

-----------------------------------------------------------------------------
\* The types, with every agreed height within the type of its chain.
TermsTypeOK ==
    /\ now \in 0..Horizon
    /\ error \in [Clocks -> -ClockError..ClockError]
    /\ start \in StartHeights
    /\ height \in [Chains -> Nat]
    /\ version \in Versions
    /\ give \in Chains
    /\ {order, acceptance} \in SUBSET [createdAt : Int, expiresAt : Int, height : Heights]
    /\ matchedAt \in Int
    /\ hello \in [Traders -> Heights]
    /\ refund \in Heights
    /\ \A c \in Chains : height[c] <= MaxHeight[c] /\ refund[c] <= MaxHeight[c]
    /\ anchor \in Int
    /\ stage \in Stages

\* No funder can take its coins back before its window, counted from the
\* order's deadline (version 2) or the last hello (version 1), has passed, up
\* to what clocks, wallets and chains err: no sum wraps around and no division
\* loses a block (AsyncRefundHeights, Agreement.Validate).
NoEarlyRefund ==
    refund # NoHeights => \A c \in Chains :
        RefundDue(c) =>
            now >= anchor + Interval[c] * (Window(c) - Lag[c]) - 2 * Drift - ClockError

\* While the relay still matches, both windows are wide enough for the maker
\* to fund: an acceptance late in the life of an order, or a match late in the
\* life of an acceptance, does not begin a swap that must expire.
FundableUntilDeadline ==
    stage \in {"pending", "stored", "journaled"} /\ RelayOffers => WindowsOpen

\* What a client has journaled and sends again, byte for byte, is not refused
\* for its dates once the relay's clock has come to them: no signature is
\* stored that the relay can never accept, whatever the clocks did between.
\* The agreement, verified at the date of the acceptance, stands for ever.
JournaledIsAcceptable ==
    /\ stage \in {"pending", "stored", "journaled"} =>
            AcceptanceValid(acceptance, refund, acceptance.createdAt)
    /\ RelayOffers =>
        /\ stage = "pending" /\ Clock("relay") >= acceptance.createdAt =>
                AcceptanceValid(acceptance, refund, Clock("relay"))
        /\ stage = "journaled" /\ Clock("relay") >= matchedAt =>
                MatchValid(matchedAt, Clock("relay"))

\* The heights of the two chains pass the engine's limits in the one order
\* that the clock of SwapLegs has: the windows close, the second funder's
\* refund opens, and a separate window later the first funder's.
EpochsInOrder == [][Epoch' \in {Epoch, Epoch + 1}]_vars
=============================================================================
