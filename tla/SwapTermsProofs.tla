-------------------------- MODULE SwapTermsProofs ---------------------------
(***************************************************************************)
(* Proofs about the dates and heights of a trade, for every choice of      *)
(* windows, lifetimes and errors: no refund opens before its time, what    *)
(* was journaled stays acceptable, and, when the windows leave room for    *)
(* the errors of clocks and chains, a trade that is matched can be funded  *)
(* and its limits pass in order.                                           *)
(***************************************************************************)
EXTENDS SwapTerms, TLAPS

\* What the errors of clocks, wallets and chains may take from a window when
\* a leg must be funded before the window's last MinimumWindow blocks.
WindowsAreWide ==
    \A c \in Chains, W \in {ShortWindow, LongWindow} :
        Interval[c] * (W[c] - Lag[c] - MinimumWindow[c] + 1) >= 2 * (Drift + ClockError)

\* The first funder's window outlasts the second funder's by more than those
\* errors, and a leg is never funded with a single block left.
WindowsAreSeparate ==
    /\ \A c, d \in Chains : c # d =>
          Interval[c] * (LongWindow[c] - Lag[c])
              >= Interval[d] * ShortWindow[d] + 4 * Drift + 2 * ClockError
    /\ \A c \in Chains : /\ Lag[c] < ShortWindow[c]
                         /\ Lag[c] < LongWindow[c]
                         /\ MinimumWindow[c] > 1

Signed == [createdAt : Int, expiresAt : Int, height : Heights]

\* The types, one variable at a time.
Typed ==
    /\ now \in 0..Horizon
    /\ error \in [Clocks -> -ClockError..ClockError]
    /\ start \in StartHeights /\ start \in Heights
    /\ height \in Heights
    /\ version \in Versions
    /\ give \in Chains
    /\ order \in Signed /\ acceptance \in Signed
    /\ matchedAt \in Int
    /\ hello \in [Traders -> Heights]
    /\ refund \in Heights
    /\ \A c \in Chains : height[c] <= MaxHeight[c] /\ refund[c] <= MaxHeight[c]
    /\ anchor \in Int
    /\ stage \in Stages

\* No announced height is ahead of its chain, and the chains are on schedule.
Known ==
    /\ OnSchedule(now, height)
    /\ \A c \in Chains : order.height[c] <= height[c]
    /\ \A p \in Traders, c \in Chains : hello[p][c] <= height[c]

\* What the dates are at each stage of a trade.
Dated ==
    /\ stage \in {"none", "open"} => refund = NoHeights
    /\ stage \in {"open", "pending", "stored", "journaled"} => anchor = order.expiresAt
    /\ stage \in {"pending", "stored", "journaled"} =>
          /\ AcceptanceValid(acceptance, refund, acceptance.createdAt)
          /\ acceptance.expiresAt = order.expiresAt
    /\ stage = "journaled" => matchedAt \in acceptance.createdAt..acceptance.expiresAt

\* The time a chain on schedule takes to a refund height: at least the window
\* after the anchor and at most a block longer, up to the errors.
TimeTo(c) == Interval[c] * (refund[c] - start[c])

RefundBound(c) ==
    /\ anchor + Interval[c] * (Window(c) - Lag[c]) - Drift - ClockError <= TimeTo(c)
    /\ TimeTo(c) < anchor + Interval[c] * Window(c) + Interval[c] + Drift + ClockError

Bounded == refund # NoHeights => \A c \in Chains : RefundBound(c)

Inv == Typed /\ Known /\ Dated /\ Bounded

-----------------------------------------------------------------------------
(* Arithmetic *)

\* A quotient, from below and from above.
LEMMA Division ==
    ASSUME NEW a \in Int, NEW n \in Nat \ {0}
    PROVE  /\ a \div n \in Int
           /\ n * (a \div n) <= a
           /\ a < n * (a \div n) + n
  OBVIOUS

\* The remainder of a number that wraps around once at most.
LEMMA Remainder ==
    ASSUME NEW a \in Nat, NEW n \in Nat \ {0}, a < 2 * n
    PROVE  /\ a % n \in 0..n-1
           /\ a < n => a % n = a
           /\ a >= n => a % n = a - n
  OBVIOUS

\* Multiples of n that differ by less than n.
LEMMA Cancel ==
    ASSUME NEW a \in Int, NEW b \in Int, NEW n \in Nat \ {0}, n * a < n * b + n
    PROVE  a <= b
  OBVIOUS

\* The time n blocks each take is monotone in their number.
LEMMA Multiply ==
    ASSUME NEW a \in Int, NEW b \in Int, NEW n \in Nat \ {0}, a <= b
    PROVE  n * a <= n * b
  OBVIOUS

\* A refund height made of a height that a wallet reported at a time now, the
\* blocks B of a span from the date t, and a window W.
LEMMA BoundArithmetic ==
    ASSUME NEW n \in Nat \ {0}, NEW h \in Nat, NEW s \in Nat, NEW L \in Nat, NEW W \in Nat,
           NEW B \in Nat, NEW b \in Nat, NEW time \in Int, NEW t \in Int, NEW span \in Nat,
           NEW D \in Nat, NEW E \in Nat,
           time - n * (h - s) \in -D..D,
           t \in time - E .. time + E,
           b \in h - L .. h,
           span <= n * B, n * B < span + n
    PROVE  /\ t + span + n * (W - L) - D - E <= n * (b + B + W - s)
           /\ n * (b + B + W - s) < t + span + n * W + n + D + E
  <1>1. n * (h - L) <= n * b /\ n * b <= n * h
    BY Multiply
  <1>2. n * (b + B + W - s) = n * b + n * B + n * W - n * s
    OBVIOUS
  <1>3. n * (h - L) = n * h - n * L /\ n * (W - L) = n * W - n * L /\ n * (h - s) = n * h - n * s
    OBVIOUS
  <1> DEFINE nh == n * h  nL == n * L  nW == n * W  ns == n * s  nb == n * b  nB == n * B
  <1>4. nh \in Int /\ nL \in Int /\ nW \in Int /\ ns \in Int /\ nb \in Int /\ nB \in Int
    OBVIOUS
  <1>5. /\ time - (nh - ns) \in -D..D /\ span <= nB /\ nB < span + n
        /\ nh - nL <= nb /\ nb <= nh
    BY <1>1, <1>3
  <1> HIDE DEF nh, nL, nW, ns, nb, nB
  <1>6. /\ t + span + (nW - nL) - D - E <= nb + nB + nW - ns
        /\ nb + nB + nW - ns < t + span + nW + n + D + E
    BY <1>4, <1>5
  <1> QED  BY <1>2, <1>3, <1>6 DEF nh, nL, nW, ns, nb, nB

-----------------------------------------------------------------------------
(* Heights *)

\* The constants, one by one.
LEMMA ConstantFacts ==
    /\ \A c \in Chains :
          /\ Interval[c] \in Nat \ {0} /\ MinimumWindow[c] \in Nat \ {0}
          /\ ShortWindow[c] \in Nat \ {0} /\ LongWindow[c] \in Nat \ {0}
          /\ MaxHeight[c] \in Nat /\ Lag[c] \in Nat
          /\ MaximumLifetime <= Interval[c] * (MaxHeight[c] - ShortWindow[c])
          /\ MaximumLifetime <= Interval[c] * (MaxHeight[c] - LongWindow[c])
    /\ MinimumLifetime \in Nat \ {0} /\ MaximumLifetime \in Nat \ {0}
    /\ MaximumClockSkew \in Nat /\ ClockError \in Nat /\ Drift \in Nat /\ Horizon \in Nat
  BY TermsAssumption DEF Heights

\* The two chains, and the windows that a contract on each may have.
LEMMA ChainFacts ==
    ASSUME give \in Chains
    PROVE  /\ FirstChain \in Chains /\ SecondChain \in Chains /\ FirstChain # SecondChain
           /\ Chains = {FirstChain, SecondChain}
           /\ Window(FirstChain) = LongWindow[FirstChain]
           /\ Window(SecondChain) = ShortWindow[SecondChain]
           /\ \A c \in Chains : Window(c) \in Nat /\ Window(c) \in {LongWindow[c], ShortWindow[c]}
  BY ConstantFacts DEF FirstChain, SecondChain, OtherChain, Chains, Window

\* A synchronised wallet reports what is in its chain, or was Lag blocks ago.
LEMMA ReportFacts ==
    ASSUME Typed, NEW heights \in Reports
    PROVE  /\ heights \in Heights
           /\ \A c \in Chains : heights[c] \in height[c] - Lag[c] .. height[c]
  <1>1. /\ heights \in [Chains -> UNION {height[c] - Lag[c] .. height[c] : c \in Chains}]
        /\ \A c \in Chains : heights[c] > 0 /\ heights[c] \in height[c] - Lag[c] .. height[c]
    BY DEF Reports, Report
  <1>2. \A c \in Chains : heights[c] \in Nat
    BY <1>1, ConstantFacts DEF Typed, Heights
  <1> QED  BY <1>1, <1>2 DEF Heights

\* The higher of two heights that are in a chain, the second of which is at
\* most Lag blocks behind, is in the chain and at most that far behind.
LEMMA LaterFacts ==
    ASSUME Typed, NEW g \in Heights, NEW h \in Heights,
           \A c \in Chains : g[c] <= height[c] /\ h[c] \in height[c] - Lag[c] .. height[c]
    PROVE  /\ Later(g, h) \in Heights
           /\ \A c \in Chains : Later(g, h)[c] \in height[c] - Lag[c] .. height[c]
  <1>1. \A c \in Chains : g[c] \in Nat /\ h[c] \in Nat /\ height[c] \in Nat /\ Lag[c] \in Nat
    BY ConstantFacts DEF Typed, Heights
  <1>2. \A c \in Chains : /\ Later(g, h)[c] \in Nat
                           /\ Later(g, h)[c] \in height[c] - Lag[c] .. height[c]
    BY <1>1 DEF Later
  <1> QED  BY <1>2 DEF Later, Heights

\* Rounding up adds less than a block.
LEMMA BlocksFacts ==
    ASSUME NEW c \in Chains, NEW span \in Nat
    PROVE  /\ BlocksFor(span, c) \in Nat
           /\ span <= Interval[c] * BlocksFor(span, c)
           /\ Interval[c] * BlocksFor(span, c) < span + Interval[c]
  <1> DEFINE n == Interval[c]  q == (span + n - 1) \div n
  <1>1. n \in Nat \ {0}
    BY ConstantFacts
  <1> HIDE DEF n
  <1>2. q \in Int /\ n * q <= span + n - 1 /\ span + n - 1 < n * q + n
    BY <1>1, Division
  <1> HIDE DEF q
  <1>3. n * q >= span /\ n * 0 < n * q + n
    BY <1>1, <1>2
  <1>4. 0 <= q
    BY <1>1, <1>2, <1>3, Cancel
  <1>5. BlocksFor(span, c) = q
    BY DEF BlocksFor, q, n
  <1> QED  BY <1>1, <1>2, <1>3, <1>4, <1>5 DEF n

\* In a span no longer than an order lives, no refund height that is not
\* refused has wrapped around: it is the sum that was meant, and it fits.
LEMMA RefundFacts ==
    ASSUME Typed, NEW base \in Heights, NEW span \in 0..MaximumLifetime,
           \A c \in Chains : base[c] <= MaxHeight[c],
           ~Overflows(base, RefundHeights(base, span))
    PROVE  /\ RefundHeights(base, span) \in Heights
           /\ \A c \in Chains :
                 /\ RefundHeights(base, span)[c] = base[c] + BlocksFor(span, c) + Window(c)
                 /\ RefundHeights(base, span)[c] <= MaxHeight[c]
  <1>1. ASSUME NEW c \in Chains
        PROVE  /\ RefundHeights(base, span)[c] = base[c] + BlocksFor(span, c) + Window(c)
               /\ RefundHeights(base, span)[c] \in Nat
               /\ RefundHeights(base, span)[c] <= MaxHeight[c]
    <2> DEFINE n == Interval[c]  M == MaxHeight[c]  B == BlocksFor(span, c)  W == Window(c)
               sum == base[c] + B + W
    <2>1. /\ n \in Nat \ {0} /\ M \in Nat /\ W \in Nat /\ base[c] \in Nat /\ base[c] <= M
          /\ MaximumLifetime \in Nat /\ MaximumLifetime <= n * (M - W)
      BY ConstantFacts, ChainFacts DEF Typed, Heights
    <2>2. B \in Nat /\ n * B < span + n
      BY ConstantFacts, BlocksFacts
    <2>3. RefundHeights(base, span)[c] = IF Wide(c) THEN sum ELSE sum % (M + 1)
      BY DEF RefundHeights
    <2>4. IF Wide(c) THEN RefundHeights(base, span)[c] <= M
                     ELSE RefundHeights(base, span)[c] >= base[c]
      <3>1. /\ Wide(c) => ~(RefundHeights(base, span)[c] > M)
            /\ ~Wide(c) => ~(RefundHeights(base, span)[c] < base[c])
        BY DEF Overflows
      <3>2. RefundHeights(base, span)[c] \in Nat
        BY <2>1, <2>2, <2>3
      <3> QED  BY <2>1, <3>1, <3>2
    <2> HIDE DEF n, M, B, W
    <2>5. n * B < n * (M - W) + n /\ M - W \in Int
      BY <2>1, <2>2
    <2>6. B <= M - W
      BY <2>1, <2>2, <2>5, Cancel
    <2>7. sum \in Nat /\ sum < 2 * (M + 1) /\ sum - (M + 1) < base[c]
      BY <2>1, <2>2, <2>6
    <2>8. CASE Wide(c)
      BY <2>3, <2>4, <2>7, <2>8 DEF M, B, W
    <2>9. CASE ~Wide(c)
      <3>1. /\ sum < M + 1 => sum % (M + 1) = sum
            /\ sum >= M + 1 => sum % (M + 1) = sum - (M + 1)
        <4> DEFINE m == M + 1
        <4>1. m \in Nat \ {0} /\ sum < 2 * m
          BY <2>1, <2>7
        <4> HIDE DEF m, sum
        <4>2. /\ sum < m => sum % m = sum
              /\ sum >= m => sum % m = sum - m
          BY <2>7, <4>1, Remainder
        <4> QED  BY <4>2 DEF m
      <3>2. sum < M + 1
        BY <2>1, <2>3, <2>4, <2>7, <2>9, <3>1
      <3> QED  BY <2>1, <2>3, <2>7, <2>9, <3>1, <3>2 DEF M, B, W
    <2> QED  BY <2>8, <2>9
  <1> DEFINE R == RefundHeights(base, span)
  <1>2. R = [c \in Chains |-> R[c]]
    BY DEF RefundHeights
  <1>3. \A c \in Chains : R[c] \in Nat
    BY <1>1
  <1>4. R \in [Chains -> Nat]
    <2> HIDE DEF R
    <2> QED  BY <1>2, <1>3
  <1> QED  BY <1>1, <1>4 DEF Heights

-----------------------------------------------------------------------------
(* Steps *)

\* New refund heights are within their types, and keep the bounds.
LEMMA NewBound ==
    ASSUME Typed, OnSchedule(now, height), NEW base \in Heights, NEW span \in 0..MaximumLifetime,
           \A c \in Chains : base[c] \in height[c] - Lag[c] .. height[c],
           ~Overflows(base, RefundHeights(base, span)),
           NEW t \in now - ClockError .. now + ClockError,
           refund' = RefundHeights(base, span), anchor' = t + span,
           UNCHANGED <<start, version, give>>
    PROVE  /\ refund' \in Heights
           /\ \A c \in Chains : /\ refund'[c] <= MaxHeight[c]
                                 /\ refund'[c] >= height[c] - Lag[c] + Window(c)
           /\ Bounded'
  <1>1. ASSUME NEW c \in Chains
        PROVE  /\ height[c] \in Nat /\ height[c] <= MaxHeight[c] /\ MaxHeight[c] \in Nat
               /\ base[c] \in Nat /\ base[c] <= MaxHeight[c] /\ start[c] \in Nat
    BY ConstantFacts DEF Typed, Heights
  <1>2. /\ refund' \in Heights
        /\ \A c \in Chains : /\ refund'[c] = base[c] + BlocksFor(span, c) + Window(c)
                              /\ refund'[c] <= MaxHeight[c]
    BY <1>1, RefundFacts
  <1>3. \A c \in Chains : Window(c)' = Window(c)
    BY DEF Window, FirstChain, FirstFunder, OtherChain
  <1>4. ASSUME NEW c \in Chains
        PROVE  refund'[c] >= height[c] - Lag[c] + Window(c) /\ RefundBound(c)'
    <2> DEFINE n == Interval[c]  W == Window(c)  B == BlocksFor(span, c)
    <2>1. /\ n \in Nat \ {0} /\ W \in Nat /\ Lag[c] \in Nat /\ span \in Nat
          /\ now \in Int /\ t \in Int /\ Drift \in Nat /\ ClockError \in Nat
      BY ConstantFacts, ChainFacts DEF Typed
    <2>2. B \in Nat /\ span <= n * B /\ n * B < span + n
      BY <2>1, BlocksFacts
    <2>3. now - n * (height[c] - start[c]) \in -Drift..Drift
      BY DEF OnSchedule
    <2>4. refund'[c] = base[c] + B + W
      BY <1>2
    <2> HIDE DEF n, W, B
    <2>5. /\ t + span + n * (W - Lag[c]) - Drift - ClockError <= n * (base[c] + B + W - start[c])
          /\ n * (base[c] + B + W - start[c]) < t + span + n * W + n + Drift + ClockError
      BY <1>1, <2>1, <2>2, <2>3, BoundArithmetic
    <2>6. RefundBound(c)'
      <3>1. TimeTo(c)' = n * (base[c] + B + W - start[c]) /\ Window(c)' = W
        <4>1. TimeTo(c)' = Interval[c] * (refund'[c] - start[c])
          BY DEF TimeTo
        <4>2. Interval[c] = n /\ Window(c)' = W
          BY <1>3 DEF n, W
        <4>3. refund'[c] - start[c] = base[c] + B + W - start[c]
          BY <1>1, <2>1, <2>2, <2>4
        <4> QED  BY <4>1, <4>2, <4>3
      <3>2. /\ anchor' + n * (W - Lag[c]) - Drift - ClockError <= TimeTo(c)'
            /\ TimeTo(c)' < anchor' + n * W + n + Drift + ClockError
        BY <2>5, <3>1
      <3> QED  BY <3>1, <3>2 DEF RefundBound, n
    <2>7. refund'[c] >= height[c] - Lag[c] + W
      BY <1>1, <2>1, <2>2, <2>4
    <2> QED  BY <2>6, <2>7 DEF W
  <1> QED  BY <1>2, <1>4 DEF Bounded

\* A step that leaves the contracts alone keeps the bounds.
LEMMA BoundStays ==
    ASSUME Bounded, UNCHANGED <<refund, anchor, start, version, give>>
    PROVE  Bounded'
  BY DEF Bounded, RefundBound, TimeTo, Window, FirstChain, FirstFunder, OtherChain

\* A clock is within its error.
LEMMA ClockFacts ==
    ASSUME Typed, NEW p \in Clocks
    PROVE  Clock(p) \in Int /\ Clock(p) \in now - ClockError .. now + ClockError /\ now \in Int
  BY ConstantFacts DEF Typed, Clock

\* A trade begins at time 0, with both chains on schedule.
LEMMA InitInv == Init => Inv
  <1> SUFFICES ASSUME Init PROVE Inv
    OBVIOUS
  <1>1. start \in Heights /\ height = start /\ \A c \in Chains : height[c] <= MaxHeight[c]
    BY TermsAssumption DEF Init
  <1>2. NoHeights \in Heights /\ \A c \in Chains : NoHeights[c] = 0
    BY DEF NoHeights, Heights
  <1>3. Unsigned \in Signed /\ Unsigned.height = NoHeights
    BY <1>2 DEF Unsigned, Signed
  <1>4. error \in [Clocks -> -ClockError..ClockError]
    BY ConstantFacts DEF Init
  <1>5. Typed
    BY <1>1, <1>2, <1>3, <1>4, ConstantFacts DEF Init, Typed, Stages
  <1>6. Known
    <2>1. \A c \in Chains : height[c] \in Nat /\ Interval[c] * (height[c] - start[c]) = 0
      BY <1>1, ConstantFacts DEF Heights
    <2>2. OnSchedule(now, height)
      BY <2>1, ConstantFacts DEF Init, OnSchedule
    <2>3. \A p \in Traders, c \in Chains : hello[p][c] = 0 /\ order.height[c] = 0
      BY <1>2, <1>3 DEF Init
    <2> QED  BY <1>2, <1>3, <2>1, <2>2, <2>3 DEF Known, Init
  <1>7. Dated /\ Bounded
    BY DEF Init, Dated, Bounded
  <1> QED  BY <1>5, <1>6, <1>7 DEF Inv

\* An order is dated by its maker's clock and expires after its lifetime.
LEMMA CreateOfferInv ==
    ASSUME Inv, NEW lifetime \in Lifetimes, NEW heights \in Reports, CreateOffer(lifetime, heights)
    PROVE  Inv'
  <1> DEFINE signed == [createdAt |-> Clock("maker"),
                        expiresAt |-> Clock("maker") + lifetime,
                        height    |-> heights]
  <1>1. /\ order' = signed /\ anchor' = signed.expiresAt /\ stage' = "open" /\ stage = "none"
        /\ UNCHANGED <<chainVars, version, give, acceptance, matchedAt, hello, refund>>
    BY DEF CreateOffer
  <1>2. heights \in Heights /\ \A c \in Chains : heights[c] \in height[c] - Lag[c] .. height[c]
    BY ReportFacts DEF Inv
  <1>3. Clock("maker") \in Int /\ Clock("maker") + lifetime \in Int
    BY ClockFacts, TermsAssumption DEF Inv, Clocks, Traders
  <1>4. signed \in Signed /\ signed.height = heights /\ signed.expiresAt \in Int
    BY <1>2, <1>3 DEF Signed
  <1> HIDE DEF signed
  <1>5. Typed'
    BY <1>1, <1>4 DEF Inv, Typed, Stages, chainVars
  <1>6. Known'
    BY <1>1, <1>2, <1>4 DEF Inv, Known, chainVars, OnSchedule
  <1>7. Dated'
    BY <1>1 DEF Inv, Dated
  <1>8. Bounded'
    BY <1>1 DEF Inv, Dated, Bounded
  <1> QED  BY <1>5, <1>6, <1>7, <1>8 DEF Inv

\* An acceptance is dated by its taker's clock and ends with the order.
LEMMA AcceptOfferInv ==
    ASSUME Inv, NEW heights \in Reports, AcceptOffer(heights)
    PROVE  /\ Inv'
           /\ \A c \in Chains : refund'[c] >= height[c] - Lag[c] + Window(c)
  <1> DEFINE signed == [createdAt |-> Clock("taker"),
                        expiresAt |-> order.expiresAt,
                        height    |-> heights]
             base == Later(order.height, heights)
             span == order.expiresAt - Clock("taker")
             agreed == RefundHeights(base, span)
  <1>1. heights \in Heights /\ \A c \in Chains : heights[c] \in height[c] - Lag[c] .. height[c]
    BY ReportFacts DEF Inv
  <1>2. /\ Clock("taker") \in now - ClockError .. now + ClockError /\ Clock("taker") \in Int
        /\ order.expiresAt \in Int /\ order.height \in Heights
    BY ClockFacts DEF Inv, Typed, Signed, Clocks, Traders
  <1>3. /\ signed \in Signed /\ signed.createdAt = Clock("taker")
        /\ signed.expiresAt = order.expiresAt /\ signed.height = heights
    BY <1>1, <1>2 DEF Signed
  <1> HIDE DEF signed
  <1>4. /\ stage = "open" /\ stage' = "pending"
        /\ AsyncRefundHeights(signed) = agreed
        /\ ~Overflows(base, agreed)
        /\ AcceptanceValid(signed, agreed, Clock("taker"))
        /\ acceptance' = signed /\ refund' = agreed
        /\ UNCHANGED <<chainVars, version, give, order, matchedAt, hello, anchor>>
    BY <1>3 DEF AcceptOffer, AsyncRefundHeights, signed
  <1>5. /\ base \in Heights
        /\ \A c \in Chains : base[c] \in height[c] - Lag[c] .. height[c]
    BY <1>1, <1>2, LaterFacts DEF Inv, Known
  <1>6. span \in 0..MaximumLifetime
    BY <1>2, <1>3, <1>4, ConstantFacts DEF AcceptanceValid, DatesValid, LifetimeAllowed
  <1>7. anchor' = Clock("taker") + span
    BY <1>2, <1>4 DEF Inv, Dated
  <1> HIDE DEF base, span, agreed
  <1>8. /\ refund' \in Heights /\ Bounded'
        /\ \A c \in Chains : /\ refund'[c] <= MaxHeight[c]
                              /\ refund'[c] >= height[c] - Lag[c] + Window(c)
    <2>1. refund' = RefundHeights(base, span) /\ ~Overflows(base, RefundHeights(base, span))
          /\ UNCHANGED <<start, version, give>>
      BY <1>4 DEF agreed, chainVars
    <2> QED  BY <1>2, <1>5, <1>6, <1>7, <2>1, NewBound DEF Inv, Known
  <1>9. Typed'
    BY <1>3, <1>4, <1>8 DEF Inv, Typed, Stages, chainVars
  <1>10. Known'
    BY <1>4 DEF Inv, Known, chainVars, OnSchedule
  <1>11. Dated'
    BY <1>3, <1>4 DEF Inv, Dated, AcceptanceValid, DatesValid, LifetimeAllowed
  <1> QED  BY <1>8, <1>9, <1>10, <1>11 DEF Inv

\* A match is dated within the acceptance.
LEMMA MatchInv ==
    ASSUME Inv, SubmitAcceptance \/ MatchAcceptance
    PROVE  Inv'
  <1>1. /\ stage \in {"pending", "stored"} /\ stage' \in {"stored", "journaled"}
        /\ UNCHANGED <<chainVars, version, give, order, acceptance, hello, refund, anchor>>
    BY DEF SubmitAcceptance, MatchAcceptance, signedVars
  <1>2. /\ matchedAt' \in Int
        /\ stage' = "journaled" => matchedAt' \in acceptance.createdAt..acceptance.expiresAt
    <2>1. CASE SubmitAcceptance
      BY <2>1 DEF SubmitAcceptance, signedVars, Inv, Typed
    <2>2. CASE MatchAcceptance
      BY <2>2, ClockFacts DEF MatchAcceptance, DuringAcceptance, Inv, Clocks, Traders
    <2> QED  BY <2>1, <2>2
  <1>3. Typed'
    BY <1>1, <1>2 DEF Inv, Typed, Stages, chainVars
  <1>4. Known'
    BY <1>1 DEF Inv, Known, chainVars, OnSchedule
  <1>5. Dated'
    BY <1>1, <1>2 DEF Inv, Dated, AcceptanceValid, DatesValid, LifetimeAllowed
  <1>6. Bounded'
    BY <1>1, BoundStays DEF Inv, chainVars
  <1> QED  BY <1>3, <1>4, <1>5, <1>6 DEF Inv

\* What is forgotten when the heights are final.
LEMMA ForgetFacts ==
    ASSUME Forget
    PROVE  /\ error' \in [Clocks -> -ClockError..ClockError]
           /\ order' \in Signed /\ acceptance' \in Signed /\ matchedAt' \in Int
           /\ hello' \in [Traders -> Heights]
           /\ \A c \in Chains : order'.height[c] = 0
           /\ \A p \in Traders, c \in Chains : hello'[p][c] = 0
  <1>1. NoHeights \in Heights /\ \A c \in Chains : NoHeights[c] = 0
    BY DEF NoHeights, Heights
  <1>2. Unsigned \in Signed /\ Unsigned.height = NoHeights
    BY <1>1 DEF Unsigned, Signed
  <1>3. error' \in [Clocks -> -ClockError..ClockError]
    BY ConstantFacts DEF Forget
  <1> QED  BY <1>1, <1>2, <1>3 DEF Forget

\* The confirmed match keeps the contracts and forgets how they came about.
LEMMA ConfirmInv ==
    ASSUME Inv, ConfirmMatch
    PROVE  Inv'
  <1>1. /\ Forget /\ stage' = "matched"
        /\ UNCHANGED <<now, start, height, version, give, refund, anchor>>
    BY DEF ConfirmMatch
  <1>2. Typed'
    BY <1>1, ForgetFacts DEF Inv, Typed, Stages
  <1>3. Known'
    BY <1>1, ForgetFacts DEF Inv, Typed, Known, OnSchedule, Heights
  <1>4. Dated' /\ Bounded'
    BY <1>1, BoundStays DEF Inv, Dated
  <1> QED  BY <1>2, <1>3, <1>4 DEF Inv

\* The first announcement of version 1.
LEMMA HelloInv ==
    ASSUME Inv, NEW p \in Traders, NEW heights \in Reports, SendHello(p, heights)
    PROVE  Inv'
  <1>1. /\ hello' = [hello EXCEPT ![p] = heights]
        /\ UNCHANGED <<chainVars, version, give, order, acceptance, matchedAt, refund, anchor, stage>>
    BY DEF SendHello
  <1>2. heights \in Heights /\ \A c \in Chains : heights[c] <= height[c]
    BY ReportFacts, ConstantFacts DEF Inv, Typed, Heights
  <1>3. Typed'
    BY <1>1, <1>2 DEF Inv, Typed, chainVars
  <1>4. Known'
    BY <1>1, <1>2 DEF Inv, Typed, Known, chainVars, OnSchedule
  <1>5. Dated'
    BY <1>1 DEF Inv, Dated, AcceptanceValid, DatesValid, LifetimeAllowed
  <1>6. Bounded'
    BY <1>1, BoundStays DEF Inv, chainVars
  <1> QED  BY <1>3, <1>4, <1>5, <1>6 DEF Inv

\* The second announcement of version 1 determines the contracts.
LEMMA AgreementInv ==
    ASSUME Inv, NEW p \in Traders, NEW heights \in Reports, BuildAgreement(p, heights)
    PROVE  /\ Inv'
           /\ \A c \in Chains : refund'[c] >= height[c] - Lag[c] + Window(c)
  <1> DEFINE other == CHOOSE q \in Traders : q # p
             base == Later(hello[other], heights)
  <1>1. other \in Traders
    BY DEF Traders
  <1>2. heights \in Heights /\ \A c \in Chains : heights[c] \in height[c] - Lag[c] .. height[c]
    BY ReportFacts DEF Inv
  <1>3. /\ ~Overflows(base, RefundHeights(base, 0)) /\ refund' = RefundHeights(base, 0)
        /\ anchor' = now /\ stage' = "agreed" /\ Forget
        /\ UNCHANGED <<now, start, height, version, give>>
    BY DEF BuildAgreement
  <1> HIDE DEF other
  <1>4. /\ base \in Heights
        /\ \A c \in Chains : base[c] \in height[c] - Lag[c] .. height[c]
    <2>1. hello[other] \in Heights /\ \A c \in Chains : hello[other][c] <= height[c]
      BY <1>1 DEF Inv, Typed, Known
    <2> QED  BY <1>2, <2>1, LaterFacts DEF Inv
  <1> HIDE DEF base
  <1>5. /\ 0 \in 0..MaximumLifetime /\ now \in now - ClockError .. now + ClockError
        /\ anchor' = now + 0 /\ now \in Int
    BY <1>3, ConstantFacts DEF Inv, Typed
  <1>6. /\ refund' \in Heights /\ Bounded'
        /\ \A c \in Chains : /\ refund'[c] <= MaxHeight[c]
                              /\ refund'[c] >= height[c] - Lag[c] + Window(c)
    BY <1>3, <1>4, <1>5, NewBound DEF Inv, Known
  <1>7. Typed'
    BY <1>3, <1>5, <1>6, ForgetFacts DEF Inv, Typed, Stages
  <1>8. Known'
    BY <1>3, ForgetFacts DEF Inv, Typed, Known, OnSchedule, Heights
  <1>9. Dated'
    BY <1>3 DEF Dated
  <1> QED  BY <1>6, <1>7, <1>8, <1>9 DEF Inv

\* Time passes, a block is mined, or a clock is set.
LEMMA WorldInv ==
    ASSUME Inv, Tick \/ (\E c \in Chains : Mine(c)) \/ (\E p \in Clocks : SetClock(p))
    PROVE  Inv'
  <1>1. UNCHANGED <<start, version, give, order, acceptance, matchedAt, hello, refund, anchor, stage>>
    BY DEF Tick, Mine, SetClock, signedVars
  <1>2. /\ now' \in 0..Horizon /\ error' \in [Clocks -> -ClockError..ClockError]
        /\ height' \in Heights /\ OnSchedule(now, height)'
        /\ \A c \in Chains : height'[c] <= MaxHeight[c] /\ height'[c] >= height[c]
    <2>1. CASE Tick
      <3>1. /\ now' = now + 1 /\ now < Horizon /\ height' = height /\ error' = error
            /\ OnSchedule(now', height)
        BY <2>1 DEF Tick, Running
      <3>2. now' \in 0..Horizon /\ \A c \in Chains : height[c] \in Nat
        BY <3>1, ConstantFacts DEF Inv, Typed, Heights
      <3> QED  BY <1>1, <3>1, <3>2 DEF Inv, Typed, OnSchedule
    <2>2. CASE \E c \in Chains : Mine(c)
      <3>1. PICK c \in Chains :
                  /\ height' = [height EXCEPT ![c] = height[c] + 1] /\ height[c] < MaxHeight[c]
                  /\ now' = now /\ error' = error /\ OnSchedule(now, height')
        BY <2>2 DEF Mine
      <3>2. /\ height' \in Heights
            /\ \A d \in Chains : height'[d] <= MaxHeight[d] /\ height'[d] >= height[d]
        BY <3>1, ConstantFacts DEF Inv, Typed, Heights
      <3> QED  BY <1>1, <3>1, <3>2 DEF Inv, Typed, OnSchedule
    <2>3. CASE \E p \in Clocks : SetClock(p)
      <3>1. PICK p \in Clocks : SetClock(p)
        BY <2>3
      <3>2. /\ error' \in [Clocks -> -ClockError..ClockError] /\ now' = now /\ height' = height
        BY <3>1 DEF SetClock, Inv, Typed
      <3>3. \A c \in Chains : height[c] \in Nat
        BY DEF Inv, Typed, Heights
      <3> QED  BY <1>1, <3>2, <3>3 DEF Inv, Typed, Known, OnSchedule
    <2> QED  BY <2>1, <2>2, <2>3
  <1>3. Typed'
    BY <1>1, <1>2 DEF Inv, Typed
  <1>4. Known'
    <2>1. \A c \in Chains : /\ height[c] \in Int /\ height'[c] \in Int /\ order.height[c] \in Int
                            /\ \A p \in Traders : hello[p][c] \in Int
      BY <1>2 DEF Inv, Typed, Heights, Signed
    <2> QED  BY <1>1, <1>2, <2>1 DEF Inv, Known
  <1>5. Dated'
    BY <1>1 DEF Inv, Dated, AcceptanceValid, DatesValid, LifetimeAllowed
  <1>6. Bounded'
    BY <1>1, BoundStays DEF Inv
  <1> QED  BY <1>3, <1>4, <1>5, <1>6 DEF Inv

\* Every step keeps the invariant.
LEMMA StepInv ==
    ASSUME Inv, [Next]_vars
    PROVE  Inv'
  <1>1. CASE \E lifetime \in Lifetimes, heights \in Reports : CreateOffer(lifetime, heights)
    BY <1>1, CreateOfferInv
  <1>2. CASE \E heights \in Reports : AcceptOffer(heights)
    BY <1>2, AcceptOfferInv
  <1>3. CASE SubmitAcceptance \/ MatchAcceptance
    BY <1>3, MatchInv
  <1>4. CASE ConfirmMatch
    BY <1>4, ConfirmInv
  <1>5. CASE \E p \in Traders, heights \in Reports : SendHello(p, heights)
    BY <1>5, HelloInv
  <1>6. CASE \E p \in Traders, heights \in Reports : BuildAgreement(p, heights)
    BY <1>6, AgreementInv
  <1>7. CASE Tick \/ (\E c \in Chains : Mine(c)) \/ (\E p \in Clocks : SetClock(p))
    BY <1>7, WorldInv
  <1>8. CASE UNCHANGED vars
    BY <1>8 DEF vars, chainVars, signedVars, Inv, Typed, Known, OnSchedule, Dated, AcceptanceValid,
                DatesValid, LifetimeAllowed, Bounded, RefundBound, TimeTo, Window, FirstChain,
                FirstFunder, OtherChain
  <1> QED  BY <1>1, <1>2, <1>3, <1>4, <1>5, <1>6, <1>7, <1>8 DEF Next

\* The invariant, of every behaviour.
LEMMA Invariance == Spec => []Inv
  BY InitInv, StepInv, PTL DEF Spec

-----------------------------------------------------------------------------
(* Theorems *)

\* Every height and every refund height fits the type of its chain: no sum
\* that wrapped around was agreed on.
THEOREM TermsTyping == Spec => []TermsTypeOK
  <1>1. Inv => TermsTypeOK
    BY DEF Inv, Typed, TermsTypeOK, Signed, Heights
  <1> QED  BY <1>1, Invariance, PTL

\* A refund height, once reached, was not reached early.
LEMMA DueFacts ==
    ASSUME Inv, refund # NoHeights, NEW c \in Chains, RefundDue(c)
    PROVE  now >= anchor + Interval[c] * (Window(c) - Lag[c]) - 2 * Drift - ClockError
  <1> DEFINE bound == anchor + Interval[c] * (Window(c) - Lag[c])
             elapsed == Interval[c] * (height[c] - start[c])
  <1>1. /\ Interval[c] \in Nat \ {0} /\ Drift \in Nat /\ ClockError \in Nat /\ Lag[c] \in Nat
        /\ Window(c) \in Nat /\ now \in Int /\ anchor \in Int
        /\ height[c] \in Nat /\ refund[c] \in Nat /\ start[c] \in Nat
    BY ConstantFacts, ChainFacts DEF Inv, Typed, Heights
  <1>2. bound - Drift - ClockError <= TimeTo(c)
    <2>1. RefundBound(c)
      BY DEF Inv, Bounded
    <2> QED  BY <1>1, <2>1 DEF RefundBound, TimeTo
  <1>3. TimeTo(c) \in Int /\ TimeTo(c) <= elapsed
    <2>1. refund[c] - start[c] <= height[c] - start[c]
      BY <1>1 DEF RefundDue
    <2> QED  BY <1>1, <2>1, Multiply DEF TimeTo
  <1>4. now - elapsed \in -Drift..Drift
    BY DEF Inv, Known, OnSchedule
  <1>5. bound \in Int /\ elapsed \in Int
    BY <1>1
  <1> HIDE DEF bound, elapsed
  <1>6. now >= bound - 2 * Drift - ClockError
    BY <1>1, <1>2, <1>3, <1>4, <1>5
  <1>7. bound = anchor + Interval[c] * (Window(c) - Lag[c])
    BY DEF bound
  <1> QED  BY <1>1, <1>5, <1>6, <1>7

\* No funder can take its coins back before its window has passed, counted
\* from the order's deadline or the last hello: AsyncRefundHeights and
\* Agreement.Validate, for any windows, intervals and bounds on the errors.
THEOREM RefundsInTime == Spec => []NoEarlyRefund
  <1>1. Inv => NoEarlyRefund
    BY DueFacts DEF NoEarlyRefund
  <1> QED  BY <1>1, Invariance, PTL

\* What a client has journaled is acceptable to the relay once the relay's
\* clock has come to its date, however the clocks were set meanwhile: no
\* assumption on the errors is needed.
THEOREM JournaledStands == Spec => []JournaledIsAcceptable
  <1>1. Inv => JournaledIsAcceptable
    <2> SUFFICES ASSUME Inv PROVE JournaledIsAcceptable
      OBVIOUS
    <2> DEFINE a == acceptance  t == Clock("relay")
    <2>1. /\ order.createdAt \in Int /\ order.expiresAt \in Int
          /\ a.createdAt \in Int /\ a.expiresAt \in Int /\ matchedAt \in Int
          /\ t \in Int /\ MaximumClockSkew \in Nat
      BY ClockFacts, ConstantFacts DEF Inv, Typed, Signed, Clocks
    <2>2. ASSUME AcceptanceValid(a, refund, a.createdAt), a.expiresAt = order.expiresAt,
                 RelayOffers, t >= a.createdAt
          PROVE  AcceptanceValid(a, refund, t)
      <3>1. /\ DatesValid(order, a.createdAt) /\ DatesValid(a, a.createdAt)
            /\ a.expiresAt <= order.expiresAt
            /\ \A c \in Chains : refund[c] > a.height[c]
        BY <2>2 DEF AcceptanceValid
      <3>2. t < order.expiresAt
        BY <2>2 DEF RelayOffers
      <3>3. DatesValid(order, t) /\ DatesValid(a, t)
        <4>1. /\ order.createdAt <= a.createdAt + MaximumClockSkew
              /\ LifetimeAllowed(order) /\ LifetimeAllowed(a)
          BY <3>1 DEF DatesValid
        <4>2. /\ order.createdAt <= t + MaximumClockSkew
              /\ a.createdAt <= t + MaximumClockSkew
              /\ t < a.expiresAt
          BY <2>1, <2>2, <3>2, <4>1
        <4> QED  BY <3>2, <4>1, <4>2 DEF DatesValid
      <3> QED  BY <3>1, <3>3 DEF AcceptanceValid
    <2>3. CASE stage \in {"pending", "stored", "journaled"}
      <3>1. AcceptanceValid(a, refund, a.createdAt) /\ a.expiresAt = order.expiresAt
        BY <2>3 DEF Inv, Dated
      <3>2. ASSUME stage = "journaled", RelayOffers, t >= matchedAt
            PROVE  MatchValid(matchedAt, t)
        <4>1. matchedAt \in a.createdAt..a.expiresAt
          BY <3>2 DEF Inv, Dated
        <4>2. t >= a.createdAt /\ matchedAt <= t + MaximumClockSkew
          BY <2>1, <3>2, <4>1
        <4> QED  BY <2>2, <3>1, <3>2, <4>1, <4>2 DEF MatchValid
      <3> QED  BY <2>2, <3>1, <3>2 DEF JournaledIsAcceptable
    <2>4. CASE stage \notin {"pending", "stored", "journaled"}
      BY <2>4 DEF JournaledIsAcceptable
    <2> QED  BY <2>3, <2>4
  <1> QED  BY <1>1, Invariance, PTL

\* While the relay still matches, both legs can be funded: a late acceptance
\* or a late match does not begin a swap that must expire.
THEOREM MatchedIsFundable ==
    ASSUME WindowsAreWide
    PROVE  Spec => []FundableUntilDeadline
  <1>1. Inv => FundableUntilDeadline
    <2> SUFFICES ASSUME Inv, stage \in {"pending", "stored", "journaled"}, RelayOffers,
                        NEW c \in Chains
                 PROVE  Remaining(c) >= MinimumWindow[c]
      BY DEF FundableUntilDeadline, WindowsOpen
    <2> DEFINE n == Interval[c]  least == MinimumWindow[c]
               r == refund[c]  h == height[c]  s == start[c]  W == Window(c)  L == Lag[c]
    <2>1. /\ n \in Nat \ {0} /\ Drift \in Nat /\ ClockError \in Nat /\ L \in Nat
          /\ W \in Nat /\ now \in Int /\ anchor \in Int /\ least \in Nat \ {0}
          /\ h \in Nat /\ r \in Nat /\ s \in Nat
      BY ConstantFacts, ChainFacts DEF Inv, Typed, Heights
    <2>2. n * (W - L - least + 1) >= 2 * (Drift + ClockError)
      BY ChainFacts DEF WindowsAreWide, Inv, Typed
    <2>3. refund # NoHeights
      <3>1. refund[c] > acceptance.height[c] /\ acceptance.height[c] \in Nat
        BY DEF Inv, Dated, AcceptanceValid, Typed, Signed, Heights
      <3> QED  BY <2>1, <3>1 DEF NoHeights
    <2>4. anchor + n * (W - L) - Drift - ClockError <= n * (r - s)
      BY <2>3 DEF Inv, Bounded, RefundBound, TimeTo
    <2>5. now - n * (h - s) \in -Drift..Drift
      BY DEF Inv, Known, OnSchedule
    <2>6. now < anchor + ClockError
      <3>1. Clock("relay") < order.expiresAt /\ anchor = order.expiresAt
        BY DEF RelayOffers, Inv, Dated
      <3> QED  BY <2>1, <3>1, ClockFacts DEF Inv, Clocks
    <2> HIDE DEF n, least, r, h, s, W, L
    <2>7. /\ n * (r - h) = n * (r - s) - n * (h - s)
          /\ n * (W - L - least + 1) = n * (W - L) - n * least + n
      BY <2>1
    <2> DEFINE rs == n * (r - s)  hs == n * (h - s)  wl == n * (W - L)  nl == n * least
    <2>8. rs \in Int /\ hs \in Int /\ wl \in Int /\ nl \in Int
      BY <2>1
    <2>9. nl < (rs - hs) + n
      <3>1. /\ wl - nl + n >= 2 * (Drift + ClockError)
            /\ anchor + wl - Drift - ClockError <= rs /\ now - hs \in -Drift..Drift
        BY <2>2, <2>4, <2>5, <2>7
      <3> HIDE DEF rs, hs, wl, nl
      <3> QED  BY <2>1, <2>6, <2>8, <3>1
    <2>10. least <= r - h
      <3>1. r - h \in Int /\ n * least < n * (r - h) + n
        BY <2>1, <2>7, <2>9
      <3> QED  BY <2>1, <3>1, Cancel
    <2>11. h < r /\ r - h >= least
      BY <2>1, <2>10
    <2> QED  BY <2>11 DEF Remaining, least, r, h
  <1> QED  BY <1>1, Invariance, PTL

-----------------------------------------------------------------------------
(* The order of the limits *)

\* When the first funder's refund is due, the second funder's has been.
LEMMA SecondDueFirst ==
    ASSUME WindowsAreSeparate
    PROVE  Inv /\ refund # NoHeights /\ RefundDue(FirstChain) => RefundDue(SecondChain)
  <1> SUFFICES ASSUME Inv, refund # NoHeights, RefundDue(FirstChain)
               PROVE  RefundDue(SecondChain)
    OBVIOUS
  <1> DEFINE F == FirstChain  S == SecondChain  n == Interval[S]
             long == Interval[F] * (LongWindow[F] - Lag[F])
             short == n * ShortWindow[S]
             elapsed == n * (height[S] - start[S])
  <1>1. /\ F \in Chains /\ S \in Chains /\ F # S
        /\ Window(F) = LongWindow[F] /\ Window(S) = ShortWindow[S]
    BY ChainFacts DEF Inv, Typed
  <1>2. /\ n \in Nat \ {0} /\ Drift \in Nat /\ ClockError \in Nat /\ now \in Int /\ anchor \in Int
        /\ height[S] \in Nat /\ refund[S] \in Nat /\ start[S] \in Nat
    BY <1>1, ConstantFacts DEF Inv, Typed, Heights
  <1>3. long \in Int /\ short \in Int /\ elapsed \in Int
    <2>1. /\ Interval[F] \in Nat /\ LongWindow[F] \in Nat /\ Lag[F] \in Nat
          /\ ShortWindow[S] \in Nat
      BY <1>1, ConstantFacts
    <2> HIDE DEF F, S
    <2> QED  BY <1>2, <2>1
  <1>4. long >= short + 4 * Drift + 2 * ClockError
    BY <1>1 DEF WindowsAreSeparate
  <1>5. now >= anchor + long - 2 * Drift - ClockError
    BY <1>1, DueFacts
  <1>6. ASSUME ~RefundDue(S)
        PROVE  elapsed < anchor + short + Drift + ClockError
    <2>1. height[S] - start[S] <= refund[S] - 1 - start[S]
      BY <1>2, <1>6 DEF RefundDue
    <2>2. elapsed <= n * (refund[S] - 1 - start[S])
      BY <1>2, <2>1, Multiply
    <2>3. n * (refund[S] - 1 - start[S]) = TimeTo(S) - n
      <3>1. TimeTo(S) = n * (refund[S] - start[S])
        BY DEF TimeTo
      <3> HIDE DEF n, S
      <3> QED  BY <1>2, <3>1
    <2>4. TimeTo(S) < anchor + short + n + Drift + ClockError /\ TimeTo(S) \in Int
      BY <1>1, <1>2 DEF Inv, Bounded, RefundBound, TimeTo
    <2> HIDE DEF n, short, elapsed
    <2> QED  BY <1>2, <1>3, <2>2, <2>3, <2>4
  <1>7. now - elapsed \in -Drift..Drift
    BY <1>1 DEF Inv, Known, OnSchedule
  <1> HIDE DEF long, short, elapsed
  <1> QED  BY <1>2, <1>3, <1>4, <1>5, <1>6, <1>7

\* The epochs, by what is due.
EpochIsThat ==
    /\ Epoch \in 0..3
    /\ refund = NoHeights => Epoch = 0
    /\ (\A c \in Chains : ~RefundDue(c)) => Epoch \in {0, 1}
    /\ refund # NoHeights =>
          /\ RefundDue(FirstChain) => Epoch = 3
          /\ ~RefundDue(FirstChain) /\ RefundDue(SecondChain) => Epoch = 2
          /\ ~RefundDue(FirstChain) /\ ~RefundDue(SecondChain) /\ WindowsOpen => Epoch = 0
          /\ ~RefundDue(FirstChain) /\ ~RefundDue(SecondChain) /\ ~WindowsOpen => Epoch = 1

\* The epoch of a trade is that.
LEMMA EpochFacts == give \in Chains => EpochIsThat
  <1> SUFFICES ASSUME give \in Chains PROVE EpochIsThat
    OBVIOUS
  <1>1. FirstChain \in Chains /\ SecondChain \in Chains
    BY ChainFacts
  <1>2. CASE refund = NoHeights
    BY <1>2 DEF Epoch, EpochIsThat
  <1>3. CASE refund # NoHeights /\ RefundDue(FirstChain)
    BY <1>1, <1>3 DEF Epoch, EpochIsThat
  <1>4. CASE refund # NoHeights /\ ~RefundDue(FirstChain) /\ RefundDue(SecondChain)
    BY <1>1, <1>4 DEF Epoch, EpochIsThat
  <1>5. CASE refund # NoHeights /\ ~RefundDue(FirstChain) /\ ~RefundDue(SecondChain)
    <2>1. Epoch = IF WindowsOpen THEN 0 ELSE 1
      BY <1>5 DEF Epoch
    <2> QED  BY <1>5, <2>1 DEF EpochIsThat
  <1> QED  BY <1>2, <1>3, <1>4, <1>5

\* A mined block closes the windows, or makes one refund due, never both, and
\* undoes nothing.
LEMMA MineEpoch ==
    ASSUME WindowsAreSeparate, Inv, Inv', NEW c \in Chains, Mine(c)
    PROVE  Epoch' \in {Epoch, Epoch + 1}
  <1>1. /\ height' = [height EXCEPT ![c] = height[c] + 1]
        /\ UNCHANGED <<version, give, refund>>
    BY DEF Mine
  <1>2. /\ give \in Chains /\ give' \in Chains
        /\ FirstChain' = FirstChain /\ SecondChain' = SecondChain
        /\ FirstChain \in Chains /\ SecondChain \in Chains /\ FirstChain # SecondChain
    BY <1>1, ChainFacts DEF Inv, Typed, FirstChain, SecondChain, OtherChain, FirstFunder
  <1>3. \A d \in Chains : /\ height[d] \in Nat /\ refund[d] \in Nat
                          /\ height'[d] = IF d = c THEN height[d] + 1 ELSE height[d]
                          /\ MinimumWindow[d] \in Nat /\ MinimumWindow[d] > 1
    BY <1>1, ConstantFacts DEF Inv, Typed, Heights, WindowsAreSeparate
  <1>4. \A d \in Chains : /\ RefundDue(d) => RefundDue(d)'
                          /\ RefundDue(d)' /\ d # c => RefundDue(d)
    BY <1>1, <1>3 DEF RefundDue
  <1>5. WindowsOpen => \A d \in Chains : ~RefundDue(d)'
    <2> SUFFICES ASSUME WindowsOpen, NEW d \in Chains PROVE ~RefundDue(d)'
      OBVIOUS
    <2>1. height[d] + 1 < refund[d]
      BY <1>3 DEF WindowsOpen, Remaining
    <2> QED  BY <1>1, <1>3, <2>1 DEF RefundDue
  <1>6. WindowsOpen' => WindowsOpen
    <2> SUFFICES ASSUME WindowsOpen', NEW d \in Chains PROVE Remaining(d) >= MinimumWindow[d]
      BY DEF WindowsOpen
    <2>1. Remaining(d)' >= MinimumWindow[d]
      BY DEF WindowsOpen
    <2> QED  BY <1>1, <1>3, <2>1 DEF Remaining
  <1>7. refund # NoHeights =>
           /\ RefundDue(FirstChain) => RefundDue(SecondChain)
           /\ RefundDue(FirstChain)' => RefundDue(SecondChain)'
    <2>1. refund # NoHeights /\ RefundDue(FirstChain) => RefundDue(SecondChain)
      BY SecondDueFirst
    <2>2. (Inv /\ refund # NoHeights /\ RefundDue(FirstChain) => RefundDue(SecondChain))'
      BY SecondDueFirst, PTL
    <2> QED  BY <1>1, <2>1, <2>2
  <1>8. EpochIsThat /\ EpochIsThat'
    <2>1. (give \in Chains => EpochIsThat)'
      BY EpochFacts, PTL
    <2> QED  BY <1>2, <2>1, EpochFacts
  <1>9. CASE refund = NoHeights
    BY <1>1, <1>8, <1>9 DEF EpochIsThat, NoHeights
  <1>10. CASE refund # NoHeights
    <2> DEFINE F == FirstChain  S == SecondChain
    <2>1. /\ refund' # NoHeights /\ F' = F /\ S' = S /\ F \in Chains /\ S \in Chains /\ F # S
          /\ RefundDue(F)' => RefundDue(S)'
          /\ RefundDue(F) => RefundDue(F)' /\ RefundDue(S)
          /\ RefundDue(S) => RefundDue(S)'
          /\ ~RefundDue(F) /\ RefundDue(F)' => F = c
          /\ ~RefundDue(S) /\ RefundDue(S)' => S = c
          /\ WindowsOpen => ~RefundDue(F)' /\ ~RefundDue(S)'
      BY <1>1, <1>2, <1>4, <1>5, <1>7, <1>10
    <2>2. CASE RefundDue(F)
      BY <1>8, <1>10, <2>1, <2>2 DEF EpochIsThat
    <2>3. CASE ~RefundDue(F) /\ RefundDue(S)
      BY <1>8, <1>10, <2>1, <2>3 DEF EpochIsThat
    <2>4. CASE ~RefundDue(F) /\ ~RefundDue(S) /\ WindowsOpen
      BY <1>8, <1>10, <2>1, <2>4 DEF EpochIsThat
    <2>5. CASE ~RefundDue(F) /\ ~RefundDue(S) /\ ~WindowsOpen
      <3>1. ~RefundDue(F)' /\ ~WindowsOpen'
        BY <1>6, <2>1, <2>5
      <3> QED  BY <1>8, <1>10, <2>1, <2>5, <3>1 DEF EpochIsThat
    <2> QED  BY <2>2, <2>3, <2>4, <2>5
  <1> QED  BY <1>9, <1>10

\* Whatever leaves the chains and the contracts alone leaves the epoch.
LEMMA SameEpoch ==
    ASSUME Inv, UNCHANGED <<height, version, give, refund>>
    PROVE  Epoch' \in {Epoch, Epoch + 1}
  <1>1. Epoch' = Epoch
    BY DEF Epoch, RefundDue, WindowsOpen, Remaining, FirstChain, SecondChain, FirstFunder, OtherChain
  <1> QED  BY <1>1

\* Contracts begin with neither refund due.
LEMMA NewEpoch ==
    ASSUME WindowsAreSeparate, Inv, Inv', refund = NoHeights,
           UNCHANGED <<height, version, give>>,
           \A c \in Chains : refund'[c] >= height[c] - Lag[c] + Window(c)
    PROVE  Epoch' \in {Epoch, Epoch + 1}
  <1>1. ASSUME NEW c \in Chains PROVE ~RefundDue(c)'
    <2>1. /\ height[c] \in Nat /\ refund'[c] \in Nat /\ Lag[c] \in Nat
          /\ Window(c) \in Nat /\ Window(c) > Lag[c]
      BY ConstantFacts, ChainFacts DEF Inv, Typed, Heights, WindowsAreSeparate
    <2> QED  BY <2>1 DEF RefundDue
  <1>2. EpochIsThat'
    <2>1. (give \in Chains => EpochIsThat)'
      BY EpochFacts, PTL
    <2> QED  BY <2>1 DEF Inv, Typed
  <1>3. Epoch = 0 /\ Epoch' \in {0, 1}
    BY <1>1, <1>2, EpochFacts DEF EpochIsThat, Inv, Typed
  <1> QED  BY <1>3

\* The heights of the two chains pass the engine's limits in the one order
\* that the clock of SwapLegs has, one limit at a time.
THEOREM LimitsInOrder ==
    ASSUME WindowsAreSeparate
    PROVE  Spec => EpochsInOrder
  <1>1. Inv /\ Inv' /\ [Next]_vars => [Epoch' \in {Epoch, Epoch + 1}]_vars
    <2> SUFFICES ASSUME Inv, Inv', Next PROVE Epoch' \in {Epoch, Epoch + 1}
      OBVIOUS
    <2>1. CASE \E lifetime \in Lifetimes, heights \in Reports : CreateOffer(lifetime, heights)
      BY <2>1, SameEpoch DEF CreateOffer, chainVars
    <2>2. ASSUME NEW heights \in Reports, AcceptOffer(heights)
          PROVE  Epoch' \in {Epoch, Epoch + 1}
      BY <2>2, AcceptOfferInv, NewEpoch DEF AcceptOffer, chainVars, Inv, Dated
    <2>3. CASE SubmitAcceptance \/ MatchAcceptance \/ ConfirmMatch
      BY <2>3, SameEpoch DEF SubmitAcceptance, MatchAcceptance, ConfirmMatch, chainVars
    <2>4. CASE \E p \in Traders, heights \in Reports : SendHello(p, heights)
      BY <2>4, SameEpoch DEF SendHello, chainVars
    <2>5. ASSUME NEW p \in Traders, NEW heights \in Reports, BuildAgreement(p, heights)
          PROVE  Epoch' \in {Epoch, Epoch + 1}
      BY <2>5, AgreementInv, NewEpoch DEF BuildAgreement, Inv, Dated
    <2>6. CASE Tick \/ \E p \in Clocks : SetClock(p)
      BY <2>6, SameEpoch DEF Tick, SetClock
    <2>7. CASE \E c \in Chains : Mine(c)
      BY <2>7, MineEpoch
    <2> QED  BY <2>1, <2>2, <2>3, <2>4, <2>5, <2>6, <2>7 DEF Next
  <1> QED  BY <1>1, Invariance, PTL DEF Spec, EpochsInOrder
=============================================================================
