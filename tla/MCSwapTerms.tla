---------------------------- MODULE MCSwapTerms ----------------------------
(***************************************************************************)
(* SwapTerms on slow chains: a block takes two or three units of time, the *)
(* short window twelve, the long one thirty, a leg is funded with six left *)
(* (in the code 24, 48 and 6 hours).                                       *)
(***************************************************************************)
EXTENDS SwapTerms

Intervals == [QDAY |-> 2, BTC |-> 3]
ShortWindows == [QDAY |-> 6, BTC |-> 4]
LongWindows == [QDAY |-> 15, BTC |-> 10]
Lags == [QDAY |-> 0, BTC |-> 1]
MinimumWindows == [QDAY |-> 3, BTC |-> 2]
HeightTypes == [QDAY |-> 63, BTC |-> 63]

\* Low heights, and heights whose sums with a long window do not fit.
Starts == {[QDAY |-> 2, BTC |-> 2], [QDAY |-> 47, BTC |-> 52]}
=============================================================================
