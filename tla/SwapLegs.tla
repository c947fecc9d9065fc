------------------------------ MODULE SwapLegs ------------------------------
(***************************************************************************)
(* The two contract outputs ("legs") of one swap, as the Bitcoin and QDAY  *)
(* networks hold them.  A leg is named by the party that funds it: it pays *)
(* the peer against the secret or returns to its funder after its refund   *)
(* height.  The party that funds first, and owns the secret, has the later *)
(* refund height: the taker in version 2 swaps, the maker in version 1.    *)
(*                                                                         *)
(* The networks are not part of the repository: they are modelled from how *)
(* the engine uses them (Broadcast, Transaction, FindSpend, the QDAY swap  *)
(* view) and marked external.  The heights of the two chains are folded    *)
(* into one epoch that moves when the engine's own comparisons change      *)
(* their answer: 0 while both refund windows are wide enough to fund, 1    *)
(* once one is too narrow, 2 once the second funder's leg is refundable, 3 *)
(* once the first funder's is.                                             *)
(***************************************************************************)
EXTENDS Naturals

CONSTANTS
    MakerGives,     \* the asset of the maker's leg: "BTC" or "QDAY"
    FirstFunder     \* who owns the secret and funds first

VARIABLES
    chain,      \* chain[tx]: "none", "pool", "conf" or "final" (buried deep)
    known,      \* known[p]: unconfirmed transactions p's wallets have seen
    epoch       \* the folded clock, 0..3

legVars == <<chain, known, epoch>>

Parties == {"maker", "taker"}

Peer(p) == IF p = "maker" THEN "taker" ELSE "maker"

Txs == Parties \X {"fund", "claim", "refund"}

Fund(leg) == <<leg, "fund">>
Claim(leg) == <<leg, "claim">>
Refund(leg) == <<leg, "refund">>

LastEpoch == 3

\* Mutant of FundingWindowOpen: funding starts however few blocks remain.
FundingAlwaysOpen == TRUE

\* errFundingWindowClosed: too few blocks remain before a refund height.
FundingWindowOpen == epoch = 0

\* The first epoch in which a leg's refund is final: the first funder's leg
\* has the longer window.
RefundEpoch == [p \in Parties |-> IF p = FirstFunder THEN 3 ELSE 2]

RefundDue(leg) == epoch >= RefundEpoch[leg]

Mined(t) == chain[t] \in {"conf", "final"}

\* What p's wallets report: every mined transaction of a watched contract, and
\* the unconfirmed ones they published themselves or were told of.
Seen(p, t) == Mined(t) \/ t \in known[p]

Rival(t) == IF t[2] = "claim" THEN Refund(t[1]) ELSE Claim(t[1])

Asset(leg) == IF (leg = "maker") = (MakerGives = "BTC") THEN "BTC" ELSE "QDAY"

\* What a wallet agrees to publish.  The Bitcoin wallet takes known bytes
\* again; the QDAY wallet wants the spent output confirmed and unspent.
Publishable(t) ==
    \/ t[2] = "fund"
    \/ /\ chain[Fund(t[1])] # "none"
       /\ ~Mined(Rival(t))
       /\ t[2] = "refund" => RefundDue(t[1])
       /\ Asset(t[1]) = "QDAY" => Mined(Fund(t[1])) /\ ~Mined(t)

\* p publishes t; publishing what is already known changes nothing.
Broadcast(p, t) ==
    /\ Publishable(t)
    /\ chain' = [chain EXCEPT ![t] = IF @ = "none" THEN "pool" ELSE @]
    /\ known' = [known EXCEPT ![p] = IF Mined(t) THEN @ ELSE @ \cup {t}]
    /\ UNCHANGED epoch

LegsInit ==
    /\ chain = [t \in Txs |-> "none"]
    /\ known = [p \in Parties |-> {}]
    /\ epoch = 0

Forget(ts) == [p \in Parties |-> known[p] \ ts]

\* A block includes t.  A rival spend of the same output becomes invalid.
Confirm(t) ==
    /\ chain[t] = "pool"
    /\ t[2] # "fund" => Mined(Fund(t[1]))
    /\ LET dead == IF t[2] = "fund" THEN {} ELSE {Rival(t)}
       IN /\ chain' = [u \in Txs |-> CASE u = t -> "conf"
                                       [] u \in dead -> "none"
                                       [] OTHER -> chain[u]]
          /\ known' = Forget({t} \cup dead)
    /\ UNCHANGED epoch

\* A reorganisation returns t, and a mined spend of it, to the pools of the
\* wallets that saw them.  What an earlier epoch buried stays mined.
Reorg(t) ==
    /\ chain[t] = "conf"
    /\ LET lost == {t} \cup IF t[2] = "fund"
                            THEN {u \in {Claim(t[1]), Refund(t[1])} : chain[u] = "conf"}
                            ELSE {}
       IN /\ chain' = [u \in Txs |-> IF u \in lost THEN "pool" ELSE chain[u]]
          /\ known' = [p \in Parties |-> known[p] \cup lost]
    /\ UNCHANGED epoch

\* Every node evicts the unconfirmed t and what spends it.  The maker's
\* wallet keeps republishing its own funding, so that one is not lost.
Evict(t) ==
    /\ chain[t] = "pool"
    /\ t # Fund("maker")
    /\ LET lost == IF t[2] = "fund" THEN {t, Claim(t[1]), Refund(t[1])} ELSE {t}
       IN /\ chain' = [u \in Txs |-> IF u \in lost THEN "none" ELSE chain[u]]
          /\ known' = Forget(lost)
    /\ UNCHANGED epoch

\* The network shows p's wallet an unconfirmed transaction of somebody else.
Gossip(p, t) ==
    /\ chain[t] = "pool"
    /\ t \notin known[p]
    /\ known' = [known EXCEPT ![p] = @ \cup {t}]
    /\ UNCHANGED <<chain, epoch>>

\* No transaction that could be mined is still waiting.
PoolsDrained ==
    \A t \in Txs : chain[t] # "pool" \/ (t[2] # "fund" /\ ~Mined(Fund(t[1])))

\* The chains grow past the next height that matters to the engine.
NextEpoch ==
    /\ epoch < LastEpoch
    /\ epoch' = epoch + 1
    /\ chain' = [t \in Txs |-> IF chain[t] = "conf" THEN "final" ELSE chain[t]]
    /\ UNCHANGED known

LegsTypeOK ==
    /\ chain \in [Txs -> {"none", "pool", "conf", "final"}]
    /\ known \in [Parties -> SUBSET Txs]
    /\ epoch \in 0..LastEpoch
=============================================================================
