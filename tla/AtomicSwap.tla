----------------------------- MODULE AtomicSwap -----------------------------
(***************************************************************************)
(* What one swap promises, without its engines, wallets and messages: two  *)
(* locked amounts change hands together or both return.  The taker's leg   *)
(* is locked first.  Revealing the secret, possible only while both legs   *)
(* are locked, decides the swap: afterwards no leg is refunded.            *)
(* (docs/PRODUCT.md, Protocol; implemented by AsyncSwap.)                  *)
(***************************************************************************)

VARIABLES
    leg,        \* leg[l]: "unfunded", "locked", "claimed" or "refunded"
    revealed    \* whether the taker has published the secret

vars == <<leg, revealed>>

Legs == {"maker", "taker"}

Init ==
    /\ leg = [l \in Legs |-> "unfunded"]
    /\ revealed = FALSE

\* A funding is mined, the taker's before the maker's.
Lock(l) ==
    /\ leg[l] = "unfunded"
    /\ l = "maker" => leg["taker"] = "locked"
    /\ leg' = [leg EXCEPT ![l] = "locked"]
    /\ UNCHANGED revealed

Reveal ==
    /\ ~revealed
    /\ \A l \in Legs : leg[l] = "locked"
    /\ revealed' = TRUE
    /\ UNCHANGED leg

Claim(l) ==
    /\ revealed
    /\ leg[l] = "locked"
    /\ leg' = [leg EXCEPT ![l] = "claimed"]
    /\ UNCHANGED revealed

Refund(l) ==
    /\ ~revealed
    /\ leg[l] = "locked"
    /\ leg' = [leg EXCEPT ![l] = "refunded"]
    /\ UNCHANGED revealed

Next ==
    \/ Reveal
    \/ \E l \in Legs : Lock(l) \/ Claim(l) \/ Refund(l)

Spec == Init /\ [][Next]_vars

\* A locked amount does not stay locked: once the secret is public it is
\* claimed, and while the secret is kept it is refunded or swapped.
FairSpec ==
    /\ Spec
    /\ \A l \in Legs : WF_vars(Claim(l)) /\ WF_vars(Reveal \/ Refund(l))

TypeOK ==
    /\ leg \in [Legs -> {"unfunded", "locked", "claimed", "refunded"}]
    /\ revealed \in BOOLEAN

\* No trader is paid twice: a claimed leg and a refunded leg never coexist.
Atomic == ~ \E l, m \in Legs : leg[l] = "claimed" /\ leg[m] = "refunded"
=============================================================================
