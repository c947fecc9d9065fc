--------------------------- MODULE MCNegotiation ---------------------------
(***************************************************************************)
(* Negotiation on small instances.                                         *)
(***************************************************************************)
EXTENDS Negotiation, TLC

CONSTANTS m, t, u

\* The two takers of these instances are interchangeable.
TakersAlike == Permutations({t, u})
=============================================================================
