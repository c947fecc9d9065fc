---------------------------- MODULE MCRelayStore ----------------------------
(***************************************************************************)
(* RelayStore on small instances.                                          *)
(***************************************************************************)
EXTENDS RelayStore, TLC

CONSTANTS m, t, u

\* The two takers of these instances are interchangeable.
TakersAlike == Permutations({t, u})
=============================================================================
