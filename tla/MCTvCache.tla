----------------------------- MODULE MCTvCache -----------------------------
(* An instance of TvCache for TLC: interchangeable screens that ask for the same keys. *)
EXTENDS TvCache, TLC

CONSTANTS s1, s2, k1, k2

MCScreens == {s1, s2}
MCKeys == {k1, k2}
MCSymmetry == Permutations(MCScreens) \cup Permutations(MCKeys)

=============================================================================
