----------------------------- MODULE MCCatalog -----------------------------
(***************************************************************************)
(* Instances of Catalog for TLC: a deep tree with plain requests, and a     *)
(* shallow one with every value a request may carry.                        *)
(***************************************************************************)
EXTENDS Catalog, TLC

CONSTANTS a, b, c  \* codes that requests give

MCParentIds == 1..MaxServiceId \cup {Undefined}

\* parents for the moves of a deep tree
MCTreeCodes == {a, b, c, Undefined}
MCTreeTypes == {"CATEGORY", "SERVICE", Undefined}
MCTreeActive == {Undefined}

\* every kind of request over a shallow tree
MCAnyCodes == {VS, a, Null, Undefined}
MCAnyTypes == {"CATEGORY", "SERVICE", Null, Undefined}
MCAnyParents == MCParentIds \cup {Null}
MCAnyActive == {TRUE, FALSE, Null, Undefined}

MCTreeSymmetry == Permutations({a, b, c})

=============================================================================
