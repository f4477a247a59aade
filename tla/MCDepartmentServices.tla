------------------------ MODULE MCDepartmentServices ------------------------
(***************************************************************************)
(* Instances of the gateway's directory for TLC.  The catalog's own moves   *)
(* are checked with MCCatalog: here its nodes hang below one root and are   *)
(* created, converted, switched off and removed under the links.            *)
(***************************************************************************)
EXTENDS DepartmentServices

CONSTANTS a, b  \* catalog codes that requests give

MCCodes == {a, b, Undefined}
MCOneCode == {a, Undefined}
MCTypes == {"CATEGORY", "SERVICE", Undefined}
MCParents == {1, Undefined}
MCOff == {FALSE, Undefined}
MCAbsent == {Undefined}
MCFlags == {TRUE, FALSE, Null, Undefined}
MCBranchIds == {1, 2, Null, Undefined}
MCBranchCodes == {"ALM", "AST", Undefined}
MCOneBranchCode == {"ALM", Undefined}
MCServiceOnly == {"SERVICE", Undefined}

=============================================================================
