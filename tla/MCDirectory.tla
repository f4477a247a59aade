---------------------------- MODULE MCDirectory ----------------------------
(* Instances of Directory for TLC. *)
EXTENDS Directory

MCFlags == {TRUE, FALSE, Null, Undefined}
MCBranchIds == {1, 2, 3, Null, Undefined}
MCBranchCodes == {"ALM", "AST", Null, Undefined}

=============================================================================
