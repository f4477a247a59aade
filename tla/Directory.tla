----------------------------- MODULE Directory -----------------------------
(***************************************************************************)
(* BranchesService and DepartmentsService (src/branches, src/departments):  *)
(* two in-memory tables with no check between them.  A department names its *)
(* branch by id, and nothing looks at whether that branch exists, on either *)
(* side.  One action per request that changes a table.                      *)
(*                                                                         *)
(* Names, department codes and timestamps are left out.                     *)
(***************************************************************************)
EXTENDS Store

CONSTANTS
  BranchCodeInputs,       \* the branch codes a request may give, Null and
                          \* Undefined too for an update
  BranchIdInputs,         \* the branch ids a department request may give,
                          \* Null and Undefined too
  DirectoryActiveInputs,  \* the isActive a request may give, Null and Undefined too
  MaxBranchId,            \* bound: the highest branch id issued
  MaxDepartmentId         \* bound: the highest department id issued

ASSUME DirectoryAssumption ==
  /\ BranchIdInputs \subseteq Nat \cup {Null, Undefined}
  /\ DirectoryActiveInputs \subseteq BOOLEAN \cup {Null, Undefined}
  /\ MaxBranchId \in Nat /\ MaxDepartmentId \in Nat

VARIABLES
  branches, nextBranchId, branchTrail,
  departments, nextDepartmentId, departmentTrail

branchVars == <<branches, nextBranchId, branchTrail>>
departmentVars == <<departments, nextDepartmentId, departmentTrail>>
directoryVars == <<branchVars, departmentVars>>

Branch == [code: BranchCodeInputs \ {Undefined}, isActive: BOOLEAN]
Department == [branchId: Nat \cup {Null}, isActive: BOOLEAN]

DirectoryInit ==
  /\ branches = [b \in {} |-> Null] /\ nextBranchId = 1
  /\ branchTrail = [b \in {} |-> Null]
  /\ departments = [d \in {} |-> Null] /\ nextDepartmentId = 1
  /\ departmentTrail = [d \in {} |-> Null]

----------------------------------------------------------------------------
(* BranchesService *)

\* mutant: the id of a removed branch is given out again
CreateBranchInGap(code, isActive) ==
  LET branch == [code |-> code, isActive |-> Coalesce(isActive, TRUE)]
      id == CHOOSE i \in 1..nextBranchId :
              i \notin DOMAIN branches /\ 1..(i - 1) \subseteq DOMAIN branches
  IN /\ id <= MaxBranchId
     /\ branches' = With(branches, id, branch)
     /\ branchTrail' = RecordAfter(branchTrail, id, branch)
     /\ nextBranchId' = IF id = nextBranchId THEN id + 1 ELSE nextBranchId
     /\ UNCHANGED departmentVars

CreateBranch(code, isActive) ==
  LET branch == [code |-> code, isActive |-> Coalesce(isActive, TRUE)]
  IN /\ nextBranchId <= MaxBranchId
     /\ branches' = With(branches, nextBranchId, branch)
     /\ branchTrail' = RecordAfter(branchTrail, nextBranchId, branch)
     /\ nextBranchId' = nextBranchId + 1
     /\ UNCHANGED departmentVars

UpdateBranch(b, code, isActive) ==
  LET branch == [branches[b] EXCEPT !.code = Given(code, @),
                                    !.isActive = GivenFlag(isActive, @)]
  IN /\ branches' = With(branches, b, branch)
     /\ branchTrail' = RecordAfter(branchTrail, b, branch)
     /\ UNCHANGED <<nextBranchId, departmentVars>>

\* mutant: a removal takes back the newest id
RemoveBranchTakesIdBack(b) ==
  /\ branches' = Without(branches, b)
  /\ branchTrail' = RecordRemoval(branchTrail, b)
  /\ nextBranchId' = nextBranchId - 1
  /\ UNCHANGED departmentVars

RemoveBranch(b) ==
  /\ branches' = Without(branches, b)
  /\ branchTrail' = RecordRemoval(branchTrail, b)
  /\ UNCHANGED <<nextBranchId, departmentVars>>

----------------------------------------------------------------------------
(* DepartmentsService.  A new department must state both fields. *)

CreateDepartment(branchId, isActive) ==
  LET department == [branchId |-> branchId, isActive |-> isActive]
  IN /\ nextDepartmentId <= MaxDepartmentId
     /\ departments' = With(departments, nextDepartmentId, department)
     /\ departmentTrail' = RecordAfter(departmentTrail, nextDepartmentId, department)
     /\ nextDepartmentId' = nextDepartmentId + 1
     /\ UNCHANGED branchVars

\* mutant: a move to another branch is not recorded
UpdateDepartmentUnrecorded(d, branchId, isActive) ==
  /\ departments' = With(departments, d,
                         [departments[d] EXCEPT !.branchId = Given(branchId, @),
                                                !.isActive = GivenFlag(isActive, @)])
  /\ UNCHANGED <<departmentTrail, nextDepartmentId, branchVars>>

UpdateDepartment(d, branchId, isActive) ==
  LET department == [departments[d] EXCEPT !.branchId = Given(branchId, @),
                                           !.isActive = GivenFlag(isActive, @)]
  IN /\ departments' = With(departments, d, department)
     /\ departmentTrail' = RecordAfter(departmentTrail, d, department)
     /\ UNCHANGED <<nextDepartmentId, branchVars>>

\* mutant: a removal takes back the newest id
RemoveDepartmentTakesIdBack(d) ==
  /\ departments' = Without(departments, d)
  /\ departmentTrail' = RecordRemoval(departmentTrail, d)
  /\ nextDepartmentId' = nextDepartmentId - 1
  /\ UNCHANGED branchVars

RemoveDepartment(d) ==
  /\ departments' = Without(departments, d)
  /\ departmentTrail' = RecordRemoval(departmentTrail, d)
  /\ UNCHANGED <<nextDepartmentId, branchVars>>

DirectoryNext ==
  \/ \E isActive \in DirectoryActiveInputs :
       \/ \E code \in BranchCodeInputs \ {Undefined, Null} : CreateBranch(code, isActive)
       \/ \E b \in DOMAIN branches, code \in BranchCodeInputs :
            UpdateBranch(b, code, isActive)
       \/ \E d \in DOMAIN departments, branchId \in BranchIdInputs :
            UpdateDepartment(d, branchId, isActive)
  \/ \E branchId \in BranchIdInputs \ {Null, Undefined},
        isActive \in DirectoryActiveInputs \ {Null, Undefined} :
       CreateDepartment(branchId, isActive)
  \/ \E b \in DOMAIN branches : RemoveBranch(b)
  \/ \E d \in DOMAIN departments : RemoveDepartment(d)

DirectorySpec == DirectoryInit /\ [][DirectoryNext]_directoryVars

----------------------------------------------------------------------------
\* The rows are well formed and sit under ids that were issued.
DirectoryTypeOK ==
  /\ nextBranchId \in 1..(MaxBranchId + 1)
  /\ DOMAIN branches \subseteq 1..(nextBranchId - 1)
  /\ branches \in [DOMAIN branches -> Branch]
  /\ nextDepartmentId \in 1..(MaxDepartmentId + 1)
  /\ DOMAIN departments \subseteq 1..(nextDepartmentId - 1)
  /\ departments \in [DOMAIN departments -> Department]

\* A department left behind by the removal of its branch never comes to
\* belong to a branch that is created later.
OrphanStaysOrphan ==
  [][\A d \in DOMAIN departments \cap DOMAIN departments' :
       (/\ departments[d].branchId \in (1..(nextBranchId - 1)) \ DOMAIN branches
        /\ departments'[d].branchId = departments[d].branchId)
       => departments'[d].branchId \notin DOMAIN branches']_directoryVars

\* "in-memory audit log for directory changes" (README.md:10): for branches and
\* departments the log replays to the rows as they are.
DirectoryAudited == branchTrail = branches /\ departmentTrail = departments

----------------------------------------------------------------------------
(* What the texts of the repository say and the code does not keep *)

\* 'Unique branch code' (create-branch.dto.ts)
UniqueBranchCodes ==
  \A b, c \in DOMAIN branches : branches[b].code = branches[c].code => b = c

=============================================================================
