\* Three branches and three departments in turn, so that a branch is removed
\* and another created while a department still names the first.
CONSTANTS
  Undefined = Undefined
  Null = Null
  BranchCodeInputs <- MCBranchCodes
  BranchIdInputs <- MCBranchIds
  DirectoryActiveInputs <- MCFlags
  MaxBranchId = 3
  MaxDepartmentId = 2
\* every id the bounds allow may be issued and removed again
CHECK_DEADLOCK FALSE
SPECIFICATION DirectorySpec
INVARIANTS
  DirectoryTypeOK
  DirectoryAudited
PROPERTIES
  OrphanStaysOrphan
