\* Two branches are given the same code.
CONSTANTS
  Undefined = Undefined
  Null = Null
  BranchCodeInputs <- MCBranchCodes
  BranchIdInputs <- MCBranchIds
  DirectoryActiveInputs <- MCFlags
  MaxBranchId = 3
  MaxDepartmentId = 2
\* every id the bounds allow may be issued and removed again
CHECK_DEADLOCK FALSE
SPECIFICATION DirectorySpec
INVARIANTS
  UniqueBranchCodes
