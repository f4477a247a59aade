\* Two departments in turn, two catalog nodes in turn and the links between
\* them, while the departments and the nodes come, change and go.
CONSTANTS
  Undefined = Undefined
  Null = Null
  VS = VS
  TS = TS
  a = a
  b = b
  CodeInputs <- MCOneCode
  TypeInputs <- MCTypes
  ParentInputs <- MCParents
  ActiveInputs <- MCAbsent
  MaxServiceId = 4
  BranchCodeInputs <- MCOneBranchCode
  BranchIdInputs <- MCParents
  DirectoryActiveInputs <- MCOff
  MaxBranchId = 0
  MaxDepartmentId = 2
  Channels = {"booking"}
  LinkActiveInputs <- MCOff
  ChannelInputs <- MCFlags
  MaxLinkId = 3
SPECIFICATION OfferSpec
INVARIANTS
  LinksTypeOK
  OneLinkPerPair
  LinksAudited
PROPERTIES
  DanglingStaysDangling
