\* A node whose type is null takes its children out of the tree of categories.
CONSTANTS
  Undefined = Undefined
  Null = Null
  VS = VS
  TS = TS
  a = a
  b = b
  c = c
  CodeInputs <- MCAnyCodes
  TypeInputs <- MCAnyTypes
  ParentInputs <- MCAnyParents
  ActiveInputs <- MCAnyActive
  MaxServiceId = 4
SPECIFICATION CatalogSpec
INVARIANTS
  ParentsAreCategories
