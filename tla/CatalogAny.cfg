\* Two nodes below the roots and every value a request may carry.
CONSTANTS
  Undefined = Undefined
  Null = Null
  VS = VS
  TS = TS
  a = a
  b = b
  c = c
  CodeInputs <- MCAnyCodes
  TypeInputs <- MCAnyTypes
  ParentInputs <- MCAnyParents
  ActiveInputs <- MCAnyActive
  MaxServiceId = 4
SPECIFICATION CatalogSpec
INVARIANTS
  UniqueCodes
  PlacementAudited
