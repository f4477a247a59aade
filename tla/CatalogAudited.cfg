\* An update that fails on its new parent leaves its code and its type behind.
CONSTANTS
  Undefined = Undefined
  Null = Null
  VS = VS
  TS = TS
  a = a
  b = b
  c = c
  CodeInputs <- MCAnyCodes
  TypeInputs <- MCAnyTypes
  ParentInputs <- MCAnyParents
  ActiveInputs <- MCAnyActive
  MaxServiceId = 4
SPECIFICATION CatalogSpec
INVARIANTS
  CatalogAudited
