\* Three nodes below the roots: cycles of every length need moves that conflict.
CONSTANTS
  Undefined = Undefined
  Null = Null
  VS = VS
  TS = TS
  a = a
  b = b
  c = c
  CodeInputs <- MCTreeCodes
  TypeInputs <- MCTreeTypes
  ParentInputs <- MCParentIds
  ActiveInputs <- MCTreeActive
  MaxServiceId = 5
SPECIFICATION CatalogSpec
SYMMETRY MCTreeSymmetry
INVARIANTS
  CatalogTypeOK
  Forest
  DescendantWalk
  ServicesAreLeaves
