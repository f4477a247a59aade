\* Two screens whose loads of two keys overlap while the entry comes and expires.
CONSTANTS
  Undefined = Undefined
  Null = Null
  s1 = s1
  s2 = s2
  k1 = k1
  k2 = k2
  Screens <- MCScreens
  Keys <- MCKeys
  TtlMs = 2
  NaN = NaN
  MaxTime = 4
SPECIFICATION TvSpec
SYMMETRY MCSymmetry
INVARIANTS
  TvTypeOK
  ServedWithinTtl
PROPERTIES
  ScreenLag
