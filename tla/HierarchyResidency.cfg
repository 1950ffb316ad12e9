SPECIFICATION Spec
CONSTANTS
  Ids = {i1, i2, i3}
  Versions = {v1}
  Namespaces = {n1}
  MetaSizes = {1, 2}
  BodySizes = {1}
  MaxResidentPages = 2
  MaxResidentBytes = 4
  MaxPinnedPages = 1
  MaxPinnedBytes = 2
  MaxPageBytes = 3
  MaxGhostEntries = 0
  MaxGhostBytes = 0
  MaxShadowEntries = 0
  MaxShadowBytes = 0
  ShadowUseHorizon = 0
SYMMETRY Symmetry
INVARIANTS
  OrderIsResidents
  CapsHold
  AccountsBalance
  EmptiedBodiesMiss
PROPERTIES
  EasyVictimsFirst
