SPECIFICATION Spec
CONSTANTS
  Ids = {i1, i2}
  Versions = {v1, v2}
  Namespaces = {n1, n2}
  MetaSizes = {1}
  BodySizes = {1}
  MaxResidentPages = 1
  MaxResidentBytes = 2
  MaxPinnedPages = 1
  MaxPinnedBytes = 2
  MaxPageBytes = 2
  MaxGhostEntries = 1
  MaxGhostBytes = 1
  MaxShadowEntries = 2
  MaxShadowBytes = 2
  ShadowUseHorizon = 1
SYMMETRY Symmetry
INVARIANTS
  EstimatorsExact
  ShadowsConserved
PROPERTIES
  VerdictsMeetTheirPage
