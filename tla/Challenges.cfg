CONSTANTS
  d1 = d1
  lower = lower
  upper = upper
  v1 = v1
  v2 = v2
  Domains = {d1}
  Names = {lower, upper}
  Values = {v1, v2}
  CaseFold <- MCCaseFold
  MAX_LEN = 3
SPECIFICATION Spec
SYMMETRY Symmetry
INVARIANTS TypeOK Kept NothingElse AllPlaced
