SPECIFICATION Spec
CONSTANTS
  None = None
  MaxEntries = 2
  CacheTtl = 3
  DedupWindow = 2
  Keys = {k1, k2, k3}
  Responses = {r1, r2}
  MaxTime = 5
  MaxUses = 4
SYMMETRY Interchangeable
INVARIANTS
  TypeOK
  HitsAreFresh
  Retention
