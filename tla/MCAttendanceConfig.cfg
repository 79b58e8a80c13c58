SPECIFICATION Spec
CONSTANTS
  Admin = {a1, a2}
  ConfigId = {i1, i2}
  Rules = {v1, v2}
  Factor = {f1}
  Session = {s1}
  MaxSaves = 3
  None = None
SYMMETRY Symmetry
INVARIANTS
  TypeOK
  ResolvesMostSpecific
  SameRulesEveryTime
  FactorsAreLastSaved
CHECK_DEADLOCK FALSE
