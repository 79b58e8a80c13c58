SPECIFICATION Spec
CONSTANTS
  Area = {r1, r2, r3}
  Category = {c1, c2}
  Tag = {t1}
  Scan = {s1}
  Instant = {1, 2}
  MaxGrants = 2
  None = None
SYMMETRY Symmetry
INVARIANTS
  TypeOK
  AuthorizedIsPermitted
  EntitledIsNoIntruder
CHECK_DEADLOCK FALSE
