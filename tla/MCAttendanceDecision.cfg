SPECIFICATION Spec
CONSTANTS
  Person = {p1}
  Review = {r1, r2, r3}
  Evaluator = {e1, e2}
  Resolver = {q1, q2}
  Leader = {l1}
  Outcome = {"missing_factor", "missing_exit", "present", "absent"}
  None = None
SYMMETRY Symmetry
INVARIANTS
  TypeOK
  OneOpenReviewPerReason
  PendingHasOpenReview
  ResolutionStaysRecorded
CHECK_DEADLOCK FALSE
