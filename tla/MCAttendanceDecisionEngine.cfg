SPECIFICATION Spec
CONSTANTS
  Person = {p1}
  Review = {r1, r2}
  Evaluator = {e1}
  Resolver = {q1}
  Leader = {l1}
  Outcome = {"missing_factor", "missing_exit", "present", "absent"}
  None = None
PROPERTIES
  EngineNeverOverwritesDecision
CHECK_DEADLOCK FALSE
