SPECIFICATION FairSpec
CONSTANTS
  Person = {p1, p2}
  Review = {r1, r2}
  Evaluator = {e1, e2}
  Resolver = {q1}
  Leader = {l1}
  Outcome = {"missing_factor"}
  None = None
PROPERTIES
  TransactionsEnd
CHECK_DEADLOCK FALSE
