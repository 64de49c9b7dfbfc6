SPECIFICATION Spec
CONSTANTS
  t1 = t1  t2 = t2  java = java  b1 = b1  b2 = b2
  technical = technical  behavioral = behavioral  spring = spring
  Questions = {t1, t2, java, b1, b2}
  Types = {technical, behavioral}
  TypeOf <- MCTypeOf
  Stacks = {spring}
  StacksOf <- MCStacksOf
  None = None
  Supported <- MCSupported
  Budgets = {1, 2}
  RecentSessions = 2
  HistorySessions = 2
  Kept = 1
INVARIANTS
  MixedAndFull
  RepeatsAreSpaced
SYMMETRY Symmetry
CHECK_DEADLOCK FALSE
