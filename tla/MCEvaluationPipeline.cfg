SPECIFICATION Spec
CONSTANTS
  Questions <- MCQuestions
  Attempts = 2
  Slots = {s1, s2}
  MaxFaults = 2
CONSTRAINT Few
INVARIANTS CompletedIsComplete
PROPERTIES OnlySharedRescore ReportInTheEnd
CHECK_DEADLOCK FALSE
