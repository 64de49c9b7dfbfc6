SPECIFICATION Spec
CONSTANTS
  Requests = {r1, r2}
  Nobody = Nobody
  Earlier = Earlier
  MaxNext = 5
INVARIANTS
  OneExchangeAtATime
  ShownTurnsAreKept
  TranscriptIsWhole
PROPERTIES
  RecordStays
  LockIsLetGo
CHECK_DEADLOCK FALSE
