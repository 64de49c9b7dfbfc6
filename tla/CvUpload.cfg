SPECIFICATION Spec
CONSTANTS
  Uploads = {u1, u2}
  Confirms = {c1, c2}
  Removes = {d}
  NoFile = NoFile
  Attempts = 2
  MaxFaults = 1
INVARIANTS RowAndFilesAgree ParsedIsOfTheCv
PROPERTIES CorrectionsStay ReadInTheEnd
CHECK_DEADLOCK FALSE
