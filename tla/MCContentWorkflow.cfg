SPECIFICATION Spec
CONSTANTS
  Words = {w1, w2}
  NoWords = NoWords
  Requests = {r1, r2}
  Production = TRUE
  MaxVersion = 4
INVARIANTS
  PublishedVectorIsFresh
PROPERTIES
  HistoryIsWhole
  DecidedOnWhatWasRead
  ShownIsAdmins
  FilesKnowTheirPlace
SYMMETRY Symmetry
VIEW View
CHECK_DEADLOCK FALSE
