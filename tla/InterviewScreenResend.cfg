SPECIFICATION ScreenSpec
CONSTANTS
  Tabs = {t1}
  NoTab = NoTab
  MaxTurns = 4
PROPERTIES
  AnswersAreToWhatWasSeen
CHECK_DEADLOCK FALSE
