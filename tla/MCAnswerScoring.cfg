SPECIFICATION ScoringSpec
CONSTANTS
  Criteria = {0, 1, 2}
  Rubrics <- MCRubrics
  Others <- MCOthers
  Tips = {"shorter", "numbers"}
  Topics = {"sql", "http"}
  MaxFollowUps = 2
  MaxAttempts = 3
  Highlights = 2
INVARIANTS
  ScoreIsFair
  ReportAddsUp
CHECK_DEADLOCK FALSE
