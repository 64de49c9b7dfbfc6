SPECIFICATION Spec
CONSTANTS
  NumQuestions = 3
  QuestionBudget = 3
  MaxFollowUps = 2
  PlannedFollowUps <- MCPlannedFollowUps
  Readings <- MCReadings
  MaxSeq = 8
INVARIANTS
  TranscriptIsWhole
  FollowUpsAreEarned
  ConversationInOrder
  RestIsRestorable
PROPERTIES
  EndsForGood
  NothingStartedWithoutRoom
  NoQuestionIsDropped
  ClockIsObeyed
  ImplementsSession
CHECK_DEADLOCK FALSE
