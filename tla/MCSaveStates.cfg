SPECIFICATION AppSpec
CONSTANTS
  MaxOps = 2
  MaxOthers = 1
INVARIANTS
  AppTypeOK
  ReportedOnce
  CallbackOwned
  ContinuousEnds
  KillOnce
  AnswerIsTrue
PROPERTIES
  SuccessIsTrue
  OperationEnds
  StopHonoured
  CallsReturn
CHECK_DEADLOCK FALSE
