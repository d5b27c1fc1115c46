SPECIFICATION Spec
CONSTANT
  DayLength = 6
INVARIANTS
  QuietIsTheDailyWindow
  ResumeIsFirstLoudInstant
CHECK_DEADLOCK FALSE
