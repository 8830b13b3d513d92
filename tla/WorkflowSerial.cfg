SPECIFICATION Spec
CONSTANTS
  SevereExposure = 3
  SevereOverdueDays = 3
  MaxAutomatedActions = 3
  Actions = {"a1", "a2"}
  Sessions = {"s1"}
  Views <- AllViews
  Interleaved = FALSE
  CooldownDays = 1
  LastDay = 1
INVARIANTS TypeOK ExecutedOnce OneActionPerRecommendation
PROPERTIES StoppedNeverExecutes ExecutesCurrentRecommendation
