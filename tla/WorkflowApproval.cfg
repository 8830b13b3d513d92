SPECIFICATION Spec
CONSTANTS
  SevereExposure = 3
  SevereOverdueDays = 3
  MaxAutomatedActions = 3
  Actions = {"a1"}
  Sessions = {"s1", "s2"}
  Views <- TwoViews
  Interleaved = TRUE
  CooldownDays = 1
  LastDay = 0
INVARIANTS ApprovedBeforeExecuted
