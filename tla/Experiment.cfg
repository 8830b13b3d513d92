SPECIFICATION Spec
CONSTANTS
  SevereExposure = 5
  SevereOverdueDays = 4
  MaxAutomatedActions = 3
  HorizonDays = 5
  BaselineCadence = 3
  ActionCadence = 2
  AssociationWindow = 2
  CooldownDays = 1
  PromiseCount = 2
  Fractions = {40}
  Sources <- Cohort
CHECK_DEADLOCK FALSE
INVARIANTS ArmReconciles AssociationIsEarned SameWorld NaturalPaymentsArePaired
PROPERTIES HoldsAreKept
