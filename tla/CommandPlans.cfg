SPECIFICATION FairSpec
CONSTANTS
  q1 = q1  q2 = q2  NoSelection = NoSelection  NoAnswer = NoAnswer
  Plans = {q1}
  Proposed <- OnePlan
  Works = {1, 2}
  Sessions = {"s1", "s2"}
  MaxPlans = 1
  MaxRestarts = 2
  MaxResets = 1
  SeedInPast = TRUE
  ResetRaces = FALSE
CHECK_DEADLOCK FALSE
INVARIANTS TypeOK IssuedPlanIsFound
PROPERTIES ConfirmsOnce ConfirmationCompletes
