SPECIFICATION Spec
CONSTANTS
  s1 = s1  s2 = s2  s3 = s3
  SevereExposure = 3
  SevereOverdueDays = 3
  MaxAutomatedActions = 3
  Sessions = {s1, s2, s3}
  Files <- FileChoices
  Folded <- Spellings
  LastDate = 1
CHECK_DEADLOCK FALSE
SYMMETRY Interchangeable
INVARIANTS ImportedOnce ReimportIsHarmless CasesFollowImports
