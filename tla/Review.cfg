SPECIFICATION Spec
CONSTANTS
  i1 = i1  i2 = i2  p1 = p1  p2 = p2  a1 = a1  a2 = a2  c1 = c1
  SevereExposure = 3
  SevereOverdueDays = 3
  MaxAutomatedActions = 3
  Invoices = {i1}
  Promises = {p1, p2}
  Original <- OneOriginal
  IssueDate <- OneIssue
  DueDate <- OneDue
  LastDate = 1
  HighExposure = 2
  PromiseDaysMin = 1
  PromiseDaysMax = 2
  Strategic = FALSE
  Consent = "OPTED_IN"
  ChannelAvailable = TRUE
  Baseline <- Seeded
  MaxSecondary = 1
  Requests = {r1, r2}
  ProviderStatuses = {"ACTIVE"}
  EventIds = {e1, e2}
  PaymentRefs = {f1, f2}
  Analyses = {a1, a2}
  Communication <- TwoAnalysesOf
  CommunicationDate <- TwoAnalysesDate
  FactTypes <- ReviewFacts
  CandidateAmount <- TwoAnalysesAmount
  CandidateDate <- TwoAnalysesPromised
  RecentSignalDays = 0
SYMMETRY PaymentSymmetry
INVARIANTS RequestAccounting EventsAppliedOnce CaseStatesCurrent
PROPERTIES ResolvedStaysResolved RequestsOnlyWhenRecoverable
