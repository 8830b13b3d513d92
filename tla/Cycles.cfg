SPECIFICATION FairReportSpec
CONSTANTS
  i1 = i1  i2 = i2  p1 = p1  p2 = p2  a1 = a1  a2 = a2  c1 = c1
  SevereExposure = 3
  SevereOverdueDays = 3
  MaxAutomatedActions = 3
  Invoices = {i1, i2}
  Promises = {p1}
  Original <- TwoOriginal
  IssueDate <- TwoIssue
  DueDate <- TwoDue
  LastDate = 3
  HighExposure = 2
  PromiseDaysMin = 1
  PromiseDaysMax = 2
  Strategic = FALSE
  Consent = "OPTED_IN"
  ChannelAvailable = TRUE
  Baseline <- Seeded
  MaxSecondary = 1
  Requests = {}
  ProviderStatuses = {"ACTIVE"}
  EventIds = {}
  PaymentRefs = {}
  Analyses = {}
  Communication <- NoAnalysis
  CommunicationDate <- NoAnalysis
  FactTypes <- NoAnalysis
  CandidateAmount <- NoAnalysis
  CandidateDate <- NoAnalysis
  RecentSignalDays = 1
  IntelligencePolicy <- SmallThresholds
  BaselineActivity <- SeededActivity
  ResultLimits = {1}
  WorkRows <- SomeRows
INVARIANTS TypeOK BalanceConserved StoredFulfilmentIsReal CycleFindsAnEvent ReportsAgree AdviceAgrees ProposalsAreCreatable PlansAccountForEveryCase RemindersAreGrounded
PROPERTIES PromiseMonitoringEnds DocumentsProtected CohortIsStable SettledCustomerIsCalm
