SPECIFICATION Spec
CONSTANTS
  i1 = i1  i2 = i2  p1 = p1  p2 = p2  a1 = a1  a2 = a2  c1 = c1
  SevereExposure = 3
  SevereOverdueDays = 3
  MaxAutomatedActions = 3
  Invoices = {i1}
  Promises = {p1}
  Original <- OneOriginal
  IssueDate <- OneIssue
  DueDate <- OneDue
  LastDate = 2
  HighExposure = 2
  PromiseDaysMin = 1
  PromiseDaysMax = 2
  Strategic = FALSE
  Consent = "OPTED_IN"
  ChannelAvailable = TRUE
  Baseline <- Seeded
  MaxSecondary = 0
  Requests = {1}
  ProviderStatuses = {"ACTIVE"}
  EventIds = {1}
  PaymentRefs = {1}
  Analyses = {}
  Communication <- NoAnalysis
  CommunicationDate <- NoAnalysis
  FactTypes <- NoAnalysis
  CandidateAmount <- NoAnalysis
  CandidateDate <- NoAnalysis
  RecentSignalDays = 1
PROPERTIES DisputeOutlivesPayment
