SPECIFICATION FairSpec
CONSTANTS
  Free = Free
  Invoices = {1}
  Original <- OneOriginal
  Requests = {1}
  InvoiceOf <- OneInvoice
  Requested <- OneRequested
  Messages = {1, 2, 3}
  Message <- ThreeMessages
  Sessions = {"s1", "s2"}
  CycleAmounts = {4}
  MaxCrashes = 1
INVARIANTS AppliedOnce PaidIsReceived
PROPERTIES MessagesAreAnswered
CHECK_DEADLOCK FALSE
