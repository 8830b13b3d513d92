SPECIFICATION Spec
CONSTANTS
  Free = Free
  Invoices = {1}
  Original <- OneOriginal
  Requests = {1}
  InvoiceOf <- OneInvoice
  Requested <- OneRequested
  Messages = {1, 2}
  Message <- TwoMessages
  Sessions = {"s1", "s2"}
  CycleAmounts = {2}
  MaxCrashes = 0
INVARIANTS NoPaymentLost
CHECK_DEADLOCK FALSE
