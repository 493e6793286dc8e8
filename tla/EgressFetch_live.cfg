CONSTANTS
  p1 = p1
  p2 = p2
  q1 = q1
  q2 = q2
  Procs = {p1, p2}
  Requests = {q1}
  Owner <- OneFetch
  Receipts <- FetchReceipts
  None = None
  MaxFaults = 1
  MaxInterventions = 1
SPECIFICATION FairSpec
INVARIANTS NoDialWithoutReceipt EvidenceCausal
PROPERTIES EveryFetchEnds EveryCallerAnswered
