CONSTANTS
  p1 = p1
  p2 = p2
  q1 = q1
  q2 = q2
  Procs = {p1}
  Requests = {q1}
  Owner <- OneFetch
  Receipts <- FetchReceipts
  None = None
  MaxFaults = 0
  MaxInterventions = 0
SPECIFICATION Spec
PROPERTIES ErroredIsNotDelivered
