SPECIFICATION Spec
CONSTANTS
  laptop = laptop
  phone = phone
  p = p
  q = q
  Devices = {laptop, phone}
  Careful = {laptop}
  Operator = operator
  Pages = {p, q}
  Requests <- MCRequests
  Reads = {{p, q}}
  Overlap = FALSE
  Ttl = 1
  Grace = 0
  MaxOps = 4
  MaxPushes = 3
  MaxLeases = 1
  MaxFaults = 1
PROPERTIES NoUnseenOverwrite UndoTakesBackOnlyItsOwn
CHECK_DEADLOCK FALSE
