\* A stop while the review winds up.
SPECIFICATION Spec
CONSTANTS
  t1 = t1
  t2 = t2
  r1 = r1
  r2 = r2
  r3 = r3
  Tickets = {t1}
  Runs = {r1}
  TicketOf <- SameTicket
  None = None
  MaxActive = 1
  Hazards = {}
  Patches = {}
  MaxCrashes = 0
INVARIANTS StopLands
CHECK_DEADLOCK FALSE
