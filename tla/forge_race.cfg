\* Requests that overlap, about two tickets, with a cap of one.
SPECIFICATION Spec
CONSTANTS
  t1 = t1
  t2 = t2
  r1 = r1
  r2 = r2
  r3 = r3
  Tickets = {t1, t2}
  Runs = {r1, r3}
  TicketOf <- TwoTickets
  None = None
  MaxActive = 1
  Hazards = {"overlap"}
  Patches = {}
  MaxCrashes = 0
INVARIANTS CapRespected
CHECK_DEADLOCK FALSE
