\* One request about one ticket, every adversity a single run can meet, two crashes.
SPECIFICATION Spec
CONSTANTS
  t1 = t1
  t2 = t2
  r1 = r1
  r2 = r2
  r3 = r3
  Tickets = {t1}
  Runs = {r1}
  TicketOf <- SameTicket
  None = None
  MaxActive = 1
  Hazards = {"edit", "wedged", "spawnloss"}
  Patches = {"closed", "planned"}
  MaxCrashes = 2
PROPERTIES SettledIsFinal RowsSettle
CHECK_DEADLOCK FALSE
