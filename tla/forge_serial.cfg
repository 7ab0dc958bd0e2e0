\* One ticket, requests one at a time, agents that die when killed, one crash.
SPECIFICATION Spec
CONSTANTS
  t1 = t1
  t2 = t2
  r1 = r1
  r2 = r2
  r3 = r3
  Tickets = {t1}
  Runs = {r1, r2}
  TicketOf <- SameTicket
  None = None
  MaxActive = 2
  Hazards = {}
  Patches = {"closed"}
  MaxCrashes = 1
SYMMETRY Interchangeable
INVARIANTS RunInv OneRunPerTicket SoleWorker EditsSaved NeverStuck Recoverable ChecksOver
           AgentsWatched
CHECK_DEADLOCK FALSE
