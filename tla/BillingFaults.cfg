\* One request, the overdue check, edits; statements, router commands
\* and the process may fail.
SPECIFICATION Spec
CONSTANTS
  Subs = {s1}
  PPPoESubs = {s1}
  IPSubs = {s1}
  Plans = {basic, fast}
  Unpaid = unpaid
  Graces = {0}
  Handlers = {h1}
  Cron = cron
  Month = 2
  MaxNow = 3
  DBFails = TRUE
  RouterFails = TRUE
  Payments = {p1}
  Failing = {}
  MayEdit = TRUE
  MaxCrashes = 1
INVARIANTS
  NeverOverCredited
  
  QueueIdIsReal
  OneNoticePerDisconnection
