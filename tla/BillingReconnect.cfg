\* An overdue customer pays.
SPECIFICATION FairSpec
CONSTANTS
  Subs = {s1}
  PPPoESubs = {s1}
  IPSubs = {}
  Plans = {basic}
  Unpaid = unpaid
  Graces = {0}
  Handlers = {h1}
  Cron = cron
  Month = 2
  MaxNow = 3
  DBFails = FALSE
  RouterFails = FALSE
  Payments = {p1}
  Failing = {}
  MayEdit = FALSE
  MaxCrashes = 0
PROPERTY
  PaidIsReconnected
