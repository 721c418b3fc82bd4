\* A database statement of an approval fails.
SPECIFICATION Spec
CONSTANTS
  Subs = {s1}
  PPPoESubs = {s1}
  IPSubs = {}
  Plans = {basic}
  Unpaid = unpaid
  Graces = {0}
  Handlers = {h1}
  Cron = cron
  Month = 2
  MaxNow = 3
  DBFails = TRUE
  RouterFails = FALSE
  Payments = {p1}
  Failing = {}
  MayEdit = FALSE
  MaxCrashes = 0
INVARIANT
  EveryApprovalCredited
