\* Two requests decide the same payment.
SPECIFICATION Spec
CONSTANTS
  Subs = {s1}
  PPPoESubs = {s1}
  IPSubs = {s1}
  Plans = {basic}
  Unpaid = unpaid
  Graces = {0}
  Handlers = {h1, h2}
  Cron = cron
  Month = 2
  MaxNow = 3
  DBFails = FALSE
  RouterFails = FALSE
  Payments = {p1}
  Failing = {}
  MayEdit = FALSE
  MaxCrashes = 0
PROPERTY
  DecidedOnce
