\* MarkOverdue always fails for s1; s2 must be noticed all the same.
SPECIFICATION FairSpec
CONSTANTS
  Subs = {s1, s2}
  PPPoESubs = {s2}
  IPSubs = {}
  Plans = {basic}
  Unpaid = unpaid
  Graces = {0}
  Handlers = {h1}
  Cron = cron
  Month = 2
  MaxNow = 3
  DBFails = FALSE
  RouterFails = FALSE
  Payments = {p1}
  Failing = {s1}
  MayEdit = FALSE
  MaxCrashes = 0
PROPERTY
  LateIsNoticed
