\* One part at a time; one failed statement or kill during starts.
\* A part that has used up its bounds rests.
CHECK_DEADLOCK FALSE
SPECIFICATION FairSpec
CONSTANTS
  Procs = {p1, p2}
  Newest = 4
  SubsVersion = 2
  Typed = {1, 2}
  Repeatable = {4}
  Refs <- MCRefs
  MaxFaults = 1
  Handlers = {h1, h2}
  OTPs = {otp1, otp2}
  otpRateLimit = 2
  otpWindow = 2
  otpExpiry = 1
  MaxCodes = 4
  MaxTime = 3
  hostA = hostA
  hostB = hostB
  adminX = adminX
  adminY = adminY
  Hosts = {hostA, hostB}
  Logins = {adminX, adminY}
  Empty = ""
  None = None
  Environment <- MCEnvironment
  MaxSaves = 3
  MaxCmds = 3
  Recipients = {c1, c2}
  MaxBatches = 2
INVARIANTS
  TypeOK
  CodesPerHour
  OneSessionPerCode
  
  CommandsAreKept
  HistoryIsTrue
PROPERTIES
  WipeHasACause
  ServesUnlessTorn
