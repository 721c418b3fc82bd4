\* Two goroutines and two commands over two connections, one loss; then
\* losses end, calls return and the agent is connected again.
\* Between losses and calls the system may rest: bounds make it stop there.
CHECK_DEADLOCK FALSE
SPECIFICATION FairSpec
CONSTANTS
  Callers = {h1, h2}
  Conns = {c1, c2}
  MaxCmds = 2
  MaxLosses = 1
INVARIANTS
  TypeOK
  HubFieldsAreTrue
PROPERTIES
  ImplementsRouterCalls
  EveryCallReturns
  
  AgentIsUsed
