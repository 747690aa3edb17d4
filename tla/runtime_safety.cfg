SPECIFICATION Spec
CONSTANTS
  Threads = {t1, t2}
  Opers = {o1}
  Requests = {r1, r2}
  PoolSize = 1
  AppMayRaise = TRUE
  None = None
  t1 = t1
  t2 = t2
  o1 = o1
  r1 = r1
  r2 = r2
SYMMETRY Symmetry
INVARIANTS
  TypeOK
  Custody
  HandledOnce
  RequestLife
  StopLeavesNoWaiter
PROPERTY
  ImplementsAgentCall
