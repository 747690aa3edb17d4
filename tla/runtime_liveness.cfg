SPECIFICATION FairSpec
CONSTANTS
  Threads = {t1, t2}
  Opers = {o1}
  Requests = {r1}
  PoolSize = 1
  AppMayRaise = FALSE
  None = None
  t1 = t1
  t2 = t2
  o1 = o1
  r1 = r1
PROPERTIES
  EveryCallAnswered
  StoppedAppQuiesces
  RunningAppServes
