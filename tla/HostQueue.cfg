\* Three threads that send and receive, a ring of two places.
SPECIFICATION Spec
CONSTANTS
  Threads = {t1, t2, t3}
  Messages = {a, b}
  Max = 2
  None = None
INVARIANTS TypeOK NoLostWakeup
PROPERTY ImplementsFifo
