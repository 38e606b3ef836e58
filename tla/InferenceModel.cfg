\* Two threads run two models, cancel them and, one of them, manage them.
SPECIFICATION FairSpec
CONSTANTS
  Models = {m1, m2}
  Submitters = {}
  SyncCallers = {t1, t2}
  Cancellers = {t1, t2}
  Admins = {t1}
  Workers = {}
  MaxAsync = 1
  GateCapacity = 1
  CancelSlots = 2
  MaxRestarts = 0
  NoModel = NoModel
  NoGate = NoGate
INVARIANTS RunningHasExecutor MarksAsked
PROPERTY BusyEnds
