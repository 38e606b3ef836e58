\* One thread runs a model, another swaps it.
SPECIFICATION Spec
CONSTANTS
  Models = {m1}
  Submitters = {}
  SyncCallers = {t1}
  Cancellers = {}
  Admins = {t2}
  Workers = {}
  MaxAsync = 1
  GateCapacity = 1
  CancelSlots = 0
  MaxRestarts = 0
  NoModel = NoModel
  NoGate = NoGate
INVARIANT SwapNeverTearsRun
