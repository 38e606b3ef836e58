\* A canceller and a runner; a slot keeps the handle of its last use.
SPECIFICATION Spec
CONSTANTS
  Models = {m1, m2}
  Submitters = {}
  SyncCallers = {t1}
  Cancellers = {t2}
  Admins = {}
  Workers = {}
  MaxAsync = 1
  GateCapacity = 1
  CancelSlots = 1
  MaxRestarts = 0
  NoModel = NoModel
  NoGate = NoGate
INVARIANT CancelHitsItsModel
