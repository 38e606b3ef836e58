\* Two application threads over a gate of one permit: both submit, one also
\* cancels, the other also manages the model.  The scheduler is shut down and
\* started again under requests in flight and under a wait for the permit.
SPECIFICATION FairSpec
CONSTANTS
  Models = {m1}
  Submitters = {s1, s2}
  SyncCallers = {}
  Cancellers = {s1}
  Admins = {s2}
  Workers = {w1, w2}
  MaxAsync = 1
  GateCapacity = 2
  CancelSlots = 1
  MaxRestarts = 1
  NoModel = NoModel
  NoGate = NoGate
INVARIANTS TypeOK PermitConservation AsyncLimit
PROPERTIES PermitsReturn RequestsAnswered ImplementsService
