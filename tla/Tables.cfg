\* Tasks: three slots, two priorities, and the last tick among the deadlines.
\* Tensors: any order of frees; four objects for room for five tensors.
\* Weights: two slots; the area is full after two long models, the table after
\* two short ones.
SPECIFICATION TablesSpec
CONSTANTS
  TaskCount = 3
  Priorities = {0, 1}
  Deadlines = {1, 2}
  MaxTick = 2
  PoolBytes = 112
  MaxTensors = 4
  TensorSizes = {0, 8, 9, 24}
  Word = 1024
  PersistBytes = 6
  WeightAlign = 2
  MaxModels = 2
  WeightSizes = {1, 2, 3}
  Fillings = {x, y}
  Garbage = Garbage
INVARIANTS
  TablesTypes ChosenIsBest LiveDisjoint LiveBelowTop CountIsLive ZeroFragmentation
  WeightsIntact NoFalseAlarm
