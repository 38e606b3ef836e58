\* The client frees in any order.
SPECIFICATION TensorSpec
CONSTANTS
  PoolBytes = 112
  MaxTensors = 4
  TensorSizes = {8}
  Word = 1024
INVARIANT IdleAreaIsFree
