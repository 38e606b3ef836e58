\* An accelerator registered after the start does not run anything.
SPECIFICATION KernelSpec
CONSTANTS
  FwCmds = {1}
  FwSrcs = {1}
  FwLens = {1, 2}
  FwRates = {3}
  FwBursts = {0, 3}
  FwDefaultRate = 2
  FwDefaultBurst = 1
  FwRuleSlots = 1
  FwUnit = 2
  FwWord = 4
  FwMaxTime = 5
  FwMaxChecks = 2
  Accelerators = {npu, dsp}
  HostSim = HostSim
  NpuSlots = 2
  WdModels = {w1}
  WdPeriods = {1}
  WdSlots = 2
  BootCmds = {1}
  BootPayload = 2
INVARIANT RegisteredAcceleratorRuns
CHECK_DEADLOCK FALSE
