\* A pause after which rate times the time does not fit 32 bits.
SPECIFICATION FirewallSpec
CONSTANTS
  FwCmds = {1}
  FwSrcs = {1}
  FwLens = {1}
  FwRates = {3}
  FwBursts = {1}
  FwDefaultRate = 2
  FwDefaultBurst = 1
  FwRuleSlots = 1
  FwUnit = 2
  FwWord = 8
  FwMaxTime = 6
  FwMaxChecks = 2
PROPERTIES RefillsWhatIsDue
CHECK_DEADLOCK FALSE
