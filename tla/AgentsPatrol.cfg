\* Two agents, one of them watched, and rounds of the patrol that are
\* interrupted between any two of their accesses.
SPECIFICATION AgentSpec
CONSTANTS
  MaxKeywords = 2
  AgMax = 1
  AgMaxQueues = 1
  AgDepth = 1
  AgPeriods = {1}
  AgRunners = {r1}
  AgPatrolEvery = 2
  AgWord = 8
  AgStart = 6
  AgMaxTime = 12
  AgWords = {}
  NoAgent = NoAgent
PROPERTIES FoundIsStalled
