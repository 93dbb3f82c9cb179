SPECIFICATION FairSpec
CONSTANTS
  SubAgent = SubAgent
  TrapAgent = TrapAgent
  RETRIES = 3
INVARIANTS SessionUnlessMasterEnded
PROPERTIES
  RetriesAreSpent
  SubAgentRecovers
  TrapAgentRecovers
