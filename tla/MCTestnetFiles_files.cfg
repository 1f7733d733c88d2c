CONSTANTS
  MaxValidators = 3
  MaxRuns = 2
  ChainIds = {c1, c2}
  StakeLists <- MCStakeLists
  NotANumber = NotANumber
  DefaultStake = 1
  Tokens = 5
  None = None
  Broken = Broken
CHECK_DEADLOCK FALSE
SPECIFICATION FilesSpec
INVARIANTS
  FilesTypeOK
  SameRunSameGenesis
  SuccessMeansReady
  NoValidatorMissing
