CONSTANTS
  v1 = v1
  v2 = v2
  a = a
  b = b
  NoStart = NoStart
  Validator <- MCValidator
  Delegator <- MCDelegator
  Operator <- MCOperator
  Unit = 8
  Stake = 4
  Shared = 14
  Commission = 9
  MaxHeight = 2
  MaxOps = 3
CHECK_DEADLOCK FALSE
SPECIFICATION Spec
INVARIANTS
  TypeOK
  Backed
  References
  ChainGoesOn
  NoFutureHeights
  FailsForUnlistedOnly
PROPERTIES
  DuePaid
