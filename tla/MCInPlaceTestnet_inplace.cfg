SPECIFICATION Spec
CONSTANTS
    Operator <- MCOperator
    Cons <- MCCons
    Keys <- MCKeys
    UserKey = "user"
    None = None
    valVotingPower = 4
    ShareRate = 2
    CometPower = 8
    MaxTokens = 3
    MaxRuns = 2
INVARIANTS
    TypeOK
    ChainGoesOn
    SetsAgree
