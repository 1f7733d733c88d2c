\* A registered account registers once more under its other spelling.
SPECIFICATION Spec
CONSTANTS
    Account <- MCAccount
    Small <- MCSmall
    Capital <- MCCapital
    Address <- MCAddress
    Cccd = {"none", "c1", "c2"}
    EmptyCccd = "none"
    Time = {1}
    NoIdentity = NoIdentity
    GovAuthority = "gov"
INVARIANTS
    OneIdentityPerAddress
CHECK_DEADLOCK FALSE
