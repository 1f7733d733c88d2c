CONSTANTS
  red = red
  blue = blue
  empty = empty
  Address <- MCAddress
  Cccd <- MCCccd
  EmptyCccd = empty
  Time <- MCTime
  NoIdentity = NoIdentity
  GovAuthority = GovAuthority
  Client = {client}
  AnyHash = AnyHash
  NoKey = NoKey
  Limits = {1, 2}
CHECK_DEADLOCK FALSE
SPECIFICATION FairSpec
INVARIANTS
  TypeOK
  KeyPagesAreExact
  OffsetPagesMissNothing
PROPERTIES
  ReadingEnds
