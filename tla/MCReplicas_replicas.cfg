CONSTANTS
  alice = alice
  ica = ica
  card = card
  empty = empty
  p1 = p1
  n1 = n1
  n2 = n2
  n3 = n3
  NoExec = NoExec
  NoIdentity = NoIdentity
  NoAddress = NoAddress
  GovAuthority = GovAuthority
  EmptyCccd = empty
  Address <- MCAddress
  Cccd <- MCCccd
  Time <- MCTime
  Packet <- MCPacket
  PacketMsg <- MCPacketMsg
  PacketFrom <- MCPacketFrom
  Replica <- MCReplica
  Power <- MCPower
  Payloads <- MCPayloads
  GenesisApp <- MCGenesisApp
  MaxHeight = 2
  MaxRounds = 1
  MaxCrashes = 1
CHECK_DEADLOCK FALSE
SPECIFICATION FairSpec
INVARIANTS
  TypeOK
  CommittedIsReplay
PROPERTIES
  CatchesUp
