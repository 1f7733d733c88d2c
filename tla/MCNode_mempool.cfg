CONSTANTS
  alice = alice
  bob = bob
  carol = carol
  ica = ica
  nobody = nobody
  card = card
  empty = empty
  p1 = p1
  p2 = p2
  p3 = p3
  p4 = p4
  NoAddress = NoAddress
  NoTx = NoTx
  NoIdentity = NoIdentity
  GovAuthority = GovAuthority
  EmptyCccd = empty
  Address <- MCAddress
  Cccd <- MCCccd
  Time <- MCTime
  Packet <- MCPacket
  PacketMsg <- MCPacketMsg
  PacketFrom <- MCPacketFrom
  Bodies <- PoolBodies
  MaxNonce = 2
  GenesisDocs <- AllGenesis
  MaxHeight = 3
  MaxBlockTxs = 1
  MaxMempool = 2
SPECIFICATION Spec
CHECK_DEADLOCK FALSE
INVARIANTS
  AdmittedPassGate
  NoCompetingNonces
  GenesisGateOpen
  GenesisSurvives
