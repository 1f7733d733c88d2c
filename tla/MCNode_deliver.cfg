CONSTANTS
  alice = alice
  bob = bob
  carol = carol
  ica = ica
  nobody = nobody
  card = card
  empty = empty
  p1 = p1
  p2 = p2
  p3 = p3
  p4 = p4
  NoAddress = NoAddress
  NoTx = NoTx
  NoIdentity = NoIdentity
  GovAuthority = GovAuthority
  EmptyCccd = empty
  Address <- MCAddress
  Cccd <- MCCccd
  Time <- MCTime
  Packet <- MCPacket
  PacketMsg <- MCPacketMsg
  PacketFrom <- MCPacketFrom
  Bodies <- DeliverBodies
  MaxNonce = 1
  GenesisDocs <- PlainGenesis
  MaxHeight = 2
  MaxBlockTxs = 2
  MaxMempool = 0
SPECIFICATION Spec
INVARIANTS
  TypeOK
  SupplyConserved
PROPERTIES
  RegistryWriteOnce
  UnregisteredPaysAgreedFees
  PacketsPayOnce
  BankCreditsAreChecked
  OnlyPacketsRegister
