CONSTANTS
  Size = 2
  Blank = Blank
  Traffic <- MCTraffic
  PacketLength <- MCPacketLength
  MaxClears = 1
  Flights <- MCFlights
  Incoming <- MCIncoming
  Outgoing = 2
  RecordLength = 2
  TlsPacketLength = 2
  Kernel = 5
  RxSize = 1
  c1 = c1
  c2 = c2
  p1 = p1
  p2 = p2
  p3 = p3
  Server = Server
  Nobody = Nobody
  Clients <- MCClients
  Peers <- MCPeers
  OpQueue = 3
  Backlog = 2
  MaxTrouble = 2
  Addresses = {1, 2}
  SoftApAddress = 9
  NoAddress = 0
  StatusQueue = 2
  MaxCalls = 3
  MaxRadioTrouble = 2
SPECIFICATION MCSpec
INVARIANTS OnlyVerifiedPeers ClientsConserved StatusFollowsLink
PROPERTIES StreamIsChannel PacketsIntact TlsDelivers ServerServes Reconnects
CHECK_DEADLOCK FALSE
