CONSTANTS
  Chars <- MCChars
  PeerIds <- MCPeerIds
  Devices <- MCDevices
  Values <- MCValues
  Lists <- MCLists
  MaxUpdates = 2
SPECIFICATION Spec
INVARIANTS
  TypeOK
  RoundTrip
  TornFileIsPrefix
