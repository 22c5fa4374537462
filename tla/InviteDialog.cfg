CONSTANTS
  Calls = {c1, c2}
  NoCall = NoCall
  DeviceOf <- MCDeviceOf
  Networks <- MCNetworks
SPECIFICATION FairSpec
INVARIANTS
  TypeOK
  StreamGrounded
  EndsAgree
PROPERTY ByeClosesConfirmed
CHECK_DEADLOCK FALSE
