CONSTANTS
  Calls = {c1}
  NoCall = NoCall
  DeviceOf <- MCDeviceOf
  Networks <- MCLate
SPECIFICATION FairSpec
PROPERTY ByeClosesBoth
CHECK_DEADLOCK FALSE
