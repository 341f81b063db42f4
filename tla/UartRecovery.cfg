SPECIFICATION LiveSpec
CONSTANTS
  ha = ha  p1 = p1  free = free  torn = torn
  NoCrc = NoCrc
  N = 2
  MaxCrcList = 1
  SilentFaults = FALSE
  Content <- MCContent
  Erased = free
  Torn = torn
  Heads = {ha}
  CrcValue <- MCContent
  Crc <- MCCrc
  Images <- MCImages
PROPERTIES SessionEnds Recovers
