SPECIFICATION Spec
CONSTANTS
  ha = ha  hb = hb  p1 = p1  p2 = p2  q1 = q1  free = free  torn = torn
  NoCrc = NoCrc
  N = 3
  Chunks = 2
  MaxCrcList = 2
  SlowReplies = TRUE
  SilentFaults = FALSE
  HeadOrder <- AndroidOrder
  Content <- MCContent
  Erased = free
  Torn = torn
  Heads <- MCHeads
  CrcValue <- MCUnits
  Crc <- MCCrc
  Images <- MCImages
INVARIANTS GInv
PROPERTIES HeadGuardsBody
