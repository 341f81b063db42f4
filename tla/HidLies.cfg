SPECIFICATION Spec
CONSTANTS
  ha = ha  hb = hb  p1 = p1  p2 = p2  q1 = q1  free = free  torn = torn
  NoCrc = NoCrc
  N = 3
  Chunks = 1
  MaxCrcList = 1
  SlowReplies = FALSE
  SilentFaults = TRUE
  HeadOrder <- OneChunk
  Content <- MCContent
  Erased = free
  Torn = torn
  Heads <- MCHeads
  CrcValue <- MCSmall
  Crc <- SmallCrc
  Images <- MCShrunk
INVARIANT Lockstep
PROPERTIES VerifiedMeansFlashed
