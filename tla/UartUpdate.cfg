SPECIFICATION Spec
CONSTANTS
  ha = ha  hb = hb  hc = hc  p1 = p1  p2 = p2  q1 = q1  free = free  torn = torn
  NoCrc = NoCrc
  N = 3
  MaxCrcList = 2
  SilentFaults = FALSE
  Content <- MCContent
  Erased = free
  Torn = torn
  Heads <- MCHeads
  CrcValue <- MCContent
  Crc <- MCCrc
  Images <- MCFiles
INVARIANTS TypeOK BootsComplete ProgramsErased IInv
PROPERTIES HeadGuardsBody ImplementsAtomicInstall
