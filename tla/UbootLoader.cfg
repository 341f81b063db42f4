SPECIFICATION Spec
CONSTANTS
  la = la  lb = lb  m = m  ha = ha  p = p  q = q  free = free  torn = torn
  N = 6
  K = 3
  AppBase = 2
  RomChecksAll = TRUE
  SilentFaults = FALSE
  LateInits = 0
  AfterMisled = FALSE
  Content <- MCContent
  Erased = free
  Torn = torn
  Heads <- MCHeads
  Images <- MCImages
INVARIANTS AlwaysALoader
CHECK_DEADLOCK FALSE
