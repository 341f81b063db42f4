SPECIFICATION Spec
CONSTANTS
  la = la  lb = lb  m = m  ha = ha  p = p  q = q  free = free  torn = torn
  N = 6
  K = 3
  AppBase = 2
  RomChecksAll = TRUE
  SilentFaults = TRUE
  LateInits = 1
  AfterMisled = FALSE
  Content <- MCContent
  Erased = free
  Torn = torn
  Heads <- MCHeads
  Images <- MCImages
INVARIANTS TypeOK NewLoaderFirst SuccessIsTrue
PROPERTIES FirstNeedsBackup LoaderRestored
CHECK_DEADLOCK FALSE
