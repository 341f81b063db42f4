SPECIFICATION Spec
CONSTANTS
  Commands <- MCCommands
  Reboot <- CmdReboot
  Answer <- MCAnswer
  Key <- MCKey
  CRC <- MCCRC
  Noise = {0}
  Places = {4, 8}
  BufSize = 17
  MaxSent = 3
  MaxSessions = 2
  MaxMishaps = 1
INVARIANTS TypeOK RunsWereSent HeardLast AnswersWereGiven NothingSwallowed LineInv Traced
CHECK_DEADLOCK FALSE
