SPECIFICATION FairSpec
CONSTANTS
  Heartbeats = {h1, h2}
  Receivers = {r1, r2}
  Second = {h2, r2}
  LoopMessages <- Sends
  FirstMessage = "SYS_STATUS"
  Following <- Turns
  Length <- PayloadBytes
  Count = 2
  RealTime = TRUE
INVARIANTS TypeOK LoopSendsWhole AcceptedIsTrue
PROPERTIES HeartbeatsGoOn
