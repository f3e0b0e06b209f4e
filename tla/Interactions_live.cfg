CONSTANTS
  u1 = u1
  u2 = u2
  m1 = m1
  m2 = m2
  m3 = m3
  k1 = k1
  k2 = k2
  User = {u1}
  MsgId = {m1, m2}
  Callback = {k1}
  MaxInteractions = 1
  MaxTime = 1
  MaxCrashes = 1
  TTL = 1
  Kinds = {"text", "cancel", "connect", "reset", "help", "unsupported"}
  Turns = {"confirm", "consent", "answer", "fail"}
  Worker = worker
  None = none
SPECIFICATION FairSpec
INVARIANT TimerCovers
PROPERTY RecoveryRestores
PROPERTY PendingEnds
PROPERTY MessageEnds
PROPERTY ImplementsConfirmOnce
