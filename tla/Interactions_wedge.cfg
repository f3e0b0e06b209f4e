CONSTANTS
  u1 = u1
  u2 = u2
  m1 = m1
  m2 = m2
  m3 = m3
  k1 = k1
  k2 = k2
  User = {u1}
  MsgId = {m1, m2}
  Callback = {k1}
  MaxInteractions = 1
  MaxTime = 2
  MaxCrashes = 0
  TTL = 1
  Kinds = {"text"}
  Turns = {"confirm", "fail"}
  Worker = worker
  None = none
SPECIFICATION Spec

INVARIANT AwaitingHasPending
