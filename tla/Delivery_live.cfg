CONSTANTS
  c1 = c1
  c2 = c2
  m1 = m1
  m2 = m2
  m3 = m3
  k1 = k1
  k2 = k2
  k3 = k3
  k4 = k4
  s1 = s1
  s2 = s2
  Conv = {c1, c2}
  MsgId = {m1, m3}
  Home <- MCHome
  Callback = {k1, k2}
  Slot = {s1, s2}
  NoTask = none
  NoCallback = nobody
  MaxEnds = 1
SPECIFICATION FairSpec
PROPERTY DeliveryEnds
PROPERTY CloseEnds
