CONSTANTS
  text = text
  odd = odd
  other = other
  todo = todo
  t1 = t1
  t2 = t2
  Op = {text, odd, other, todo}
  Calls <- MCCalls
  Token = {t1, t2}
  Life = 2
  Skew = 1
  Latency = 1
  NoToken = NoToken
  Bare = Bare
  Nobody = Nobody
  Reply = {text, odd, other}
  Odd = {odd, other}
  Webhook <- MCWebhook
  Interval = 1
SPECIFICATION FairSpec
INVARIANT OutboundTypeOK
INVARIANT RetryFresh
INVARIANT AppliedOnce
PROPERTY FreshKept
PROPERTY SendsLive
PROPERTY Spaced
PROPERTY OperationsEnd
