CONSTANTS
  u1 = u1
  u2 = u2
  User = {u1, u2}
  NoUser = NoUser
  Name = {"send", "list", "book"}
  Service = {"calendar"}
  Scope = {"read", "write"}
  System <- MCSystem
  Base <- MCBase
  OwnVersions <- MCOwn
  Enabled = {"send"}
  Partner = u1
  Args = {1}
  Details = {1, 2}
  NoDetails = 0
  MaxIterations = 2
  MaxBatch = 2
  MaxAsks = 2
  Word <- MCWord
  Mention = {"@bot"}
  Slashed = {"/", "/help", "/reset", "/whoami", "/connect", "/disconnect", "/cancel", "/CANCEL", "/nope"}
  Unclosed = {"it's"}
  Lower <- MCLower
  Texts <- MCTexts
  Held <- MCHeld
  NoToken = NoToken
SPECIFICATION FairDispatch
INVARIANT DispatchTypeOK
INVARIANT RanAsApproved
INVARIANT RanWhereAllowed
INVARIANT RunsAreFinal
INVARIANT ConnectCovers
INVARIANT DecidedAsPressed
PROPERTY TurnsEnd
