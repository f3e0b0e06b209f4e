CONSTANTS
  ann = ann
  bob = bob
  worker = worker
  click = click
  r1 = r1
  r2 = r2
  n1 = n1
  n2 = n2
  read = read
  write = write
  User = {ann, bob}
  Strand = {worker, click}
  Worker = {worker}
  Of <- MCOf
  Request = {r1}
  Nonce = {n1}
  Requirement = {{read}, {read, write}}
  NoGrant = NoGrant
  NoNonce = NoNonce
SPECIFICATION Spec
CONSTANTS
 MaxFailures = 0
INVARIANT DisconnectHolds
