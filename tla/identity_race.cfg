\* Two runs on an empty wallet.
CONSTANTS
  r1 = r1  r2 = r2  d1 = d1  d2 = d2  c1 = c1  c2 = c2  light = light  lock1 = lock1
  home1 = home1  i1 = i1  i2 = i2  k1 = k1  None = None
  executed = executed  denied = denied
  Connections = {home1}
  Command <- MCCommand
  SubjectOf <- MCSubjectOf
  Reach <- MCReach
  Runs = {r1, r2}
  Dids = {d1, d2}
  Credentials = {c1}
  Entities = {light, lock1}
  Ids = {i1}
  PresExs = {}
  Answer = {executed}
SPECIFICATION Spec
INVARIANTS OneOwnDid
