\* Two commands, two holders' keys; liveness under FairSpec.
CONSTANTS
  alice = alice  bob = bob  anna = anna  bert = bert  light = light  lock1 = lock1
  guest = guest  wide = wide  other = other  home1 = home1
  x1 = x1  x2 = x2  h1 = h1  h2 = h2  h3 = h3  i1 = i1  i2 = i2  i3 = i3
  Never = Never  Malformed = Malformed
  BadRequest = BadRequest  Nobody = Nobody  None = None
  Connections = {alice}
  Exchanges = {x1}
  Scopes = {guest}
  Entities = {light}
  Homes = {home1}
  Permits <- MCPermits
  Lifetimes = {Never}
  MaxTime = 1
  Handlers = {h1, h2}
  RequestIds = {i1}
  Subjects = {anna, bert}
  SubjectOf <- MCSubjectOf
  ProofTimeout = 1
  Retention = 0
  MaxPending = 1
SPECIFICATION FairSpec
INVARIANTS DispatchHadFreshProof
PROPERTIES EveryCommandEnds
CHECK_DEADLOCK FALSE
