\* One command against grants that come, go and expire on two connections.
CONSTANTS
  alice = alice  bob = bob  anna = anna  bert = bert  light = light  lock1 = lock1
  guest = guest  wide = wide  other = other  home1 = home1
  x1 = x1  x2 = x2  h1 = h1  h2 = h2  h3 = h3  i1 = i1  i2 = i2  i3 = i3
  Never = Never  Malformed = Malformed
  BadRequest = BadRequest  Nobody = Nobody  None = None
  Connections = {alice, bob}
  Exchanges = {x1, x2}
  Scopes = {guest, wide}
  Entities = {light, lock1}
  Homes = {home1}
  Permits <- MCPermits
  Lifetimes = {0, Never}
  MaxTime = 1
  Handlers = {h1}
  RequestIds = {i1}
  Subjects = {anna}
  SubjectOf <- MCSubjectOf
  ProofTimeout = 1
  Retention = 3
  MaxPending = 2
SPECIFICATION Spec
INVARIANTS DispatchWasAuthorised
CHECK_DEADLOCK FALSE
