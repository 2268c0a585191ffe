\* Three commands and a queue of one; time goes past the proof timeout.
CONSTANTS
  alice = alice  bob = bob  anna = anna  bert = bert  light = light  lock1 = lock1
  guest = guest  wide = wide  other = other  home1 = home1
  x1 = x1  x2 = x2  h1 = h1  h2 = h2  h3 = h3  i1 = i1  i2 = i2  i3 = i3
  Never = Never  Malformed = Malformed
  BadRequest = BadRequest  Nobody = Nobody  None = None
  Connections = {alice}
  Exchanges = {x1}
  Scopes = {guest}
  Entities = {light}
  Homes = {home1}
  Permits <- MCPermits
  Lifetimes = {Never}
  MaxTime = 1
  Handlers = {h1, h2, h3}
  RequestIds = {i1, i2}
  Subjects = {anna}
  SubjectOf <- MCSubjectOf
  ProofTimeout = 1
  Retention = 2
  MaxPending = 1
SYMMETRY MCSymmetry3
SPECIFICATION Spec
INVARIANTS OpenProofsBounded
CHECK_DEADLOCK FALSE
