\* One command delivered three times, over more than the retention.
CONSTANTS
  alice = alice  bob = bob  anna = anna  bert = bert  light = light  lock1 = lock1
  guest = guest  wide = wide  other = other  home1 = home1
  x1 = x1  x2 = x2  h1 = h1  h2 = h2  h3 = h3  i1 = i1  i2 = i2  i3 = i3
  Never = Never  Malformed = Malformed
  BadRequest = BadRequest  Nobody = Nobody  None = None
  Connections = {alice}
  Exchanges = {x1}
  Scopes = {guest}
  Entities = {light}
  Homes = {home1}
  Permits <- MCPermits
  Lifetimes = {Never}
  MaxTime = 2
  Handlers = {h1, h2, h3}
  RequestIds = {i1}
  Subjects = {anna}
  SubjectOf <- MCSubjectOf
  ProofTimeout = 1
  Retention = 1
  MaxPending = 2
SYMMETRY MCSymmetry3
SPECIFICATION Spec
INVARIANTS TypeOK AtMostOnce AnswerIsTruthful OneVerdict
PROPERTIES KeepsLedger
CHECK_DEADLOCK FALSE
