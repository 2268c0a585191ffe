\* A second entry for a gateway whose issuer DID has changed.
CONSTANTS
  alice = alice  light = light  guest = guest  home1 = home1  home2 = home2
  x1 = x1  x2 = x2  e1 = e1  e2 = e2  f1 = f1
  Never = Never  Malformed = Malformed  Nothing = Nothing
  Connections = {alice}
  Exchanges = {x1}
  Scopes = {guest}
  Entities = {light}
  Homes = {home1, home2}
  Permits <- MCPermits
  Lifetimes = {0}
  MaxTime = 0
  Entries = {e1, e2}
  Flows = {f1}
SPECIFICATION Spec
INVARIANTS NoCollision
CHECK_DEADLOCK FALSE
