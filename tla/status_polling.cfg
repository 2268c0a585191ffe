\* One entry, a grant that expires, is revoked or is another issuer's; liveness.
CONSTANTS
  alice = alice  light = light  guest = guest  home1 = home1  home2 = home2
  x1 = x1  x2 = x2  e1 = e1  e2 = e2  f1 = f1
  Never = Never  Malformed = Malformed  Nothing = Nothing
  Connections = {alice}
  Exchanges = {x1}
  Scopes = {guest}
  Entities = {light}
  Homes = {home1, home2}
  Permits <- MCPermits
  Lifetimes = {0, Malformed}
  MaxTime = 1
  Entries = {e1}
  Flows = {f1}
SPECIFICATION FairSpec
INVARIANTS TypeOK ShownIsCurrent
PROPERTIES RevocationShows GrantAppears RevokedStaysRevoked
CHECK_DEADLOCK FALSE
