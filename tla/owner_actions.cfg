\* Two calls to the status app, whose lock serialises them; liveness.
CONSTANTS
  alice = alice  light = light  guest = guest  home1 = home1
  x1 = x1  x2 = x2  r1 = r1  r2 = r2  status = status
  Never = Never  Malformed = Malformed  Unlocked = Unlocked  NoCall = NoCall
  Connections = {alice}
  Exchanges = {x1, x2}
  Scopes = {guest}
  Entities = {light}
  Homes = {home1}
  Permits <- MCPermits
  Lifetimes = {1}
  MaxTime = 1
  Processes = {status}
  StatusApp = status
  Requests = {r1, r2}
SPECIFICATION FairActions
INVARIANTS CallsOK RefusedDidNothing OkIsTrue OneCredentialCounts
PROPERTIES CheckOutlivesAwait EveryRequestEnds
CHECK_DEADLOCK FALSE
