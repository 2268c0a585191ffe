\* Two processes, each with its own lock.
CONSTANTS
  alice = alice  bob = bob  light = light  lock1 = lock1  guest = guest  wide = wide
  home1 = home1  home2 = home2  x1 = x1  x2 = x2  x3 = x3  r1 = r1  r2 = r2
  status = status  cli = cli  gateway = gateway
  Never = Never  Malformed = Malformed  Unlocked = Unlocked
  Connections = {alice}
  Exchanges = {x1, x2}
  Scopes = {guest}
  Entities = {light}
  Homes = {home1}
  Permits <- MCPermits
  Lifetimes = {Never}
  MaxTime = 0
  Processes = {status, cli}
  Requests = {r1, r2}
SPECIFICATION Spec
PROPERTIES MintsOnlyFreeScope
CHECK_DEADLOCK FALSE
