\* Two processes issue; a gateway reconfigured between two homes.
CONSTANTS
  alice = alice  bob = bob  light = light  lock1 = lock1  guest = guest  wide = wide
  home1 = home1  home2 = home2  x1 = x1  x2 = x2  x3 = x3  r1 = r1  r2 = r2
  status = status  cli = cli  gateway = gateway
  Never = Never  Malformed = Malformed  Unlocked = Unlocked
  Connections = {alice, bob}
  Exchanges = {x1, x2}
  Scopes = {guest, wide}
  Entities = {light, lock1}
  Homes = {home1, home2}
  Permits <- MCPermits
  Lifetimes = {0}
  MaxTime = 1
  Processes = {status, cli}
  Requests = {r1, r2}
SYMMETRY MCSymmetry
SPECIFICATION Spec
INVARIANTS TypeOK UniqueLive RecordedWasMinted LockIsOwned
PROPERTIES IssuingKeepsAccess NoResurrection KeepsGrants
CHECK_DEADLOCK FALSE
