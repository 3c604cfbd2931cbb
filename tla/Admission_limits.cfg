SPECIFICATION Spec
CONSTANTS
  Threads = {h1, h2}
  Tenants = {t1}
  Extensions = {x1, x2}
  TenantOf <- MCTenantOf
  Ids = {k1}
  Numbers = {n1}
  PerTenant = 2
  PerExtension = 1
  MaxInflight = 1
  Ttl = 3
  Window = 2
  MaxTenants = 1
  MaxExtensions = 2
  MaxRequests = 1
  MaxTime = 3
  MaxTickets = 3
  None = None
SYMMETRY Symmetry
INVARIANTS
  OncePerKey
  RateIsBounded
  LoadIsBounded
  RowsAreTrue
CHECK_DEADLOCK FALSE
