SPECIFICATION Spec
CONSTANTS
  Threads = {h1, h2}
  Tenants = {t1}
  Extensions = {x1}
  TenantOf <- MCTenantOf
  Ids = {k1}
  Numbers = {n1}
  PerTenant = 4
  PerExtension = 4
  MaxInflight = 4
  Ttl = 2
  Window = 1
  MaxTenants = 1
  MaxExtensions = 2
  MaxRequests = 1
  MaxTime = 1
  MaxTickets = 2
  None = None
SYMMETRY Symmetry
PROPERTIES
  RepeatsArePending
CHECK_DEADLOCK FALSE
