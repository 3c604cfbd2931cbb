SPECIFICATION MCSpec
CONSTANTS
  StaticTenants = {t1}
  WizardTenants = {t3}
  Names = {e1, e2}
  Numbers = {n1, n2}
  Dids = {d1}
  OwnerOf <- MCOwnerOf
  ReservedNames = {}
  InstalledPlan <- MCPlan
  Threads = {h1}
  Requests <- MCRequests
  MaxRequests = 3
  MaxFaults = 0
  None = None
  Absent = Absent
  UserThreads = {h1}
  People = {u1, u2}
  Tokens = {k1, k2}
  FirstAdmin = u1
  Installed <- MCInstalled
  UserRequests <- MCUserRequests
  MaxUserRequests = 4
  MaxUserCrashes = 1
  PolicyThreads = {h1}
  KnownCompanies = {t1, t3}
  PolicyRequests <- MCPolicyRequests
  MinSeconds = 5
  MaxSeconds = 600
  MaxEventsPerAction = 2
  MaxUnrelated = 1
  MaxEntries = 2
  MaxFrames = 3
  MaxPolicyRequests = 3
  MaxPolicyFaults = 1
  MaxStrayFrames = 2
  Parts = {"publication"}
  t1=t1 t3=t3 e1=e1 e2=e2 n1=n1 n2=n2 d1=d1 u1=u1 u2=u2 k1=k1 k2=k2
SYMMETRY Symmetry
INVARIANT RemovedTenantsLeaveNoMapping
CHECK_DEADLOCK FALSE
