SPECIFICATION Spec
CONSTANTS
  i1 = i1
  i2 = i2
  l1 = l1
  s1 = s1
  Incidents = {i1, i2}
  Services = {l1}
  PartitionOf <- PartitionOfKeys
  TenantOf <- TwoTenants
  Sockets = {s1}
  Window = 2
  Ttl = 2
  MaxCache = 2
  Recent = 1
  MaxRecords <- ThreeUpdatesOneLog
  MaxTime = 3
  MaxFaults = 2
INVARIANT TypeOK
INVARIANT InSync
INVARIANT OwnTenant
INVARIANT BehindWithinWindow
PROPERTY OncePerWindow
CHECK_DEADLOCK FALSE
