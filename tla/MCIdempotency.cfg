\* Three requests on two replicas; any one fault.
CONSTANTS
  r1 = r1  r2 = r2  r3 = r3
  p1 = p1  p2 = p2
  user = user  tenantA = tenantA  tenantB = tenantB
  Requests <- SomeRequests
  Replicas <- SomeReplicas
  TenantOf <- SomeTenants
  UserOf <- OneUser
  Arrivals <- SomeArrivals
  NoRequest = NoRequest
  MaxFaults = 1
SPECIFICATION FairSpec
INVARIANTS TypeOK ExecutesOnce ReplayIsGenuine
PROPERTY KeyFreed
CHECK_DEADLOCK FALSE
