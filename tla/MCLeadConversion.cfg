SPECIFICATION FairSpec
CONSTANTS
  None = None
  Remover = Remover
  MaxRemovals = 1
  manager = manager
  seller = seller
  Editors = {manager, seller}
  RoleOf <- MCRoleOf
  Statuses <- LeadStatuses
  Edges <- LEADS_WORKFLOW
  Events = {v1, v2}
  MaxLost = 1
INVARIANTS
  TypeOK
  OneClientPerLead
  ClientsAreLinked
PROPERTIES
  MovesAlongWorkflow
  ClosedLeadBecomesClient
CHECK_DEADLOCK FALSE
