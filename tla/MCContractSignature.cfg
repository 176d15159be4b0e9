SPECIFICATION FairSpec
CONSTANTS
  None = None
  Remover = Remover
  MaxRemovals = 2
  Editors = {e1}
  RoleOf <- MCRoleOf
  Statuses <- ContractStatuses
  Edges <- CONTRACTS_WORKFLOW
  d1 = d1
  d2 = d2
  Docs = {d1, d2}
  docusign = docusign
  other = other
  Platforms <- MCPlatforms
  DocuSign = docusign
  InitialDocs = {d1}
  Contents <- MCContents
  Envelopes = {s1}
  Hooks = {h1, h2}
  InitialStatuses = {"under_review"}
  MaxEdits = 1
  MaxFaults = 1
INVARIANTS
  TypeOK
  OneSignaturePerRound
  RemovalsAccounted
PROPERTIES
  LinkageKept
  SignedDocumentFixed
  SignatureArrives
CHECK_DEADLOCK FALSE
