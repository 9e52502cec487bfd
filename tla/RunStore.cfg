SPECIFICATION Spec
CONSTANTS
  None = None
  r1 = r1
  r2 = r2
  p1 = p1
  p2 = p2
  Focuses = {"runs", "lists", "sessions", "types", "audit", "approvals"}
  Ids = {r1, r2}
  Submitters = {p1, p2}
  Tenants <- MCTenants
  TenantOf <- MCTenantOf
  Decisions = {"d1", "d2"}
  Requests <- MCRequests
  Queries <- MCQueries
  Filters <- MCFilters
  TypeDefs <- MCTypeDefs
  Intents <- MCIntents
  MaxEvents = 3
  Driven = {r1}
  Paces = {1, 2}
  MaxCalls = 11
  MaxFaults = 2
INVARIANTS RunsAgree LastAttemptKept ReportsAgree TrailsAgree ApprovalsAgree CatalogsAgree
PROPERTIES SessionCreationKept
CHECK_DEADLOCK FALSE
