SPECIFICATION Spec
CONSTANTS
  None = None
  r1 = r1
  r2 = r2
  p1 = p1
  p2 = p2
  Focuses = {"reads"}
  Ids = {r1, r2}
  Submitters = {p1, p2}
  Tenants <- MCTenants
  TenantOf <- MCTenantOf
  Decisions = {"d1"}
  Requests <- MCRequests
  Queries <- MCQueries
  Filters <- MCFilters
  TypeDefs <- MCTypeDefs
  Intents <- MCIntents
  MaxEvents = 3
  Driven = {r1}
  Paces = {1}
  MaxCalls = 11
  MaxFaults = 1
PROPERTIES TornForward
CHECK_DEADLOCK FALSE
