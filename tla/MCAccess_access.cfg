SPECIFICATION Spec
CONSTANTS
  Requests = {1, 2, 3}
  Users <- MCUsers
  Roles <- MCRoles
  Logins = {1}
  Tokens = {"token"}
  Mappings <- MCMappings
  Start <- MCStart
  Admin = "admin"
  MaxCrashes = 1
INVARIANTS
  AuditTrue
  OneSessionPerLogin
  CirclesNeedUpdate
CHECK_DEADLOCK FALSE
