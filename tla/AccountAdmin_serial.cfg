SPECIFICATION Spec
CONSTANTS
  Users <- MCUsers
  NoUser = "nobody"
  Roles <- MCRoles
  Admin = "ADMIN"
  Requests = {r1}
  Names <- MCNames
  IdOf <- MCIdOf
  UidOf <- MCUidOf
  Lower <- MCLower
  Demo = {"d"}
  StartStatus <- MCStartStatus
  StartLinks <- MCStartLinks
  MaxRowId = 6
  MaxAccepted = 4
  ReuseRowIds = TRUE
  MayCrash = TRUE
INVARIANTS AdminRemains AuditComplete
PROPERTIES RoleWriteExact ActsAtOnce
CHECK_DEADLOCK FALSE
