SPECIFICATION Spec
CONSTANTS
  Users <- MCUsers
  NoUser = "nobody"
  Roles <- MCRoles
  Admin = "ADMIN"
  Requests = {r1, r2}
  Names <- MCNames
  IdOf <- MCIdOf
  UidOf <- MCUidOf
  Lower <- MCLower
  Demo = {"d"}
  StartStatus <- MCStartStatus
  StartLinks <- MCStartLinks
  MaxRowId = 6
  MaxAccepted = 2
  ReuseRowIds = FALSE
  MayCrash = FALSE
SYMMETRY Symmetric
INVARIANT AdminRemains
CHECK_DEADLOCK FALSE
