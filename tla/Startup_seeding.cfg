SPECIFICATION Spec
CONSTANTS
  Containers = {"old", "new"}
  Names = {"ADMIN", "STUDENT", "read"}
  Reference <- MCReference
  Grants <- MCGrants
  DemoIds = {"d1", "d2"}
  DemoUsers <- MCDemoUsers
  DemoUser <- MCDemoUser
  DemoRole <- MCDemoRole
  OtherIds = {"u1"}
  Uids = {"ADM001", "STU001", "X1"}
  Emails = {"adm001@", "stu001@", "x1@"}
  ProtectedDemo = {"d1"}
  MaxCrashes = 1
INVARIANTS ReadyHasData DemoHasRole
PROPERTIES SeedOnlyAdds ServesIfNoneTaken
