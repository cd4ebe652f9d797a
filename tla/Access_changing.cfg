SPECIFICATION Spec
CONSTANTS
  Users = {"a", "b", "d"}
  Demo = {"d"}
  RolesInUse = {"ADMIN", "STAFF", "TECHNICIAN"}
  StartAccounts <- MCStartAccounts
  NewGrants <- MCNewGrants
  MaxChanges = 2
INVARIANTS AdmittedWasEntitled RefusedWasTrue AnswerWasTrue PromiseKept
