SPECIFICATION Spec
CONSTANTS
  Requests = {r1}
  AccountIds = {"i1", "i2", "i3"}
  NoAccount = NoAccount
  UniversityIds = {"s1", " s1", "s2"}
  Emails = {"a@x", "A@x", "b@x"}
  Kinds = {"STUDENT", "STAFF"}
  NotSent = NotSent
  Names = {"i1", "s2"}
  Strip <- MCStrip
  Lower <- MCLower
  StartUsers <- MCStartUsers
  MaxAccepted = 3
PROPERTY DuplicatesAre409
CHECK_DEADLOCK FALSE
