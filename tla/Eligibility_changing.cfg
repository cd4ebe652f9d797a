SPECIFICATION FairSpec
CONSTANTS
  Roles = {"STAFF"}
  NoRole = "none"
  Catalogues <- MCCatalogues
  Portfolios <- MCPortfolios
  Memberships <- MCMemberships
  MaxChanges = 2
INVARIANTS EligibleWasTrue ReasonsWereTrue IdentityFirst
PROPERTY AlwaysAnswered
