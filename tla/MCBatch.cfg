CONSTANTS
  Lists <- MCLists
  LogOf <- MCLogOf
  SlugOf <- MCSlugOf
  Logs = {"o__a", "o__b", "https__o__a"}
  Slugs = {"o__a", "o__b"}
  Workers = 2
  MaxInvocations = 2
SPECIFICATION Spec
INVARIANTS
  ExitIsHonest
  ResultsAreReal
  OneAuditPerRepository
  SuccessIsValidated
CHECK_DEADLOCK FALSE
