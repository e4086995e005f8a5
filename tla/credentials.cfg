\* two processes over one store, one of which may die anywhere but in the migration
CONSTANTS
  p1 = p1  p2 = p2  work = work  home = home  acme = acme  beta = beta  ann = ann  bob = bob
  None = None
  Placeholder = Placeholder
  Procs = {p1, p2}
  Aliases = {work, home}
  Urls = {acme}
  Identities = {ann}
  LegacyAliases = {work}
  SeedExists = TRUE
  MayDie = TRUE
  MigrationMayDie = FALSE
  StaleSetMayFail = FALSE
  MaxCommands = 2
  LegacyUrl <- OneUrl
SPECIFICATION Spec
INVARIANTS SecretsSurvive ReaderFindsSecrets RemovedIsGone
