SPECIFICATION Spec
CONSTANTS
  Sections = {"model", "template"}
  BoundSections = {"model"}
  Values <- MCValues
  Default = "default"
  Refused = {"refused"}
  Yamls <- MCYamls
  AuditIds = {"alice", "bob", "carol"}
  Keys = {"ka", "kb", "kc"}
  EnvLists <- MCEnvLists
  Minted <- MCMinted
  Events <- MCEvents
  Filters <- MCFilters
  Deployments <- MCDeployments
  Ops <- MCOps
  Loads <- MCLoads
  MaxCrashes = 1
  PageSize = 1
CHECK_DEADLOCK FALSE
INVARIANT TypeOK
INVARIANT AcknowledgedStays
INVARIANT TrailIsTrue
INVARIANT ConfiguredKeysEnforce
INVARIANT PagesAreExact
INVARIANT NoFragmentUntilTorn
PROPERTY ImplementsLedger
PROPERTY RevocationIsImmediate
PROPERTY Recovers
