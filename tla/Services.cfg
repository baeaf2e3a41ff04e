INIT MCInit
NEXT MCNext
CONSTANTS
  Calls = {c1, c2}
  Offers <- MCOffers
  Names = {"main"}
  Keys = {k1, k2}
  Masters = {m1, m2}
  Policy <- MCPolicy
  None = None
  Nil = None
  Refused = Refused
  MaxFaults = 1
  MaxKeyOps = 1
  Servers = {s1, s2}
  Browsers = {b1, b2}
  Users = {"u1", "u2"}
  People = {"p1", "p2"}
  UserId <- MCUserId
  Passwords = {"x", "y"}
  Domains <- MCDomains
  Groups = {"g"}
  RoleMapping <- MCRoleMapping
  AnonymousPaths <- MCAnonymousPaths
  Paths <- MCPaths
  Algorithms = {"ES256", "HS256"}
  Configured <- MCConfigured
  AKValidity = 1
  RKValidity = 2
  MaxTime = 2
  MaxLogins = 2
  Flows = {"f1"}
  Requests = {c1, c2}
  Specs <- MCSpecs
  Bodies = {2}
  Deliveries <- MCDeliveries
  Lower <- MCLower
  PageSize = 1000
  Config <- MCNamespaces
  MaxWrites = 2
  MaxBoots = 1
  Tasks = {t1, t2}
  AdminMessages <- MCMessages
  MaxSends = 2
  MaxOutages = 1
  Executions = {g1, g2}
  Plans <- MCPlans
  Agents <- MCAgents
  LlmRows <- MCLlmRows
  McpRows <- MCMcpRows
  Number <- MCNumber
  Actions = {"abort", "retry"}
  PoolSize = 1
  MaxRetries = 3
  Processes = {p1, p2}
  Tables = {"flows", "knowledge"}
  Files <- MCFiles
  MaxStarts = 2
  RowKeys = {1, 2, 3}
  Updaters = {cl}
  Spaces = {"n1"}
  Inputs <- MCInputs
  Contents <- MCContents
  Backups <- MCBackups
  Selections <- MCSelections
  UsedIds = 1
  MaxIds = 3
  MaxEdits = 1
  Addresses <- MCAddresses
  Listeners <- MCListeners
  Publishers = {g1, g2}
  MaxPublishes = 4
  k1 = k1
  k2 = k2
  m1 = m1
  m2 = m2
  t1 = t1
  t2 = t2
  g1 = g1
  g2 = g2
  cl = cl
SYMMETRY Symmetry
INVARIANTS
  PaymentAuthorized
  VerdictEarned
  ImportRestores
  ImportNeverDangles
  ServedAsLoggedIn
  CompletedIsApplied
  CacheFollowsStore
  RunReachesItsJobManager
  RoutedLikeABroker
  MigrationConverges
CHECK_DEADLOCK FALSE
