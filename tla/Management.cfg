SPECIFICATION ManagementSpec
CONSTANTS
  Parts = {"devices", "accounts", "tenants", "limits", "external",
           "tree", "assets", "supply", "sources", "storage"}
  None = None
  Gone = Gone
  x = x
  y = y
  TemplateIds = {1, 2}
  TemplateRows <- SomeTemplates
  Given <- SomeVariables
  Lines = {x, y}
  MaxLines = 3
  MaxBrackets = 4
  Unset = Unset
  Removed = Removed
  Idle = Idle
  Users = {1, 2}
  Admin = 1
  Handles = {"admin", "mail", "other"}
  AdminName = "admin"
  AdminEmail = "mail"
  Passwords = {"p", "q"}
  AdminPassword = "p"
  Logins = {1, 2}
  MaxFailed = 3
  LockFor = 1
  AccessFor = 0
  RefreshFor = 1
  OpenRegistration = FALSE
  AccountBounds <- SomeAccountBounds
  Registrations <- SomeRegistrations
  RoleLists <- SomeRoleLists
  Updates <- SomeUserUpdates
  Absent = Absent
  TenantIds = {1, 2}
  Slugs = {"s"}
  Staff = {1, 2, 3}
  Superusers = {1}
  Seats = {1, 2}
  Adders = {1, 2}
  Clients = {"key", "health"}
  Exempt = "health"
  RateLimit = 2
  Window = 2
  MaxMoment = 4
  Nothing = Nothing
  Keys = {"k"}
  Sites = {"s", "t"}
  Facts = {"f"}
  Queries = {1, 2}
  Ttl = 2
  MaxHour = 3
  AddressBits = 2
  Families = {4, 6}
  Spellings <- SomeSpellings
  Data = {"d"}
  MaxHung = 3
  Registrars = {1, 2}
  Registered <- SomeRegistered
  Announced <- SomeAnnounced
  MaxAssets = 3
  MaxChanges = 2
  TalSources <- SomeTals
  Partly <- SomePartly
  Targets <- SomeTargets
  RoutesOf <- SomeRoutes
  RoasOf <- SomeRoas
  TalResponses <- SomeDownloads
  ApiResponses <- SomeAnswers
  StaleAfter = 0
  MaxTals = 2
  MaxCollections = 2
  MaxCalls = 2
  Controllers = {1, 2}
  MaxSources = 2
  MaxControls = 3
  NoTime = NoTime
  Origins = {1, 2}
  Stamps = {1, 2}
  MaxBatch = 4
INVARIANTS
  TextsSound
  WithinLimits
  LockoutBounded
  ParentsContain
  SupplyHolds
  TasksFollowRows
PROPERTIES
  LocksStand
\* A part stops at its bounds.
CHECK_DEADLOCK FALSE
