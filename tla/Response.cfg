SPECIFICATION ResponseSpec
CONSTANTS
  None = None
  Gone = Gone
  Ops = {o1, o2}
  IncidentIds = {i1, i2}
  MaxAlerts = 2
  AlertUpdates <- SomeAlertUpdates
  Updates <- SomeUpdates
  Clients <- AllClients
  Data <- SomeData
  KnownPrefixes = {p1, p2}
  KnownAsns = {as1}
  Ambiguous = {p2}
  TypeRequests <- SomeTypeRequests
  ActionStatuses = {"completed", "pending"}
  ActivePoints = TRUE
  MaxActions = 2
  MaxExecutions = 2
  MaxEvidence = 2
  MaxReviews = 1
  MaxCases = 1
  Channels <- SomeChannels
  ChannelTypes = {{}, {"webhook"}}
  MaxNotifies = 2
  IntegrationIds = {g1, g2}
  IntegrationRows <- SomeIntegrations
  SubscriptionIds = {s1, s2}
  EventChannels <- SomeEventChannels
  MaxPublishes = 1
  o1 = o1
  o2 = o2
  i1 = i1
  i2 = i2
  p1 = p1
  p2 = p2
  as1 = as1
  as2 = as2
  c1 = c1
  c2 = c2
  c3 = c3
  g1 = g1
  g2 = g2
  s1 = s1
  s2 = s2
CHECK_DEADLOCK FALSE
INVARIANT LinkedAreNamed
PROPERTIES ListedAreLinked ReopenedKnowingly SuggestionsSound ReviewsComplete RecordsWhole
SYMMETRY Symmetry
