SPECIFICATION Spec
CONSTANTS
  c1 = c1
  c2 = c2
  q1 = q1
  q2 = q2
  p1 = p1
  p2 = p2
  v1 = v1
  Absent = Absent
  NoVersion = NoVersion
  Clients <- TwoClients
  Requests <- TwoRequests
  PluginIds <- TwoPlugins
  Versions <- OneVersion
  Items <- TwoItems
  Keys <- AllKeys
  Window = 3
  MaxEntries = 1
  QueueSize = 1
  BatchSize = 2
  MaxFailures = 1
  MaxEvents = 3
SYMMETRY Symmetry
INVARIANT CountRemembered
INVARIANT EventsBalance
INVARIANT NothingLeftBehind
