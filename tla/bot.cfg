SPECIFICATION BotSpec
CONSTANTS
  \* ReactionFeedback
  Albums = {a1, a2}
  Messages <- FourMessages
  None = None
  Cap = 2
  MaxReactions = 3
  MaxUpsets = 2
  \* AppSettings
  Editors = {e1, e2}
  Intervals = {i1, i2}
  Styles = {st1}
  Keys = {k1}
  Blank = Blank
  MaxEdits = 3
  MaxFailures = 1
  \* FilePacking
  Pools <- AlbumSizes
  Budget = 3
  Limits = {1, 2, 3}
  \* Delivery
  Deliveries = {"d1", "d2"}
  Channels = {"c1", "c2"}
  Batches <- BatchesSent
  Sizes = {1, 3}
  Accepted = {2, 4}
  Interval = 2
  MaxPostingTime = 2
  MaxTrouble = 1
  \* FullAlbum
  Handlers = {"g1", "g2"}
  Starts = {0, 2, 5}
  Threshold = 2
  PageSize = 2
  Window = 1
  MaxAsks = 2
  MaxPresses = 3
  MaxAlbumEdits = 1
  MaxFaults = 1
  \* DiscoveryPosts
  Reports <- ReportsFound
  Rules = {1, 2}
  Triggers = {"new_album"}
  Paths = {"p1", "p2"}
  EventCap = 2
  MaxToggles = 1
  \* JobLog
  MaxJobs = 1
  Retention = 0
  MaxWork = 2
  MaxLogTime = 1
  MaxLogFailures = 1
  \* PathScope
  Filters <- FiltersEntered
  Folders <- Places
  \* NaturalOrder
  Names <- ShortNames
  \* Links
  Callers = {"g1", "g2"}
  Images = {1}
  Files = {"f1", "f2"}
  NoLink = NoLink
  TTL = 1
  Timeout = 1
  Life = 3
  MaxLinkTime = 3
  MaxImageEdits = 1
  \* AdminConsole
  ConsoleHandlers = {"g1", "g2"}
  Values = {"v1", "v2"}
  MaxRequests = 3
  MaxAuditFailures = 1
INVARIANTS
  BotTypeOK RemembersTheLatest ReactionsCountOnce SettingsAreKept
  SampleServes ChunksKeepEveryFile BackoffSalvages FailuresAreTold PagesTile PagesLeadOn
   EveryMatchIsHeard  RunLogAgrees FiltersAgree OneOrder
   
CHECK_DEADLOCK FALSE
