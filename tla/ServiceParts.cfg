CONSTANTS
  v1 = v1
  v2 = v2
  v3 = v3
  v4 = v4
  Names = {v1, v2}
  NoName = NoName
  Texts = {hi}
  MaxSessions = 2
  MaxLog = 4
  MaxTyped = 2
  MaxMishaps = 1
  Chats = {v1, v2}
  NoChat = NoChat
  Me = Me
  Colleague = Colleague
  Nobody = Nobody
  Unlocked = {x1}
  MaxChanges = 3
  MaxReadings = 2
  MaxTroubles = 2
  Replies = {hi}
  PageSize = 1
  MaxSaid = 3
  MaxSent = 2
  MaxLoads = 2
  MaxFailures = 1
  Tabs = {v1, v2}
  Users = {v3, v4}
  NoUser = NoUser
  MaxTokens = 3
  MaxRequests = 2
  MaxOutages = 1
  Workers = {w1, w2, w3}
  ChatIds = {c1, c2}
  Gates = {g1, g2, g3}
  NoGate = NoGate
  Counselors = {v1, v2}
  NoCounselor = NoCounselor
  Handlers = {v3, v4}
  Demo = Demo
  Writers = {x1}
  MaxMessages = 4
  Reviewers = {w1, w2, w3}
  MaxTasks = 2
  Servers = {v3, v4}
  MaxBuilds = 2
  MaxRetries = 2
  MaxText = 2
SPECIFICATION PartsSpec
SYMMETRY Symmetry
CONSTRAINT Bounds
CHECK_DEADLOCK FALSE
INVARIANTS
  TypeOK
  ScreenInOrder
  TypedShownOnce
  OwnConversationOnly
  TypingIndicatorEnds
  QueueMirrorsServer
  RouteIsOpen
  BlockedHasRequest
  SendingIsWatched
  ThreadIsOfActive
  ThreadIsComplete
  SessionLasts
  BlankAwaitsRefresh
  NoGateLeaks
  RowConsistent
  NumberedInOrder
  DecidedOnce
  ActiveIsLatest
PROPERTIES
  SavedStaysOnScreen
  GateImplementsLease
  AssistantYields
