SPECIFICATION MCSpec
CONSTANTS
  Parts = {"lb", "objects", "wire", "dist", "subscriber", "poller", "calls"} Misplace = FALSE
  p1 = p1 p2 = p2 p3 = p3 OutPipes = {p1, p2, p3} MaxSent = 3
  sock = sock log = log AppSockets = {sock} Log = log Ids = {1, 2, 3, 4, 5} Nobody = Nobody
  Lingers = {"none", "finite", "infinite"} MaxConnects = 1 MaxPeers = 1 MaxPushed = 1
  Messages <- SmallMessages MaxSends = 3 Esc = 3 LenBytes = 2 OutBatch = 3 InBatch = 3
  NetSize = 3 SinkSize = 1 MaxBreaks = 1
  Subs = {p1, p2} Marks = {0, 1} MaxPubs = 2 MaxLarge = 1
  SubPrefixes <- SomePrefixes Topics <- SomeTopics MaxChanges = 3 MaxFeeds = 2
  Kinds = {"epoll", "kqueue", "poll", "select"} Fds = {1, 2} MaxSinks = 2 Timeouts = {1}
  MaxTimers = 2 MaxTime = 1
  Socks = {p1, p2} PollRate = 2 OutHwm = 1 MaxMoved = 2 MaxSignals = 1
INVARIANTS AtomicDelivery NoPipeForgotten CommandsFit OneAttempt TermNotStuck MessagesIntact NothingStalls FanOutWhole CopiesCounted SubscriptionsHold CallbacksDue CallsSeeMessages
PROPERTIES DroppedIfLate
CHECK_DEADLOCK FALSE
