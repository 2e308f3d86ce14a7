\* A day's work, one component at a time: a tab of the console, the crews, what is
\* sent to customers, and the process that runs it.
CONSTANTS
  Nothing = Nothing
  boss = boss
  chief = chief
  crew = crew
  recruit = recruit
  here = here
  there = there
  Accounts = {boss, crew, recruit}
  Branches = {here, there}
  RoleAt <- AccessRole
  HomeAt <- AccessHome
  Nowhere = nowhere
  Slots = {s1}
  MaxServing = 1
  MaxTime = 1
  MaxChanges = 2
  QueueWorkers = {"w1", "w2"}
  MaxMessages = 2
  ColdEmails = {2}
  BatchLimit = 2
  LeaseTicks = 1
  MaxAttempts = 2
  SendLater = {0}
  Answers = {"accepted", "temporary"}
  MaxQueueFaults = 0
  Offices = {boss, chief}
  OfficeSlots = {"s1", "s2"}
  TabAccounts = {"boss", "rep", "crew", "branch"}
  TabRole <- RolesAt
  NoKey = "none"
  Walk = {"AddCustomer", "QuoteDetail"}
  Keys = {"q1", "q2"}
  MaxLoads = 2
  MaxUpsets = 1
  Visits = {"v1"}
  Crews = {"o1", "o2"}
  Dispatchers = {"boss"}
  Photos = {"p1", "p2"}
  KindOf <- PhotoKind
  VisitRequests = {"q1", "q2"}
  Unassigned = "none"
  MaxStandings = 2
  Jobs = {"j1", "j2"}
  CustomerOf <- Customer
  Rounds = {"night"}
  Taps = {"t1", "t2"}
  Ratings = {2, 5}
  GoodRating = 4
  MaxDays = 5
  Cooldown = 3
  Lookback = 2
  MaxCrashes = 1
  Regions = {"n1", "n2"}
  Residents = {"ann", "bob"}
  LivesIn <- Lives
  Checks = {"k1", "k2"}
  MaxChecks = 3
  Prospects = {"l1"}
  Steps = 2
  DripRequests = {"q1", "q2"}
  MaxOptIns = 2
  Incoming = {1, 2}
  Replies = {reply}
  Handlers = {"h1", "h2"}
  InboxWorkers = {"w1"}
  MaxReplyAttempts = 2
  MaxInboxFaults = 1
  Names = {"billing", "queue"}
  Connections = {"x"}
  Signals = {"term", "int"}
  MaxTurns = 2
SPECIFICATION DaySpec
CHECK_DEADLOCK FALSE
INVARIANTS DayTypesOK AccountsHold SendsCounted ShownIsAsked AddedOnce ToldOnce CleanExit
PROPERTIES SentStays VisitsKept SequenceKept ThreadWhole
