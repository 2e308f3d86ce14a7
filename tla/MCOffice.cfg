\* The back office, one component at a time: a bill and its tabs, billing,
\* deletion and the schedule of payments.
CONSTANTS
  r1 = r1
  r2 = r2
  x1 = x1
  x2 = x2
  ann = ann
  bob = bob
  boss = boss
  chief = chief
  rep = rep
  desk = desk
  here = here
  there = there
  Customers = {ann, bob}
  Staff = {boss, chief, rep, desk}
  Branches = {here, there}
  RoleOf <- RecordRole
  BranchOf <- RecordBranch
  SellerOf <- RecordSeller
  ReferrerOf <- RecordReferrer
  Nobody = none
  MaxDeletes = 2
  BillDue = 1
  Tabs = {"t1", "t2"}
  Refunders = {"r1"}
  Handlers = {"h1", "h2"}
  Nonces = {"n1", "n2"}
  Answers = {"succeeded", "failed"}
  MaxFaults = 0
  Payers = {"ann", "bob"}
  NoReferrer = "none"
  Price = 1
  Reward = 1
  Plain <- PlainBills
  Crossed <- CrossedBills
  Shared <- SharedBills
  MonthDays = 2
  YearMonths = 4
  SeasonStart = 1
  SeasonMonths = 2
  Installments = {1, 2}
  Seasons = {1, 2}
  Prices = {10}
  Discounts = {0, 3}
  Rate = 3
  MaxSeason = 3
  SignBy = 5
  LastDay = 24
  NoTerms = NoTerms
SPECIFICATION OfficeSpec
CHECK_DEADLOCK FALSE
SYMMETRY Symmetry
INVARIANTS OfficeTypesOK BilledAndPaidOnce CreditHonest NoDealStranded SeasonAddsUp
PROPERTIES DeletionsKeep
