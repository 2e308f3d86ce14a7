\* What must happen in the end: two billing runs that wait for each other's
\* rows, and requests to sign that take theirs in opposite orders.
CONSTANTS
  ann = ann
  Contracts = {k1, k2}
  Customers = {ann}
  OwnerOf <- Owner
  ReferrerOf <- Referrer
  Agreements = {k1, k2}
  Upfront = {}
  Nobody = none
  Runs = {r1, r2}
  Months = 2
  Tries = 1
  Price = 1
  Reward = 1
  MaxFaults = 1
  MaxMoves = 0
SPECIFICATION ProgressSpec
CHECK_DEADLOCK FALSE
PROPERTIES PeriodsBilled RequestsEnd
