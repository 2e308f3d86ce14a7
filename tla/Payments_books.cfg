SPECIFICATION Spec
CONSTANTS
  Due = 2
  Chargers = {c1}
  Tabs = {}
  Reps = {p1}
  Refunders = {r1}
  Handlers = {h1, h2}
  Nonces = {}
  Slips = {s1}
  Answers = {"succeeded", "pending"}
  MaxFaults = 0
SYMMETRY Symmetry
ACTION_CONSTRAINT StaysInScope
INVARIANTS BooksAgree BooksFollowSquare VoidHoldsNoMoney
PROPERTIES RefundStands ImplementsBill
CHECK_DEADLOCK FALSE
