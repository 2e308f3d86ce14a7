SPECIFICATION Spec
CONSTANTS
  Due = 1
  Chargers = {c1}
  Tabs = {}
  Reps = {}
  Refunders = {r1}
  Handlers = {h1, h2}
  Nonces = {}
  Slips = {}
  Answers = {"succeeded", "pending", "failed"}
  MaxFaults = 0
PROPERTY RefundedIsFinal
CHECK_DEADLOCK FALSE
