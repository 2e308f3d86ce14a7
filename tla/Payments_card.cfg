\* Two billing runs charge the card on file; runs die and answers are lost.
CONSTANTS
  Due = 2
  Chargers = {c1, c2}
  Tabs = {}
  Reps = {}
  Refunders = {r1}
  Handlers = {h1}
  Nonces = {n1, n2}
  Slips = {}
  Answers = {"succeeded", "failed"}
  MaxFaults = 2
SPECIFICATION FairSpec
CHECK_DEADLOCK FALSE
INVARIANTS ChargedOnce
PROPERTIES EveryChargeBooked
