\* The office changes how the customer pays while they sign.
CONSTANTS
  Quotes = {q1}
  Terms = {hand, byCard}
  CardTerms = {byCard}
  PaperTerms = {}
  Numbers = {n1}
  Signers = {c1}
  Reps = {r1}
  Staff = {s1}
  CardListed = TRUE
SPECIFICATION Spec
CHECK_DEADLOCK FALSE
INVARIANTS BoxesSigned
