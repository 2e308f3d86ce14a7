\* A quote sent by two members of staff at once, and signed by either of two
\* links or at the door.
CONSTANTS
  Quotes = {q1}
  Terms = {byCard, paper}
  CardTerms = {byCard}
  PaperTerms = {paper}
  Numbers = {n1, n2}
  Signers = {c1, c2}
  Reps = {r1}
  Staff = {s1, s2}
  CardListed = TRUE
SPECIFICATION Spec
SYMMETRY Symmetry
CHECK_DEADLOCK FALSE
INVARIANTS DealCoherent
PROPERTIES CardStays ImplementsOffer
