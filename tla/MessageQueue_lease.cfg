\* Two workers, crashes, every answer; leases run out under a slow batch.
CONSTANTS
  Workers = {w1, w2}
  MaxMessages = 2
  ColdEmails = {2}
  BatchLimit = 2
  LeaseTicks = 2
  MaxAttempts = 2
  SendLater = {0, 1}
  Answers = {"accepted", "temporary", "permanent", "lost"}
  MaxFaults = 2
SPECIFICATION FairSpec
CHECK_DEADLOCK FALSE
INVARIANTS NoTwoHolders BudgetHolds NoEarlyGiveUp
PROPERTIES SentIsNotSentAgain ImplementsOutbox EverythingSettles
