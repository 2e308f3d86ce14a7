\* An unsubscribe arrives while the queue is sending that message.
CONSTANTS
  Workers = {w1}
  MaxMessages = 1
  ColdEmails = {1}
  BatchLimit = 1
  LeaseTicks = 2
  MaxAttempts = 2
  SendLater = {0}
  Answers = {"accepted", "temporary"}
  MaxFaults = 0
SPECIFICATION Spec
CHECK_DEADLOCK FALSE
PROPERTIES WithdrawnStaysOut
