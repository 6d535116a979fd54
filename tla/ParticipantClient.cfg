SPECIFICATION FairSpec
CONSTANTS
  Answer = {a1}
  Slot = {k1, k2}
  MaxAttempts = 2
  MaxFaults = 1
  None = None
INVARIANTS TypeOK StoredOnce RetriesBounded
PROPERTIES AnswersArrive PageLearns
CHECK_DEADLOCK FALSE
