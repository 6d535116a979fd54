SPECIFICATION FairSpec
CONSTANTS
  Participant = {p1, p2}
  p1 = p1
  p2 = p2
  q1 = q1
  q2 = q2
  Questions <- TwoQuestions
  Willing <- OneAnswersAll
  MaxAttempts = 1
  Budget = 3
  MaxHandlers = 2
  MaxFrames = 1
  MaxFaults = 1
  None = None
INVARIANTS TypeOK NeverAhead RollupsRepair LateOnlyIfUnderWay
PROPERTY HostLearns
CHECK_DEADLOCK FALSE
