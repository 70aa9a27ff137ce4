SPECIFICATION FairSpec
CONSTANTS
  t1 = t1
  t2 = t2
  v1 = v1
  v2 = v2
  NoKey = NoKey
  Filed = Filed
  Nobody = Nobody
  Turns <- MCTurns
  Values = {v1, v2}
  Sayings <- MCSayings
  Callers = {c1}
  Sweep = sweep
  MaxFaults = 1
INVARIANTS OneQuestionPerDisagreement OpenQuestionsKeepTheirClaim SilenceKeepsTheCard RetiredIsReplaced
PROPERTIES HeldLeaves
CHECK_DEADLOCK FALSE
