SPECIFICATION FairSpec
CONSTANTS
  Rows = {1, 2, 3, 4}
  Scopes = {"same", "other"}
  Scope <- MCScope
  MaxRestarts = 3
INVARIANTS TypeOK AnsweredBeforeUse
PROPERTIES AnswerIsFinal BlockedEnds
CHECK_DEADLOCK FALSE
