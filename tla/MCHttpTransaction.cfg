\* Two transactions at the same time, with any requests.
CONSTANTS
  t1 = t1
  t2 = t2
  Transactions = {t1, t2}
  Kinds <- MCKinds
SPECIFICATION FairSpec
INVARIANT HttpInv
INVARIANT ChangedAsAsked
INVARIANT RefusedChangesNothing
PROPERTY AnswerEnds
\* All transactions can be done, or wait without an answer.
CHECK_DEADLOCK FALSE
