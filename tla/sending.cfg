SPECIFICATION FairSpec
CONSTANTS
  c1 = c1
  c2 = c2
  Chat = {c1, c2}
  Query = {q1, q2}
  Requests <- Mixed
  MaxConcurrent = 2
INVARIANTS CountsExact AwaitedExact AnswerIsTrue
PROPERTIES QueriesAnswered
CHECK_DEADLOCK FALSE
