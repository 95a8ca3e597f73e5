SPECIFICATION FairSpec
CONSTANTS
  Query = {"q1", "q2", "q3"}
  Loads <- MCLoads
  Username = {newsbot, quizbot}
  NewsBot = newsbot
  QuizBot = quizbot
  RealId <- MCRealId
  MyId <- MCMyId
  Keyboards <- MCKeyboards
  Results <- MCResults
  File = {"file"}
INVARIANTS HeldOnce ActsInside ChecksHold ResolveCountsExact ButtonsResolvable ListenersServed
PROPERTIES QueriesAnswered
