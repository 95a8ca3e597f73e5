SPECIFICATION Spec
CONSTANTS
  Query = {"q1", "q2", "q3"}
  Loads <- LeftLoads
  Username = {newsbot, quizbot}
  NewsBot = newsbot
  QuizBot = quizbot
  RealId <- MCRealId
  MyId <- MCMyId
  Keyboards <- MCKeyboards
  Results <- MCResults
  File = {"file"}
INVARIANT ChecksHold
