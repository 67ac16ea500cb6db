SPECIFICATION ConsoleSpec
CONSTANTS
  Persons = {p1, p2}
  MyAgent = mine
  MaxQuestions = 2
  QueueSize = 3
SYMMETRY MCPersons
INVARIANTS AnswerInOwnThread HighlightTrue
