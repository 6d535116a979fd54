SPECIFICATION Spec
CONSTANTS
  Person = {p1, p2}
  Prompt = {"", "q"}
  Option = {"", "a", "b"}
  Blank = ""
  Half = {0, 3, 4}
  Length = {0, 1, 500, 2001}
  MinOptions = 2
  MaxOptions = 3
  MaxQuestions = 2
  EditorLength = 500
  FormLength = 2000
  AnswerLength = 2000
  MaxSamples = 1
  DraftQuestions = 2
  DraftOptions = 4
INVARIANTS TypeOK BarsMatch TotalsMatch FramesAdmitted Finishable
CHECK_DEADLOCK FALSE
SYMMETRY Symmetry
