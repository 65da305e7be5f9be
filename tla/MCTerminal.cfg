\* Four lines; some lines and answers are longer than one read.
CONSTANTS
  ReadSize = 2
  Sizes <- ShortAndLong
  MaxLines = 4
SPECIFICATION Spec
INVARIANTS
  AnswersPaired
PROPERTIES
  TerminalGoesOn
CHECK_DEADLOCK FALSE
