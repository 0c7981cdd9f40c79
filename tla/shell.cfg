SPECIFICATION FairSpec
CONSTANTS
  Callers = {c1, c2}
  Codes = {"ok", "error"}
  Background = TRUE
  MaxCommands = 3
  MaxLines = 1
INVARIANTS IInv
PROPERTIES IsSerial CommandsFinish CloseEnds
CHECK_DEADLOCK FALSE
