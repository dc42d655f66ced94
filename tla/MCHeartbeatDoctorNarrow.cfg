\* A terminal narrower than 39 columns: the bar and the retrieval time no longer fit.
CONSTANTS
  HeartRates = {50, 60, 87, 100}
  TerminalWidths = {30, 80}
  MsWidths = {8}
  MaxKits = 3
SPECIFICATION Spec
CHECK_DEADLOCK FALSE
INVARIANT
  LineFitsTerminal
