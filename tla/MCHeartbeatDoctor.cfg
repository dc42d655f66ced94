\* The doctor on terminals of 39 columns and more, heart rates 50-100 BPM, retrievals under 100 s.
CONSTANTS
  HeartRates = {50, 60, 87, 100}
  TerminalWidths = {39, 40, 80, 200}
  MsWidths = {8}
  MaxKits = 3
SPECIFICATION Spec
CHECK_DEADLOCK FALSE
INVARIANTS
  TypeOK
  LineFitsTerminal
