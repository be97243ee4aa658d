CONSTANTS
  Divs <- MCDivs
  Div8 = 3
SPECIFICATION Spec
\* ShellAppMain returns after RestoreSpiClockSpeed.
CHECK_DEADLOCK FALSE
INVARIANT ClockRestoredOnExit
