\* Every platform (which candidate fields are writable), every starting
\* field value among DIV_1, DIV_2 and DIV_8, the controller busy or idle.
CONSTANTS
  Divs <- MCDivs
  Div8 = 3
SPECIFICATION Spec
\* ShellAppMain returns after RestoreSpiClockSpeed.
CHECK_DEADLOCK FALSE
INVARIANT TypeOK
INVARIANT ProbeRestores
