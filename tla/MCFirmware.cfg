SPECIFICATION Spec
CONSTANTS
  Half = 3
  MaxTime = 5
  Delays = {0, 2}
  Loads = {0, 2}
  AllOnes = 5
  RstCycles = 2
  UartDepth = 2
  Printed = 305419896
  Arrivals <- MCArrivals
  SpiDepth = 2
  Pins = {0, 4}
  Strobed = {0}
  WrDepth = 3
  MaxCalls <- MCCalls
INVARIANTS FirmwareTypeOK ClintKept TimersKept SerialKept IrqKept VerdictIsOurs
\* A program makes its calls and ends.
CHECK_DEADLOCK FALSE
