SPECIFICATION Spec
CONSTANTS
    Setting <- MCSetting
    Starts <- MCStarts
    DayLength = 2
    Allowance <- MCAllowance
INVARIANTS
  UnknownIsNotZero
CHECK_DEADLOCK FALSE
