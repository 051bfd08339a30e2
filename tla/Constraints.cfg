CONSTANTS
  Calls <- MCCalls
  MaxCalls = 7
  MaxInteger = 99
SPECIFICATION BuilderSpec
INVARIANTS
  CallsStayInOrder BuilderAgreesWithParser BlanksAreOptional PrintedConstraintsReadBack
CHECK_DEADLOCK FALSE
