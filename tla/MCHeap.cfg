SPECIFICATION HeapSpec
CONSTANTS
  HeapStart = 4
  HeapEnd = 18
  MaxRequest = 3
  MaxCalls = 4
INVARIANTS
  HeapTypeOK
  SafeUntilExhausted
  HeapGivenOnce
CHECK_DEADLOCK FALSE
