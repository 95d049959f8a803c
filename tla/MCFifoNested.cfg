SPECIFICATION Spec
CONSTANTS
  Max = 3
  MaxWritten = 5
  Programs <- Sound
INVARIANTS ReadsOldest QuietAgrees
