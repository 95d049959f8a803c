SPECIFICATION Spec
CONSTANTS
  Max = 3
  MaxWritten = 4
  Programs <- Unsound
INVARIANT CleanExcludesRead
