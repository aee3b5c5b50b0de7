CONSTANTS
  Cap = 3
  MaxRead = 2
  MaxShown = 6
SPECIFICATION Spec
INVARIANT TypeOK
PROPERTIES OutputIsProcessed EndsWithShell
