CONSTANTS
  MAXPARAM = 3
  Numbers = {0, 2, 25}
  MaxParams = 2
  Height = 3
SPECIFICATION Spec
INVARIANTS DecodesWhatIsMeant InStep
