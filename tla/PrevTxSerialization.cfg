CONSTANTS
  HashLen = 1
  Bytes = {0, 1}
  MaxScript = 1
  MaxIns = 1
  MaxOuts = 2
SPECIFICATION Spec
INVARIANTS
  PreimageDeterminesOutputs
