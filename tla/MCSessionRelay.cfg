SPECIFICATION Spec
CONSTANTS
  Zero = Zero
  One = One
  Two = Two
  Codes = {Zero, Two}
  MaxOut = 2
  MaxIn = 2
  Cap = 2
INVARIANTS StreamsInOrder ExitTruthful
PROPERTIES SessionEnds
