SPECIFICATION PtyFairSpec
CONSTANTS
  Nil = Nil
  Runs <- MCRuns
  MaxTries = 2
INVARIANTS
  SecretAtItsPrompt
  PromptServed
  SavedIsAccepted
  HeldUntilInjected
  ScannerEndsWithTerminal
PROPERTY RunReturns
