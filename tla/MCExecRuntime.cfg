SPECIFICATION FairSpec
CONSTANTS
  Cases <- MCCases
  Fields <- MCFields
  MaxPrompts = 3
  None = None
INVARIANTS ArgvFaithful DetachedFromMux NoOrphan AskpassInTurn
PROPERTY CallReturns
