SPECIFICATION Spec
CONSTANTS
  Keys = {k1}
  Calls = {c1, c2}
  Setup = Setup
  MaxSessions = 2
  MaxOut = 2
INVARIANTS
  AnswerIsOwn
  OneAtATime
  EndIsSeen
PROPERTIES
  LimitsHold
  NoPromptLeft
