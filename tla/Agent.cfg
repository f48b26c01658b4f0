\* Two rounds of up to two calls, and texts with up to two citations.
SPECIFICATION Spec

CONSTANTS
  Tokens <- MCTokens
  Digits <- MCDigits
  Sources <- MCSources
  Citations <- MCCitations
  MaxHops = 2
  MaxCalls = 2
  MaxFound = 2
  MaxCites = 2

INVARIANTS
  CitationsAreGrounded
  ReturnedCanBeCited

PROPERTIES
  AnsweredInTheEnd

\* A run ends when its answer is recorded.
CHECK_DEADLOCK FALSE
