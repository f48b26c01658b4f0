\* A number two retrieved PRs carry, one of a repository whose name ends in a digit.
SPECIFICATION Spec

CONSTANTS
  Tokens <- MCTokens
  Digits <- MCDigits
  Sources <- MCSources
  Citations <- MCCitations
  MaxHops = 2
  MaxCalls = 2
  MaxFound = 2
  MaxCites = 2

INVARIANT
  UnqualifiedIsUnambiguous

\* A run ends when its answer is recorded.
CHECK_DEADLOCK FALSE
