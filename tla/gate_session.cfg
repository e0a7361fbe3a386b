SPECIFICATION Spec
CONSTANTS
  Texts <- MCTexts
  Setups <- MCSetups
  MaxChecks = 3
INVARIANTS TreeIsTheSessions MendedTextSeen
PROPERTY NoFullBuildOnceDegraded
