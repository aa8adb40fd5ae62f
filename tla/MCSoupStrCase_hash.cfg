CONSTANTS
  Keys <- MCKeys
  CharSigned = TRUE
SPECIFICATION Spec
CHECK_DEADLOCK FALSE
INVARIANT EqualKeysHashAlike
