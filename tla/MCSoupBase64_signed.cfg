CONSTANTS
  Inputs <- MCInputs
  CharSigned = TRUE
  Garbage = {"junk"}
SPECIFICATION Spec
CHECK_DEADLOCK FALSE
INVARIANT Base64Correct
