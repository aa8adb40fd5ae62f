CONSTANTS
  Inputs <- MCInputs
  CharSigned = FALSE
  Garbage = {"junk"}
SPECIFICATION Spec
CHECK_DEADLOCK FALSE
PROPERTY EncoderSpec
INVARIANT BufferFits
