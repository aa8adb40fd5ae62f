CONSTANTS
  Header <- MCHeader
  Encodings <- BothEncodings
  InitialBodies <- MCInitialBodies
  ProducerResults <- MCProducerResults
  HasProducer = {TRUE, FALSE}
  MaxCalls = 3
  PeerMayFail = TRUE
  CallbacksSetErrno = FALSE
SPECIFICATION Spec
INVARIANT TypeOK
INVARIANT ContentLengthWire
INVARIANT WriterCallbackProtocol
PROPERTY Termination
