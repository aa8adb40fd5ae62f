CONSTANTS
  Header <- MCHeader
  Encodings <- BothEncodings
  InitialBodies <- MCInitialBodies
  ProducerResults <- MCProducerResults
  HasProducer = {TRUE, FALSE}
  MaxCalls = 3
  PeerMayFail = TRUE
  CallbacksSetErrno = TRUE
SPECIFICATION Spec
PROPERTY WriterSpec
