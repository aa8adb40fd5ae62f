CONSTANTS
  Messages <- MCMessages
  BlockSize = 4
  OverwriteModes = {TRUE, FALSE}
  CallbackSets <- AllCallbacks
  AppMayEnd = TRUE
  PeerMayTruncate = TRUE
  PeerMayFail = TRUE

SPECIFICATION Spec

INVARIANT TypeOK
INVARIANT ChunkDeliveryFaithful
INVARIANT DoneDeliversBody
INVARIANT CallbackProtocol
PROPERTY Termination
