CONSTANTS
  Messages <- ChunkedOrHuge
  BlockSize = 4
  OverwriteModes = {TRUE, FALSE}
  CallbackSets <- AllCallbacks
  AppMayEnd = FALSE
  PeerMayTruncate = FALSE
  PeerMayFail = FALSE

SPECIFICATION Spec

INVARIANT NoAbort
