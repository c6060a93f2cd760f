\* bluetoothd may answer after RECV_TIMEOUT, and realloc() of the transfer
\* buffers may fail after SET_CONFIGURATION succeeded: either leaves a reply
\* in the socket that a later receive takes.
CONSTANTS
  RemoteRates <- MCRemoteRates
  RemoteModes <- MCRemoteModes
  MtuValues <- MCMtuValues
  MaxReqs = 7
  ReplyMayBeLate = TRUE
  AllocMayFail = TRUE
SPECIFICATION Spec
PROPERTY ReplyAnswersLastRequest
