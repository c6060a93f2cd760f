\* bluetoothd always answers within RECV_TIMEOUT and allocation never fails:
\* every message taken from the control socket answers the last request.
CONSTANTS
  RemoteRates <- MCRemoteRates
  RemoteModes <- MCRemoteModes
  MtuValues <- MCMtuValues
  MaxReqs = 9
  ReplyMayBeLate = FALSE
  AllocMayFail = FALSE
SPECIFICATION Spec
PROPERTY ReplyAnswersLastRequest
