\* Two rates, mono and joint stereo, bluetoothd errors: hw_params is retried
\* on a stream left OPENED, or called again with a new rate or channel count.
CONSTANTS
  RemoteRates <- MCRemoteRates
  RemoteModes <- MCRemoteModes
  MtuValues <- MCMtuValues
  MaxReqs = 7
  ReplyMayBeLate = FALSE
  AllocMayFail = FALSE
SPECIFICATION Spec
INVARIANT HwParamsOkMeansConfigured
