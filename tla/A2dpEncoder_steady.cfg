\* A stream configured once (no second hw_params): the packets
\* handed to the socket, checked on the scaled sizes of A2dpEncoder.cfg.
SPECIFICATION SteadySpec
CONSTANTS
  FrameSize = 2
  Codesize = 8
  FrameLen = 3
  HeaderLen = 2
  LinkMtu = 10
  Sizes = {1, 3, 5}
  StartThreshold = 4
  PeriodSize = 4
  BufferSize = 8
  MaxCalls = 5
  MaxPeriods = 3
  TsModulus = 65536
INVARIANT PacketsWellFormed
