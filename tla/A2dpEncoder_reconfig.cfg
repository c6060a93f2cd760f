\* hw_params again after playback: bluetooth_a2dp_setup() empties the wire
\* buffer but keeps frame_count, so the next header counts stale frames.
SPECIFICATION Spec
CONSTANTS
  FrameSize = 2
  Codesize = 8
  FrameLen = 3
  HeaderLen = 2
  LinkMtu = 10
  Sizes = {1, 3, 5}
  StartThreshold = 4
  PeriodSize = 4
  BufferSize = 8
  MaxCalls = 5
  MaxPeriods = 3
  TsModulus = 65536
INVARIANT PacketsWellFormed
