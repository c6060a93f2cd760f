\* Scaled A2DP sizes: two SBC frames per packet (2 + 3 + 3 + 3 >= 10), a
\* block of 4 PCM frames, writes of 1, 3 and 5 frames (remainders of every length).
SPECIFICATION Spec
CONSTANTS
  FrameSize = 2
  Codesize = 8
  FrameLen = 3
  HeaderLen = 2
  LinkMtu = 10
  Sizes = {1, 3, 5}
  StartThreshold = 4
  PeriodSize = 4
  BufferSize = 8
  MaxCalls = 5
  MaxPeriods = 3
  TsModulus = 65536
INVARIANT TypeOK
INVARIANT PcmConserved
INVARIANT BuffersInBounds
PROPERTY WriteContract
