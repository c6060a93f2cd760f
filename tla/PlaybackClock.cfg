\* Two periods in the buffer, up to two periods per clock pass, two clock
\* threads, eight application calls, one DELAY_REPORT bluetoothd sends on
\* its own and a link that may drop.
CONSTANTS
  PeriodSize = 1
  BufferSize = 2
  MaxFrags = 2
  MaxThreads = 2
  MaxOps = 8
  MaxUnsolicited = 1
  LinkMayDrop = TRUE
SPECIFICATION FairSpec
INVARIANT ClockQuietWhilePrepared
PROPERTY JoinReturns
