\* No link loss and no unsolicited DELAY_REPORT: the clock thread still
\* leaves its loop when bluetooth_exit() closes the sockets under it.
CONSTANTS
  PeriodSize = 1
  BufferSize = 2
  MaxFrags = 2
  MaxThreads = 2
  MaxOps = 8
  MaxUnsolicited = 0
  LinkMayDrop = FALSE
SPECIFICATION Spec
INVARIANT NoThreadLeak
