\* One application thread that opens and closes the PCM three times, for
\* either of two devices (so that the scan passes over non-matching entries).
CONSTANTS
  o1 = o1  o2 = o2  d1 = d1  d2 = d2  d3 = d3  dev1 = dev1  dev2 = dev2  None = None
  Openers <- MCOneOpener
  Sessions <- MCSessions
  Devices <- MCTwoDevices
  MaxNodes = 3
  MaxOpens = 3
SPECIFICATION Spec
INVARIANT TypeOK OutstandingListSound
PROPERTY WatcherTerminates
PROPERTY ClosedSessionReleased
