\* One application thread that reopens the same device: the unlocked scan
\* of bluetooth_find_outstanding_data() against the watcher's timeout.
CONSTANTS
  o1 = o1  o2 = o2  d1 = d1  d2 = d2  d3 = d3  dev1 = dev1  dev2 = dev2  None = None
  Openers <- MCOneOpener
  Sessions <- MCSessions
  Devices <- MCOneDevice
  MaxNodes = 3
  MaxOpens = 3
SPECIFICATION Spec
INVARIANT NoUseAfterFree
