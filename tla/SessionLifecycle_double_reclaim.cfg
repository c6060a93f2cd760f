\* Two application threads open the same device while its session waits
\* for reclaim: both may find it in the list before either unlinks it.
CONSTANTS
  o1 = o1  o2 = o2  d1 = d1  d2 = d2  d3 = d3  dev1 = dev1  dev2 = dev2  None = None
  Openers <- MCTwoOpeners
  Sessions <- MCSessions
  Devices <- MCOneDevice
  MaxNodes = 3
  MaxOpens = 3
SPECIFICATION Spec
INVARIANT ExclusiveOwnership
