\* bluetoothd answers every request and sends nothing on its own; the link
\* never drops: hw_params on a session whose clock thread is still polling.
CONSTANTS
  PeriodSize = 1
  BufferSize = 2
  MaxFrags = 2
  MaxThreads = 2
  MaxOps = 8
  MaxUnsolicited = 0
  LinkMayDrop = FALSE
SPECIFICATION Spec
INVARIANT ControlExchangesSucceed
