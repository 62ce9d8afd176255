SPECIFICATION FairSpec
CONSTANTS
  c1 = c1
  Callers = {c1}
  MaxNamespaces = 2
  Active <- MCActive
  Logs <- MCLogs
  Kernels <- AllKernels
INVARIANTS TypeOK NeverTwice
PROPERTIES ListIsCurrent GenericIsMeasured OldKernelsServe CallReturns
