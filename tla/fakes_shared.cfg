SPECIFICATION Spec
CONSTANTS
  Fake = "statuswriter"
  Threads = {t1, t2, t3}
  MaxCalls = 4
INVARIANTS
  IInv
  SnapshotAgrees
  EachAnswerOnce
  NilStubIsARace
  OnlyMutexesBlock
  BlockedByInvocations
\* The goroutines end, and Invocations may block a call for good.
CHECK_DEADLOCK FALSE
