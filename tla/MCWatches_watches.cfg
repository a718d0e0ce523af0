SPECIFICATION FairSpec
CONSTANTS
  Thread = {t1, t2}
  Channel = {c1, c2}
  Source = {s1, s2, s3}
  MaxDepth = 2
  NULL = NULL
CHECK_DEADLOCK FALSE
INVARIANT OneSource
INVARIANT WrappersExact
INVARIANT NoDeadResume
PROPERTY ImplementsCoroutines
PROPERTY Served
