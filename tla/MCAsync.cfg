SPECIFICATION FairSpec
CONSTANTS
  t1 = t1
  t2 = t2
  a1 = a1
  a2 = a2
  sock = sock
  pipe = pipe
  dev = dev
  Threads = {t1, t2}
  Asyncs = {a1, a2}
  Fds = {sock, pipe, dev}
  Kind <- TheKind
  Attrs <- TheAttrs
  Mortal = {t1}
  ReadyMax = 1
  CancelMax = 2
INVARIANTS CompletedOnce CancelCounts
PROPERTY AsyncEnds
CHECK_DEADLOCK FALSE
