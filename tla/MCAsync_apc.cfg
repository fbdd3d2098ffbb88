SPECIFICATION Spec
CONSTANTS
  t1 = t1
  t2 = t2
  a1 = a1
  a2 = a2
  sock = sock
  pipe = pipe
  dev = dev
  Threads = {t1, t2}
  Asyncs = {a1, a2}
  Fds = {sock, pipe, dev}
  Kind <- TheKind
  Attrs <- ApcAttrs
  Mortal = {}
  ReadyMax = 1
  CancelMax = 2
INVARIANT InOneGroup
CHECK_DEADLOCK FALSE
