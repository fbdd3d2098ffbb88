SPECIFICATION FairSpec
CONSTANTS
  a = a
  b = b
  m1 = m1
  m2 = m2
  m3 = m3
  m4 = m4
  Threads = {a, b}
  NoThread = none
  Messages = {m1, m2, m3, m4}
  NoMessage = nothing
  Attrs <- TheAttrs
  Mortal = {b}
  Depth = 4
INVARIANTS ResultsOwned RightReply
PROPERTY SendReturns
CHECK_DEADLOCK FALSE
