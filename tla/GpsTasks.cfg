\* A message task from its construction to its end.
SPECIFICATION TaskFairSpec
CONSTANTS
  m1 = m1
  m2 = m2
  m3 = m3
  Msgs <- ThreeMsgs
INVARIANTS LiveWhenUsed HandledInOrder
PROPERTIES TaskProgress
\* The task ends for good.
CHECK_DEADLOCK FALSE
