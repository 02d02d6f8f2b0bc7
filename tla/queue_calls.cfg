SPECIFICATION FairSpec
CONSTANTS
  Producer = {p1, p2}
  Consumer = {c1, c2}
  Item = {a, b}
  Capacity = 2
  MaxPushes = 3
INVARIANT TypeOK
INVARIANT NoLostWakeup
INVARIANT NobodySleepsAfterClose
PROPERTY ImplementsChannel
PROPERTY CallsReturnAfterClose
