CONSTANTS
  Ids = {i1, i2, i3}
  Consumers = {c1, c2}
  None = None
SPECIFICATION FairSpec
INVARIANTS TypeOK Exclusive IndexExact
PROPERTIES ImplementsEventQueue EveryEventLeaves
