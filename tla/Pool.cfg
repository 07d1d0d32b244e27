\* Four handlers of any kind, one after the other, and two connections.
SPECIFICATION Spec
CONSTANTS
  Handlers = {"h1", "h2", "h3", "h4"}
  PoolSize = 2
INVARIANTS
  TypeOK
  WaitersHoldNothing
PROPERTIES
  OnlyLoginsBlock
  WaitersAreServed
