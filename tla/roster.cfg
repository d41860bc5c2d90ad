\* Batches of up to three grants to six players, repeated players included.
SPECIFICATION Spec
CONSTANTS
  Player = {p1, p2, p3, p4, p5, p6}
  Capacities <- MCCapacities
  NoShard = NoShard
  MaxGrants = 3
  MaxShards = 7
INVARIANTS TypeOK ChainWellFormed
PROPERTY ImplementsRegistry
CHECK_DEADLOCK FALSE
