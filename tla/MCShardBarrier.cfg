\* Two shards, each of whose nodes may fail once.
SPECIFICATION BarrierSpec
CONSTANTS
  Shards <- MCShards
  MaxBoots = 2
CHECK_DEADLOCK FALSE
INVARIANTS EveryoneEntered
PROPERTIES BarrierEnds
