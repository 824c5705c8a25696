\* An asynchronous and a synchronous script of a message, over stops, kills and
\* restarts of scalarizr.  MaxStops ends the behaviours: no deadlock check.
SPECIFICATION ScriptSpec

CONSTANTS
  Scripts <- MCScripts
  Async <- MCAsync
  Messages <- MCMessages
  MaxRuns = 2
  MaxStops = 2

CHECK_DEADLOCK FALSE

INVARIANTS
  ExecutedOnce
  SentTwiceOnlyLate

PROPERTIES
  ResultSent
