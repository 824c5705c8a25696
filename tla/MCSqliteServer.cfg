\* Proxies at two addresses, one after the other, call the server, with
\* timeouts.  The bounds on proxies and calls stop the run.
SPECIFICATION ServerSpec

CONSTANTS
  Hashes <- MCHashes
  MaxProxies = 2
  MaxCalls = 3

CHECK_DEADLOCK FALSE

INVARIANTS
  ServerTypeOK
  NoForeignAnswer
  OwnAnswer
  AnswersInOrder

PROPERTIES
  CallsReturn
