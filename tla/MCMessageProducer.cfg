\* Two threads that share the retrying producer, one producer that does not
\* retry, two messages, a progression of two intervals, a tail of one row.
SPECIFICATION ProducerSpec
CONSTANTS
  s1 = s1  s2 = s2  n1 = n1  o1 = o1  o2 = o2
  NoMsg = NoMsg
  Messages <- MCNone
  Replies <- MCNone
  Acceptors <- MCNone
  Clients <- MCNone
  Outgoing <- MCOutgoing
  Senders <- MCSenders
  NoRetry <- MCNoRetry
  Progression <- MCProgression
  TailLength = 1
  MaxPuts = 0
  MaxRestarts = 0
  OldPython = TRUE
  DbRaises = TRUE
  MaxCount = 3
CHECK_DEADLOCK FALSE
INVARIANTS ProducerTypeOK BackoffFollowsProgression ResultIsTrue CopiesOnlyInDoubt
PROPERTIES SendEnds
