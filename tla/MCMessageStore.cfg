\* Two HTTP threads, a message that is accepted and one that is a reply (500),
\* put twice in all (two messages, or one and its redelivery), an outgoing
\* message, a tail of one row, a restart.
SPECIFICATION StoreSpec
CONSTANTS
  m1 = m1  m2 = m2  o1 = o1  a1 = a1  a2 = a2  c1 = c1
  NoMsg = NoMsg
  Messages <- MCMessages
  Replies <- MCReplies
  Outgoing <- MCOutgoing
  Acceptors <- MCAcceptors
  Clients <- MCClients
  TailLength = 1
  MaxPuts = 2
  MaxRestarts = 1
CHECK_DEADLOCK FALSE
INVARIANTS StoreTypeOK NoAcceptedLoss PendingRecorded StoreInv
PROPERTIES RotateKeepsTail AcceptedIsHandled ImplementsMailbox
