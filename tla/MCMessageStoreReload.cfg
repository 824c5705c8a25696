\* One message, put once, and a restart.
SPECIFICATION StoreSafety
CONSTANTS
  m1 = m1  m2 = m2  o1 = o1  a1 = a1  a2 = a2  c1 = c1
  NoMsg = NoMsg
  Messages <- MCOne
  Replies <- MCNone
  Outgoing <- MCNone
  Acceptors <- MCAcceptors
  Clients <- MCClients
  TailLength = 50
  MaxPuts = 1
  MaxRestarts = 1
CHECK_DEADLOCK FALSE
PROPERTIES LoadsUnhandledOnly
