\* HostInit alone, which Scalr may broadcast back as soon as it was sent,
\* and a database that does not raise.
SPECIFICATION ConsumerSpec
CONSTANTS
  Main = Main  Handler = Handler  Sub = Sub  a1 = a1
  HostInit = HostInit  ForeignHostInit = ForeignHostInit
  HostInitResponse = HostInitResponse  BeforeHostUp = BeforeHostUp
  NoMsg = NoMsg
  Messages <- MCHostInit
  Replies <- MCNone
  Outgoing <- MCNone
  Acceptors <- MCAcceptors
  Clients <- MCClients
  TailLength = 50
  MaxPuts = 1
  MaxRestarts = 0
  MaxRaises = 0
CHECK_DEADLOCK FALSE
PROPERTIES HostInitFires
