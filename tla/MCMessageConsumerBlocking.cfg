\* A server that initializes, and a database that does not raise.
SPECIFICATION ConsumerSafety
CONSTANTS
  Main = Main  Handler = Handler  Sub = Sub  a1 = a1
  HostInit = HostInit  ForeignHostInit = ForeignHostInit
  HostInitResponse = HostInitResponse  BeforeHostUp = BeforeHostUp
  NoMsg = NoMsg
  Messages <- MCMessages
  Replies <- MCNone
  Outgoing <- MCNone
  Acceptors <- MCAcceptors
  Clients <- MCClients
  TailLength = 50
  MaxPuts = 4
  MaxRestarts = 0
  MaxRaises = 0
CHECK_DEADLOCK FALSE
INVARIANTS BeforeHostUpBlocks
