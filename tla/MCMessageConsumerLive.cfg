\* The messages of the initialization, each once and as early as Scalr can
\* send it, and a database that does not raise.
SPECIFICATION ConsumerSpec
CONSTANTS
  Main = Main  Handler = Handler  Sub = Sub  a1 = a1
  HostInit = HostInit  ForeignHostInit = ForeignHostInit
  HostInitResponse = HostInitResponse  BeforeHostUp = BeforeHostUp
  NoMsg = NoMsg
  Messages <- MCThree
  Replies <- MCNone
  Outgoing <- MCNone
  Acceptors <- MCAcceptors
  Clients <- MCClients
  TailLength = 50
  MaxPuts = 3
  MaxRestarts = 0
  MaxRaises = 0
CHECK_DEADLOCK FALSE
PROPERTIES HostInitFiresOrMishap AcceptedIsListened
