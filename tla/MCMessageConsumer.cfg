\* A server that initializes and one that was initialized; any three of
\* HostInit of this and of another server, HostInitResponse and
\* BeforeHostUp, each once and as early as Scalr can send it.
SPECIFICATION ConsumerSafety
CONSTANTS
  Main = Main  Handler = Handler  Sub = Sub  a1 = a1
  HostInit = HostInit  ForeignHostInit = ForeignHostInit
  HostInitResponse = HostInitResponse  BeforeHostUp = BeforeHostUp
  NoMsg = NoMsg
  Messages <- MCMessages
  Replies <- MCNone
  Outgoing <- MCNone
  Acceptors <- MCAcceptors
  Clients <- MCClients
  TailLength = 50
  MaxPuts = 3
  MaxRestarts = 0
  MaxRaises = 1
CHECK_DEADLOCK FALSE
INVARIANTS ConsumerTypeOK AckComing AckedBeforeProceeding QuietWhenDown
PROPERTIES NoDoubleHandling
