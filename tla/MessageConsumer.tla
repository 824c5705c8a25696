--------------------------- MODULE MessageConsumer ---------------------------
(***************************************************************************)
(* The P2P message consumer of scalarizr (messaging/p2p/consumer.py) on    *)
(* top of the message store, with the two callers that wait for an         *)
(* acknowledge: the lifecycle's _start_init on the main thread             *)
(* (wait_acknowledge of HostInit) and its on_HostInitResponse on the       *)
(* handler thread (wait_subhandler of BeforeHostUp).                       *)
(*                                                                         *)
(* Threads: the HTTP threads put messages; Handler runs message_handler;   *)
(* Sub is the message_handler thread that wait_subhandler starts; Main     *)
(* sends HostInit, waits for its acknowledge, and shuts the consumer down  *)
(* (force=True) at SIGTERM.  An acknowledge is the message itself, that    *)
(* Scalr broadcasts back.                                                  *)
(*                                                                         *)
(* Rotation, outgoing messages and restarts of the process go on beside    *)
(* this and touch none of the consumer's state: see MessageStore.          *)
(***************************************************************************)
EXTENDS MessageStore

CONSTANTS
  Main, Handler, Sub,      \* the threads
  HostInit,                \* the HostInit of this server, broadcast back
  ForeignHostInit,         \* the HostInit of another server
  HostInitResponse,        \* Scalr's answer to HostInit
  BeforeHostUp,            \* the BeforeHostUp of this server, broadcast back
  MaxRaises                \* bound: how many times marking a message raises

ASSUME ConsumerAssumption ==
  /\ Clients = {Main, Handler, Sub}
  /\ Cardinality(Clients) = 3
  /\ MaxRaises \in Nat

(* Every message has an id of its own: a uuid. *)
ASSUME DistinctMessages ==
  /\ HostInit \notin {ForeignHostInit, HostInitResponse, BeforeHostUp, NoMsg}
  /\ HostInitResponse \notin {ForeignHostInit, BeforeHostUp, NoMsg}
  /\ BeforeHostUp \notin {ForeignHostInit, NoMsg}

VARIABLES
  running,      \* self.running
  locked,       \* self.handler_locked
  status,       \* self.handler_status
  handing,      \* self.handing_message_id
  toAck,        \* self.message_to_ack
  returnOnAck,  \* self.return_on_ack
  ackEvent,     \* self.ack_event is set
  thread,       \* the two message_handler threads
  main,         \* where Main is
  asked,        \* which of HostInit and BeforeHostUp this server has sent
  hostInit,     \* the event host_init was fired
  hostUp,       \* on_HostInitResponse has sent HostUp
  overlapped,   \* history: wait_subhandler was called during wait_acknowledge
  missed,       \* history: HostInit was acknowledged before the wait could see it
  raised        \* history: how many times marking a message raised

sharedVars == <<running, locked, status, handing, toAck, returnOnAck, ackEvent>>
historyVars == <<overlapped, missed, raised>>
lifeVars == <<asked, hostInit, hostUp, overlapped, missed, raised>>
consumerVars == <<running, locked, status, handing, toAck, returnOnAck, ackEvent,
                  thread, main, asked, hostInit, hostUp, overlapped, missed, raised>>
allVars == <<storeVars, consumerVars>>

HandlerThreads == {Handler, Sub}

HandlerPcs == {"off", "start", "top", "list", "scan", "begin", "listen", "want", "kind",
               "spawn", "join", "mark", "row", "end", "ack", "return"}
MainPcs == {"init", "sent", "keyed", "want", "clear", "waiting", "up",
            "closing", "locking", "marking", "row", "joining", "down", "failed"}

(* The main thread of a new server starts at "init", that of a server which *)
(* was initialized before at "up".                                          *)
ConsumerInit ==
  /\ StoreInit
  /\ running = TRUE
  /\ locked = FALSE
  /\ status = "stopped"
  /\ handing = NoMsg
  /\ toAck = NoMsg
  /\ returnOnAck = FALSE
  /\ ackEvent = FALSE
  /\ thread = [t \in HandlerThreads |->
                 [pc |-> IF t = Handler THEN "start" ELSE "off", mode |-> "all",
                  todo |-> {}, msg |-> NoMsg]]
  /\ main \in {"init", "up"}
  /\ asked = {}
  /\ hostInit = FALSE
  /\ hostUp = FALSE
  /\ overlapped = FALSE
  /\ missed = FALSE
  /\ raised = 0

-----------------------------------------------------------------------------
(* The HTTP thread and Scalr.                                               *)

(* The HTTP server runs until shutdown closes it. *)
ServerOpen == main \notin {"locking", "marking", "row", "joining", "down", "failed"}

(* What Scalr sends, and when: it broadcasts HostInit and BeforeHostUp back *)
(* once they were sent, and answers HostInit with HostInitResponse, which   *)
(* can be decrypted once Main has written the new key.                      *)
MaySend(m) ==
  /\ m \in {HostInit, BeforeHostUp} => m \in asked
  /\ m = HostInitResponse => HostInit \in asked /\ main # "sent"

(* Every message is delivered once here: MessageStore has the redeliveries. *)
Receive(a, m) ==
  /\ ServerOpen
  /\ m \notin seen
  /\ MaySend(m)
  /\ PutCache(a, m)
  /\ UNCHANGED consumerVars

(* The rest of do_POST. *)
Serve(a) ==
  /\ PutRow(a) \/ PutRowRaises(a) \/ ReplyRaises(a) \/ Accept(a)
  /\ UNCHANGED consumerVars

-----------------------------------------------------------------------------
(* message_handler, in thread t.                                            *)

Goto(t, pc) == thread' = [thread EXCEPT ![t].pc = pc]
At(t, pc) == thread[t].pc = pc

(* self.handler_status = 'idle', before the loop *)
Start(t) ==
  /\ At(t, "start")
  /\ status' = "idle"
  /\ Goto(t, "top")
  /\ UNCHANGED <<storeVars, running, locked, handing, toAck, returnOnAck, ackEvent, main, lifeVars>>

(* The loop's conditions: leave it, or choose to look for the acknowledge   *)
(* or to take every message; a locked handler sleeps and looks again.       *)
Top(t) ==
  /\ At(t, "top")
  /\ \/ /\ ~running
        /\ status' = "stopped"
        /\ Goto(t, "off")
     \/ /\ running /\ ~locked
        /\ thread' = [thread EXCEPT ![t].pc = "list",
                                    ![t].mode = IF toAck # NoMsg THEN "ack" ELSE "all"]
        /\ UNCHANGED status
  /\ UNCHANGED <<storeVars, running, locked, handing, toAck, returnOnAck, ackEvent, main, lifeVars>>

(* get_unhandled: a copy of the list, that it loads on first use. *)
GetUnhandled(t) ==
  /\ At(t, "list")
  /\ loaded
  /\ thread' = [thread EXCEPT ![t].pc = "scan", ![t].todo = cache]
  /\ UNCHANGED <<storeVars, sharedVars, main, lifeVars>>

LoadList ==
  /\ \E t \in HandlerThreads : At(t, "list")
  /\ LoadSelect \/ LoadFinish
  /\ UNCHANGED consumerVars

(* Mutant: the server id is not looked at. *)
AcknowledgesByName(m) == m = toAck \/ (toAck = HostInit /\ m = ForeignHostInit)

(* Mutant: the first message on the list is taken for the one awaited. *)
AcknowledgesAny(m) == toAck # NoMsg

(* The message has the name, and the server id if any, of the one awaited. *)
Acknowledges(m) == m = toAck

First(entries) == CHOOSE e \in entries : \A f \in entries : e.at <= f.at

(* The next message of the copy: in its order, or the awaited one alone.    *)
(* At the end, and also when another thread has reset message_to_ack, which *)
(* raises, back to the loop.                                                *)
Scan(t) ==
  LET wanted == IF thread[t].mode = "all" THEN thread[t].todo
                ELSE {e \in thread[t].todo : Acknowledges(e.msg)}
  IN /\ At(t, "scan")
     /\ thread' = IF wanted = {}
                  THEN [thread EXCEPT ![t].pc = "top", ![t].todo = {}]
                  ELSE [thread EXCEPT ![t].pc = "begin",
                                      ![t].msg = First(wanted).msg,
                                      ![t].todo = @ \ {First(wanted)}]
     /\ UNCHANGED <<storeVars, sharedVars, main, lifeVars>>

(* _handle_one_message: the listeners are called.  History: HostInit that   *)
(* comes up in a walk of the whole list acknowledges nothing.               *)
Begin(t) ==
  /\ At(t, "begin")
  /\ status' = "running"
  /\ handing' = thread[t].msg
  /\ missed' = (missed \/ (thread[t].msg = HostInit /\ thread[t].mode = "all"))
  /\ Goto(t, "listen")
  /\ UNCHANGED <<storeVars, running, locked, toAck, returnOnAck, ackEvent, main,
                 asked, hostInit, hostUp, overlapped, raised>>

(* The listeners return or raise: either way the message is marked. *)
Listened(t) ==
  /\ At(t, "listen")
  /\ Goto(t, "mark")
  /\ UNCHANGED <<storeVars, sharedVars, main, lifeVars>>

(* on_HostInitResponse sends BeforeHostUp and waits for a subhandler. *)
SendBeforeHostUp ==
  /\ At(Handler, "listen")
  /\ thread[Handler].msg = HostInitResponse
  /\ asked' = asked \cup {BeforeHostUp}
  /\ Goto(Handler, "want")
  /\ UNCHANGED <<storeVars, sharedVars, main, hostInit, hostUp, historyVars>>

(* Main is on its way into wait_acknowledge, or in it and not woken yet: the *)
(* two waits share message_to_ack, return_on_ack and ack_event.             *)
AckPending ==
  main \in {"keyed", "want", "clear"} \/ (main = "waiting" /\ ~ackEvent)

(* Mutant: the message that is being handled is awaited. *)
SubWantOwn ==
  /\ At(Handler, "want")
  /\ toAck' = thread[Handler].msg
  /\ overlapped' = (overlapped \/ AckPending)
  /\ Goto(Handler, "kind")
  /\ UNCHANGED <<storeVars, running, locked, status, handing, returnOnAck, ackEvent, main,
                 asked, hostInit, hostUp, missed, raised>>

SubWant ==
  /\ At(Handler, "want")
  /\ toAck' = BeforeHostUp
  /\ overlapped' = (overlapped \/ AckPending)
  /\ Goto(Handler, "kind")
  /\ UNCHANGED <<storeVars, running, locked, status, handing, returnOnAck, ackEvent, main,
                 asked, hostInit, hostUp, missed, raised>>

SubKind ==
  /\ At(Handler, "kind")
  /\ returnOnAck' = TRUE
  /\ Goto(Handler, "spawn")
  /\ UNCHANGED <<storeVars, running, locked, status, handing, toAck, ackEvent, main, lifeVars>>

SubSpawn ==
  /\ At(Handler, "spawn")
  /\ thread' = [thread EXCEPT ![Handler].pc = "join", ![Sub].pc = "start"]
  /\ UNCHANGED <<storeVars, sharedVars, main, lifeVars>>

(* thread.join() returns, acknowledged or not, and HostUp is sent. *)
SubJoined ==
  /\ At(Handler, "join")
  /\ At(Sub, "off")
  /\ hostUp' = TRUE
  /\ Goto(Handler, "mark")
  /\ UNCHANGED <<storeVars, sharedVars, main, asked, hostInit, historyVars>>

(* finally: mark_as_handled, off the list and then in the table. *)
MarkList(t) ==
  /\ At(t, "mark")
  /\ MarkCache(t, thread[t].msg)
  /\ Goto(t, "row")
  /\ UNCHANGED <<sharedVars, main, lifeVars>>

MarkTable(t) ==
  /\ At(t, "row")
  /\ MarkRow(t)
  /\ Goto(t, "end")
  /\ UNCHANGED <<sharedVars, main, lifeVars>>

(* The UPDATE raises, out of _handle_one_message into the loop: status and  *)
(* handing_message_id stay, and what follows an acknowledge is skipped.     *)
MarkTableRaises(t) ==
  /\ raised < MaxRaises
  /\ At(t, "row")
  /\ MarkRowRaises(t)
  /\ raised' = raised + 1
  /\ thread' = [thread EXCEPT ![t].pc = "top", ![t].todo = {}, ![t].msg = NoMsg]
  /\ UNCHANGED <<sharedVars, main, asked, hostInit, hostUp, overlapped, missed>>

End(t) ==
  /\ At(t, "end")
  /\ status' = "idle"
  /\ handing' = NoMsg
  /\ thread' = [thread EXCEPT ![t].pc = IF thread[t].mode = "ack" THEN "ack" ELSE "scan",
                              ![t].msg = NoMsg]
  /\ UNCHANGED <<storeVars, running, locked, toAck, returnOnAck, ackEvent, main, lifeVars>>

(* Mutant: the event is not set. *)
AcknowledgeSilently(t) ==
  /\ At(t, "ack")
  /\ toAck' = NoMsg
  /\ Goto(t, "return")
  /\ UNCHANGED <<storeVars, running, locked, status, handing, returnOnAck, ackEvent, main, lifeVars>>

(* message_to_ack = None and ack_event.set(), in one step: between them the *)
(* waiting thread sees neither.                                             *)
Acknowledge(t) ==
  /\ At(t, "ack")
  /\ toAck' = NoMsg
  /\ ackEvent' = TRUE
  /\ Goto(t, "return")
  /\ UNCHANGED <<storeVars, running, locked, status, handing, returnOnAck, main, lifeVars>>

(* Mutant: return, whoever waits. *)
ReturnAlways(t) ==
  /\ At(t, "return")
  /\ thread' = [thread EXCEPT ![t].pc = "off", ![t].todo = {}]
  /\ UNCHANGED <<storeVars, sharedVars, main, lifeVars>>

(* if self.return_on_ack: return; break *)
Return(t) ==
  /\ At(t, "return")
  /\ thread' = [thread EXCEPT ![t].pc = IF returnOnAck THEN "off" ELSE "top", ![t].todo = {}]
  /\ UNCHANGED <<storeVars, sharedVars, main, lifeVars>>

HandlerStep(t) ==
  \/ Start(t) \/ Top(t) \/ GetUnhandled(t) \/ Scan(t) \/ Begin(t) \/ Listened(t)
  \/ MarkList(t) \/ MarkTable(t) \/ MarkTableRaises(t) \/ End(t)
  \/ Acknowledge(t) \/ Return(t)

SubhandlerStep == SendBeforeHostUp \/ SubWant \/ SubKind \/ SubSpawn \/ SubJoined

-----------------------------------------------------------------------------
(* The main thread.                                                         *)

MainGoto(from, to) == main = from /\ main' = to

(* send_message(HostInit, new_crypto_key, wait_ack=True): send, ... *)
MainSend ==
  /\ MainGoto("init", "sent")
  /\ asked' = asked \cup {HostInit}
  /\ UNCHANGED <<storeVars, sharedVars, thread, hostInit, hostUp, historyVars>>

(* ... write the new key, ... *)
MainKey ==
  /\ MainGoto("sent", "keyed")
  /\ UNCHANGED <<storeVars, sharedVars, thread, lifeVars>>

(* ... and wait_acknowledge, statement by statement.  History: clear() may  *)
(* undo the acknowledge that was to end the wait.                           *)
AckWant ==
  /\ MainGoto("keyed", "want")
  /\ toAck' = HostInit
  /\ UNCHANGED <<storeVars, running, locked, status, handing, returnOnAck, ackEvent, thread, lifeVars>>

AckKind ==
  /\ MainGoto("want", "clear")
  /\ returnOnAck' = FALSE
  /\ UNCHANGED <<storeVars, running, locked, status, handing, toAck, ackEvent, thread, lifeVars>>

AckClear ==
  /\ MainGoto("clear", "waiting")
  /\ ackEvent' = FALSE
  /\ missed' = (missed \/ ackEvent)
  /\ UNCHANGED <<storeVars, running, locked, status, handing, toAck, returnOnAck, thread,
                 asked, hostInit, hostUp, overlapped, raised>>

(* The wait is over: the state becomes initializing and host_init fires. *)
AckWaited ==
  /\ ackEvent
  /\ MainGoto("waiting", "up")
  /\ hostInit' = TRUE
  /\ UNCHANGED <<storeVars, sharedVars, thread, asked, hostUp, historyVars>>

(* shutdown(force=True) *)
StopRunning ==
  /\ MainGoto("up", "closing")
  /\ running' = FALSE
  /\ UNCHANGED <<storeVars, locked, status, handing, toAck, returnOnAck, ackEvent, thread, lifeVars>>

(* _server.shutdown() returns when no request is being served. *)
StopServer ==
  /\ \A a \in Acceptors : acceptor[a].pc = "idle"
  /\ MainGoto("closing", "locking")
  /\ UNCHANGED <<storeVars, sharedVars, thread, lifeVars>>

StopLock ==
  /\ MainGoto("locking", "marking")
  /\ locked' = TRUE
  /\ UNCHANGED <<storeVars, running, status, handing, toAck, returnOnAck, ackEvent, thread, lifeVars>>

(* The message that is being handled is marked already. *)
StopMark ==
  \/ /\ handing = NoMsg
     /\ MainGoto("marking", "joining")
     /\ UNCHANGED <<storeVars, sharedVars, thread, lifeVars>>
  \/ /\ handing # NoMsg
     /\ MainGoto("marking", "row")
     /\ MarkCache(Main, handing)
     /\ UNCHANGED <<sharedVars, thread, lifeVars>>

(* A raised UPDATE leaves shutdown without the join. *)
StopMarkRow ==
  /\ \/ MainGoto("row", "joining") /\ MarkRow(Main) /\ UNCHANGED raised
     \/ /\ raised < MaxRaises /\ raised' = raised + 1
        /\ MainGoto("row", "failed") /\ MarkRowRaises(Main)
  /\ UNCHANGED <<sharedVars, thread, asked, hostInit, hostUp, overlapped, missed>>

(* Mutant: no join. *)
StopUnjoined ==
  /\ MainGoto("joining", "down")
  /\ UNCHANGED <<storeVars, sharedVars, thread, lifeVars>>

(* _handler_thread.join() *)
StopJoin ==
  /\ At(Handler, "off")
  /\ MainGoto("joining", "down")
  /\ UNCHANGED <<storeVars, sharedVars, thread, lifeVars>>

MainStart == MainSend \/ MainKey \/ AckWant \/ AckKind \/ AckClear \/ AckWaited
MainStop  == StopServer \/ StopLock \/ StopMark \/ StopMarkRow \/ StopJoin

ConsumerNext ==
  \/ \E a \in Acceptors : Serve(a) \/ \E m \in Messages : Receive(a, m)
  \/ \E t \in HandlerThreads : HandlerStep(t)
  \/ LoadList
  \/ SubhandlerStep
  \/ MainStart \/ StopRunning \/ MainStop

ConsumerSafety == ConsumerInit /\ [][ConsumerNext]_allVars

(* Every thread goes on, listeners return, and Scalr broadcasts back what   *)
(* it was sent.  Nothing has to shut the process down.                      *)
ConsumerSpec ==
  /\ ConsumerSafety
  /\ \A t \in HandlerThreads : WF_allVars(HandlerStep(t))
  /\ WF_allVars(LoadList)
  /\ WF_allVars(SubWant \/ SubKind \/ SubSpawn \/ SubJoined)
  /\ WF_allVars(MainStart)
  /\ WF_allVars(MainStop)
  /\ \A a \in Acceptors : WF_allVars(Serve(a))
  /\ \A m \in {HostInit, BeforeHostUp} \cap Messages :
       WF_allVars(\E a \in Acceptors : Receive(a, m))

-----------------------------------------------------------------------------
ThreadState == [pc : HandlerPcs, mode : {"all", "ack"}, todo : SUBSET Entry,
                msg : Messages \cup {NoMsg}]

ConsumerTypeOK ==
  /\ running \in BOOLEAN /\ locked \in BOOLEAN
  /\ status \in {"stopped", "idle", "running"}
  /\ handing \in Messages \cup {NoMsg}
  /\ toAck \in {NoMsg, HostInit, BeforeHostUp}
  /\ returnOnAck \in BOOLEAN /\ ackEvent \in BOOLEAN
  /\ thread \in [HandlerThreads -> ThreadState]
  /\ main \in MainPcs
  /\ asked \subseteq {HostInit, BeforeHostUp}
  /\ hostInit \in BOOLEAN /\ hostUp \in BOOLEAN
  /\ overlapped \in BOOLEAN /\ missed \in BOOLEAN
  /\ raised \in 0 .. MaxRaises

(* The consumer's threads use the store as MessageStore lets them: so what  *)
(* is proved of the store holds of it here.                                 *)
UsesStore == StoreSafety

(* No message is handled twice: when listeners are called with a message it *)
(* is on the list, and no other thread is handling it.  A thread walks a    *)
(* copy of the list while others take messages off it.  Excepted is what    *)
(* follows a wait_subhandler during wait_acknowledge: one return_on_ack and *)
(* one message_to_ack serve both (see BeforeHostUpBlocks).                  *)
NoDoubleHandling ==
  [][~overlapped =>
       \A t \in HandlerThreads : Begin(t) =>
         /\ thread[t].msg \in CachedIds
         /\ \A u \in HandlerThreads \ {t} : thread[u].msg # thread[t].msg]_allVars

(* The waits hold back what they should: host_init fires after the HostInit *)
(* of this server came back and was handled, and HostUp is sent after its   *)
(* BeforeHostUp was, unless the consumer is being shut down.  However early *)
(* Scalr answers, only a wait_subhandler during wait_acknowledge breaks it  *)
(* (see BeforeHostUpBlocks, which excepts neither).                         *)
AckedBeforeProceeding ==
  ~overlapped =>
    /\ hostInit => HostInit \in marked
    /\ hostUp /\ running => BeforeHostUp \in marked

(* BeforeHostUp is blocking: HostUp is sent after this server has handled   *)
(* its own BeforeHostUp.  wait_subhandler joins the thread whatever ended   *)
(* it: its acknowledge, that of the HostInit which wait_acknowledge asked   *)
(* for meanwhile, or a shutdown.                                            *)
BeforeHostUpBlocks == hostUp => BeforeHostUp \in marked

(* When shutdown has returned, no thread of the consumer is at work and no  *)
(* call of the store is under way: the process may close the database.      *)
QuietWhenDown ==
  main = "down" =>
    /\ \A t \in HandlerThreads : At(t, "off")
    /\ \A a \in Acceptors : acceptor[a].pc = "idle"
    /\ \A c \in Clients : marking[c] = NoMsg

(* wait_acknowledge ends: host_init fires once HostInit was sent. *)
HostInitFires == HostInit \in asked ~> hostInit

(* What may keep a thread waiting for ever: the acknowledge was missed, the *)
(* two waits overlapped, or marking a message raised.                       *)
Mishap == missed \/ overlapped \/ raised > 0

(* An acknowledge is lost in these ways only: but for them, a HostInit that *)
(* was handled has set the event, or the handler sets it at the end of what *)
(* it is doing.                                                             *)
AckComing ==
  HostInit \in marked /\ ~Mishap =>
    \/ ackEvent
    \/ thread[Handler].msg = HostInit /\ thread[Handler].pc \in {"listen", "mark", "row", "end"}
    \/ thread[Handler].pc = "ack"

(* wait_acknowledge ends but for these.  They are all there are: an early   *)
(* answer of Scalr is no mishap of itself.                                  *)
HostInitFiresOrMishap == HostInit \in asked ~> hostInit \/ Mishap

(* Every accepted message is handled, or the consumer is shut down, but for *)
(* these.                                                                   *)
AcceptedIsListened ==
  \A m \in Messages : m \in accepted ~> m \in marked \/ ~running \/ Mishap
=============================================================================
