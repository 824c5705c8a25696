------------------------ MODULE MessageConsumerProofs ------------------------
(* The consumer's threads, Main's shutdown among them, use the store as     *)
(* MessageStore describes it, so that the store's theorems hold of it.      *)
EXTENDS MessageConsumer, MessageStoreProofs, WellFoundedInduction

(* A step of the consumer is a step of the store or leaves it alone. *)
LEMMA ConsumerStep ==
  ASSUME StoreTypeOK, [ConsumerNext]_allVars
  PROVE  [StoreNext]_storeVars
<1> USE ConsumerAssumption
<1>1. seen \subseteq Messages
  BY DEF StoreTypeOK
<1>2. ASSUME NEW c \in Clients, NEW m, MarkCache(c, m)
      PROVE  StoreNext
  <2>1. m \in Messages
    BY <1>1, <1>2 DEF MarkCache
  <2> QED
    BY <1>2, <2>1 DEF StoreNext
<1>3. ASSUME NEW a \in Acceptors, Serve(a) \/ \E m \in Messages : Receive(a, m)
      PROVE  StoreNext
  BY <1>3 DEF Serve, Receive, StoreNext
<1>4. ASSUME NEW t \in HandlerThreads, HandlerStep(t)
      PROVE  [StoreNext]_storeVars
  <2>1. t \in Clients
    BY DEF HandlerThreads
  <2>2. CASE MarkList(t)
    BY <1>2, <2>1, <2>2 DEF MarkList
  <2>3. CASE MarkTable(t) \/ MarkTableRaises(t)
    BY <2>1, <2>3 DEF MarkTable, MarkTableRaises, StoreNext
  <2>4. CASE UNCHANGED storeVars
    BY <2>4
  <2> QED
    BY <1>4, <2>2, <2>3, <2>4 DEF HandlerStep, Start, Top, GetUnhandled, Scan, Begin, Listened,
       End, Acknowledge, Return
<1>5. CASE LoadList
  BY <1>5 DEF LoadList, StoreNext
<1>6. CASE SubhandlerStep
  BY <1>6 DEF SubhandlerStep, SendBeforeHostUp, SubWant, SubKind, SubSpawn, SubJoined
<1>7. CASE MainStart \/ StopRunning \/ StopServer \/ StopLock \/ StopJoin
  BY <1>7 DEF MainStart, MainSend, MainKey, AckWant, AckKind, AckClear, AckWaited, StopRunning,
     StopServer, StopLock, StopJoin
<1>8. CASE StopMark
  BY <1>2, <1>8 DEF StopMark
<1>9. CASE StopMarkRow
  BY <1>9 DEF StopMarkRow, StoreNext
<1>10. CASE UNCHANGED allVars
  BY <1>10 DEF allVars
<1> QED
  BY <1>3, <1>4, <1>5, <1>6, <1>7, <1>8, <1>9, <1>10 DEF ConsumerNext, MainStop

(* The detailed consumer implements the store's specification. *)
THEOREM ConsumerUsesStore == ConsumerSafety => UsesStore
<1>1. ConsumerInit => StoreInit /\ StoreTypeOK
  BY InitTypeOK DEF ConsumerInit
<1>2. StoreTypeOK /\ [ConsumerNext]_allVars => [StoreNext]_storeVars
  BY ConsumerStep
<1>3. StoreTypeOK /\ [ConsumerNext]_allVars => StoreTypeOK'
  BY <1>2, TypeStep
<1> QED
  BY <1>1, <1>2, <1>3, PTL DEF ConsumerSafety, UsesStore, StoreSafety

(* So no accepted message is lost by the handler, by a subhandler or by a   *)
(* shutdown either.                                                         *)
THEOREM ConsumerLosesNothing == ConsumerSafety => []NoAcceptedLoss
  BY ConsumerUsesStore, NoAcceptedLossHolds DEF UsesStore

-----------------------------------------------------------------------------
(* A handler takes the entry of the list that was put first, and there is   *)
(* one.                                                                     *)
LEMMA LeastNat ==
  ASSUME NEW T \in SUBSET Nat, T # {}
  PROVE  \E x \in T : \A y \in T : x <= y
<1>1. PICK x \in T : \A y \in T : <<y, x>> \notin OpToRel(<, Nat)
  BY WFMin, NatLessThanWellFounded
<1>2. \A y \in T : ~(y < x)
  BY <1>1 DEF OpToRel
<1> QED
  BY <1>2

LEMMA FirstIn ==
  ASSUME NEW entries \in SUBSET Entry, entries # {}
  PROVE  First(entries) \in entries
<1>1. PICK x \in {e.at : e \in entries} : \A y \in {e.at : e \in entries} : x <= y
  <2>1. {e.at : e \in entries} \in SUBSET Nat
    BY DEF Entry
  <2>2. {e.at : e \in entries} # {}
    OBVIOUS
  <2> QED
    BY <2>1, <2>2, LeastNat
<1>2. \E e \in entries : \A f \in entries : e.at <= f.at
  BY <1>1
<1> QED
  BY <1>2 DEF First

ThreadTypeOK == thread \in [HandlerThreads -> ThreadState]

FieldTypeOK ==
  /\ running \in BOOLEAN /\ locked \in BOOLEAN
  /\ status \in {"stopped", "idle", "running"}
  /\ handing \in Messages \cup {NoMsg}
  /\ toAck \in {NoMsg, HostInit, BeforeHostUp}
  /\ returnOnAck \in BOOLEAN /\ ackEvent \in BOOLEAN
  /\ asked \subseteq {HostInit, BeforeHostUp}
  /\ hostInit \in BOOLEAN /\ hostUp \in BOOLEAN

HistoryTypeOK ==
  /\ overlapped \in BOOLEAN /\ missed \in BOOLEAN
  /\ raised \in 0 .. MaxRaises

(* Updates of a thread's fields keep its type. *)
LEMMA ThreadUpdate ==
  ASSUME ThreadTypeOK, NEW t \in HandlerThreads, NEW pc \in HandlerPcs
  PROVE  /\ [thread EXCEPT ![t].pc = pc] \in [HandlerThreads -> ThreadState]
         /\ \A mode \in {"all", "ack"} : [thread EXCEPT ![t].pc = pc, ![t].mode = mode]
                                            \in [HandlerThreads -> ThreadState]
         /\ \A todo \in SUBSET Entry : [thread EXCEPT ![t].pc = pc, ![t].todo = todo]
                                            \in [HandlerThreads -> ThreadState]
         /\ \A msg \in Messages \cup {NoMsg} : [thread EXCEPT ![t].pc = pc, ![t].msg = msg]
                                            \in [HandlerThreads -> ThreadState]
         /\ \A msg \in Messages \cup {NoMsg}, todo \in SUBSET Entry :
              /\ [thread EXCEPT ![t].pc = pc, ![t].msg = msg, ![t].todo = todo]
                   \in [HandlerThreads -> ThreadState]
              /\ [thread EXCEPT ![t].pc = pc, ![t].todo = todo, ![t].msg = msg]
                   \in [HandlerThreads -> ThreadState]
<1> USE DEF ThreadTypeOK, ThreadState
<1>1. [thread EXCEPT ![t].pc = pc] \in [HandlerThreads -> ThreadState]
  OBVIOUS
<1>2. ASSUME NEW mode \in {"all", "ack"}
      PROVE  [thread EXCEPT ![t].pc = pc, ![t].mode = mode] \in [HandlerThreads -> ThreadState]
  OBVIOUS
<1>3. ASSUME NEW todo \in SUBSET Entry
      PROVE  [thread EXCEPT ![t].pc = pc, ![t].todo = todo] \in [HandlerThreads -> ThreadState]
  OBVIOUS
<1>4. ASSUME NEW msg \in Messages \cup {NoMsg}
      PROVE  [thread EXCEPT ![t].pc = pc, ![t].msg = msg] \in [HandlerThreads -> ThreadState]
  OBVIOUS
<1>5. ASSUME NEW msg \in Messages \cup {NoMsg}, NEW todo \in SUBSET Entry
      PROVE  /\ [thread EXCEPT ![t].pc = pc, ![t].msg = msg, ![t].todo = todo]
                  \in [HandlerThreads -> ThreadState]
             /\ [thread EXCEPT ![t].pc = pc, ![t].todo = todo, ![t].msg = msg]
                  \in [HandlerThreads -> ThreadState]
  OBVIOUS
<1> HIDE DEF ThreadTypeOK, ThreadState
<1> QED
  BY <1>1, <1>2, <1>3, <1>4, <1>5

LEMMA ThreadTypeStep ==
  ASSUME ThreadTypeOK, StoreTypeOK, [ConsumerNext]_allVars
  PROVE  ThreadTypeOK'
<1>1. CASE thread' = thread
  BY <1>1 DEF ThreadTypeOK
<1>2. ASSUME NEW t \in HandlerThreads, NEW pc \in HandlerPcs, Goto(t, pc)
      PROVE  ThreadTypeOK'
  BY <1>2, ThreadUpdate DEF Goto, ThreadTypeOK
<1>3. ASSUME NEW t \in HandlerThreads, Top(t)
      PROVE  ThreadTypeOK'
  <2>1. CASE Goto(t, "off")
    BY <1>2, <2>1 DEF HandlerPcs
  <2>2. CASE thread' = [thread EXCEPT ![t].pc = "list",
                                      ![t].mode = IF toAck # NoMsg THEN "ack" ELSE "all"]
    <3>1. "list" \in HandlerPcs /\ (IF toAck # NoMsg THEN "ack" ELSE "all") \in {"all", "ack"}
      BY DEF HandlerPcs
    <3> QED
      BY <2>2, <3>1, ThreadUpdate DEF ThreadTypeOK
  <2> QED
    BY <1>3, <2>1, <2>2 DEF Top
<1>4. ASSUME NEW t \in HandlerThreads, GetUnhandled(t)
      PROVE  ThreadTypeOK'
  <2>1. cache \in SUBSET Entry /\ "scan" \in HandlerPcs
    BY DEF StoreTypeOK, HandlerPcs
  <2> QED
    BY <1>4, <2>1, ThreadUpdate DEF GetUnhandled, ThreadTypeOK
<1>5. ASSUME NEW t \in HandlerThreads, Scan(t)
      PROVE  ThreadTypeOK'
  <2> DEFINE wanted == IF thread[t].mode = "all" THEN thread[t].todo
                       ELSE {e \in thread[t].todo : Acknowledges(e.msg)}
  <2>1. wanted \in SUBSET Entry /\ thread[t].todo \in SUBSET Entry
    BY DEF ThreadTypeOK, ThreadState
  <2>2. CASE wanted = {}
    <3>1. "top" \in HandlerPcs /\ {} \in SUBSET Entry
      BY DEF HandlerPcs
    <3>2. thread' = [thread EXCEPT ![t].pc = "top", ![t].todo = {}]
      BY <1>5, <2>2 DEF Scan
    <3> QED
      BY <3>1, <3>2, ThreadUpdate DEF ThreadTypeOK
  <2>3. CASE wanted # {}
    <3>1. First(wanted) \in Entry
      BY <2>1, <2>3, FirstIn
    <3>2. PICK msg \in Messages : msg = First(wanted).msg
      BY <3>1 DEF Entry
    <3>3. thread' = [thread EXCEPT ![t].pc = "begin", ![t].msg = First(wanted).msg,
                                   ![t].todo = @ \ {First(wanted)}]
      BY <1>5, <2>3 DEF Scan
    <3> HIDE DEF wanted
    <3>4. PICK todo \in SUBSET Entry : todo = thread[t].todo \ {First(wanted)}
      BY <2>1
    <3>5. thread' = [thread EXCEPT ![t].pc = "begin", ![t].msg = msg, ![t].todo = todo]
      BY <3>2, <3>3, <3>4 DEF ThreadTypeOK, ThreadState
    <3>6. "begin" \in HandlerPcs
      BY DEF HandlerPcs
    <3> QED
      BY <3>5, <3>6, ThreadUpdate DEF ThreadTypeOK
  <2> QED
    BY <2>2, <2>3
<1>6. ASSUME NEW t \in HandlerThreads, MarkTableRaises(t)
      PROVE  ThreadTypeOK'
  <2>1. "top" \in HandlerPcs /\ {} \in SUBSET Entry /\ NoMsg \in Messages \cup {NoMsg}
    BY DEF HandlerPcs
  <2> QED
    BY <1>6, <2>1, ThreadUpdate DEF MarkTableRaises, ThreadTypeOK
<1>7. ASSUME NEW t \in HandlerThreads, End(t)
      PROVE  ThreadTypeOK'
  <2>1. PICK pc \in HandlerPcs : pc = IF thread[t].mode = "ack" THEN "ack" ELSE "scan"
    BY DEF HandlerPcs
  <2>2. thread' = [thread EXCEPT ![t].pc = pc, ![t].msg = NoMsg]
    BY <1>7, <2>1 DEF End
  <2> QED
    BY <2>2, ThreadUpdate DEF ThreadTypeOK
<1>8. ASSUME NEW t \in HandlerThreads, Return(t)
      PROVE  ThreadTypeOK'
  <2>1. PICK pc \in HandlerPcs : pc = IF returnOnAck THEN "off" ELSE "top"
    BY DEF HandlerPcs
  <2>2. thread' = [thread EXCEPT ![t].pc = pc, ![t].todo = {}]
    BY <1>8, <2>1 DEF Return
  <2> QED
    BY <2>2, ThreadUpdate DEF ThreadTypeOK
<1>9. CASE SubSpawn
  <2>1. Handler \in HandlerThreads /\ Sub \in HandlerThreads
    BY DEF HandlerThreads
  <2>2. "join" \in HandlerPcs /\ "start" \in HandlerPcs
    BY DEF HandlerPcs
  <2>3. thread' = [thread EXCEPT ![Handler].pc = "join", ![Sub].pc = "start"]
    BY <1>9 DEF SubSpawn
  <2> QED
    BY <2>1, <2>2, <2>3 DEF ThreadTypeOK, ThreadState
<1>10. \/ thread' = thread \/ SubSpawn
       \/ \E t \in HandlerThreads :
            \/ \E pc \in HandlerPcs : Goto(t, pc)
            \/ Top(t) \/ GetUnhandled(t) \/ Scan(t) \/ MarkTableRaises(t) \/ End(t) \/ Return(t)
  <2>1. {"top", "listen", "mark", "row", "end", "return", "want", "kind", "spawn"}
          \subseteq HandlerPcs
    BY DEF HandlerPcs
  <2>2. ASSUME NEW t \in HandlerThreads, HandlerStep(t)
        PROVE  \/ \E pc \in HandlerPcs : Goto(t, pc)
               \/ Top(t) \/ GetUnhandled(t) \/ Scan(t) \/ MarkTableRaises(t) \/ End(t) \/ Return(t)
    BY <2>1, <2>2 DEF HandlerStep, Start, Begin, Listened, MarkList, MarkTable, Acknowledge
  <2>3. CASE SubhandlerStep
    <3>1. Handler \in HandlerThreads
      BY DEF HandlerThreads
    <3> QED
      BY <2>1, <2>3, <3>1 DEF SubhandlerStep, SendBeforeHostUp, SubWant, SubKind, SubJoined
  <2>4. CASE MainStart \/ StopRunning \/ MainStop
    BY <2>4 DEF MainStart, MainSend, MainKey, AckWant, AckKind, AckClear, AckWaited, StopRunning,
       MainStop, StopServer, StopLock, StopMark, StopMarkRow, StopJoin
  <2>5. CASE LoadList \/ \E a \in Acceptors : Serve(a) \/ \E m \in Messages : Receive(a, m)
    BY <2>5 DEF LoadList, Serve, Receive, consumerVars
  <2>6. CASE UNCHANGED allVars
    BY <2>6 DEF allVars, consumerVars
  <2> QED
    BY <2>2, <2>3, <2>4, <2>5, <2>6 DEF ConsumerNext
<1> QED
  BY <1>1, <1>2, <1>3, <1>4, <1>5, <1>6, <1>7, <1>8, <1>9, <1>10

LEMMA FieldTypeStep ==
  ASSUME ThreadTypeOK, FieldTypeOK, [ConsumerNext]_allVars
  PROVE  FieldTypeOK'
<1> USE DEF FieldTypeOK, sharedVars, lifeVars, historyVars
<1>1. CASE LoadList \/ \E a \in Acceptors : Serve(a) \/ \E m \in Messages : Receive(a, m)
  BY <1>1 DEF LoadList, Serve, Receive, consumerVars
<1>2. ASSUME NEW t \in HandlerThreads, Begin(t)
      PROVE  FieldTypeOK'
  <2>1. thread[t].msg \in Messages \cup {NoMsg}
    BY DEF ThreadTypeOK, ThreadState
  <2> QED
    BY <1>2, <2>1 DEF Begin
<1>3. ASSUME NEW t \in HandlerThreads, HandlerStep(t), ~Begin(t)
      PROVE  FieldTypeOK'
  BY <1>3 DEF HandlerStep, Start, Top, GetUnhandled, Scan, Listened, MarkList, MarkTable,
     MarkTableRaises, End, Acknowledge, Return
<1>4. CASE SubhandlerStep
  BY <1>4 DEF SubhandlerStep, SendBeforeHostUp, SubWant, SubKind, SubSpawn, SubJoined
<1>5. CASE MainStart \/ StopRunning
  BY <1>5 DEF MainStart, MainSend, MainKey, AckWant, AckKind, AckClear, AckWaited, StopRunning
<1>6. CASE MainStop
  BY <1>6 DEF MainStop, StopServer, StopLock, StopMark, StopMarkRow, StopJoin
<1>7. CASE UNCHANGED allVars
  BY <1>7 DEF allVars, consumerVars
<1> QED
  BY <1>1, <1>2, <1>3, <1>4, <1>5, <1>6, <1>7 DEF ConsumerNext

(* Only these steps record anything. *)
LEMMA HistoryMoves ==
  ASSUME [ConsumerNext]_allVars
  PROVE  \/ UNCHANGED historyVars
         \/ SubWant
         \/ AckClear
         \/ StopMarkRow
         \/ \E t \in HandlerThreads : Begin(t) \/ MarkTableRaises(t)
<1>1. ASSUME NEW t \in HandlerThreads, HandlerStep(t), ~Begin(t), ~MarkTableRaises(t)
      PROVE  UNCHANGED historyVars
  BY <1>1 DEF HandlerStep, Start, Top, GetUnhandled, Scan, Listened, MarkList, MarkTable, End,
     Acknowledge, Return, lifeVars, historyVars
<1>2. SubhandlerStep /\ ~SubWant => UNCHANGED historyVars
  BY DEF SubhandlerStep, SendBeforeHostUp, SubKind, SubSpawn, SubJoined, lifeVars, historyVars
<1>3. (MainStart /\ ~AckClear) \/ StopRunning => UNCHANGED historyVars
  BY DEF MainStart, MainSend, MainKey, AckWant, AckKind, AckWaited, StopRunning, lifeVars,
     historyVars
<1>4. MainStop /\ ~StopMarkRow => UNCHANGED historyVars
  BY DEF MainStop, StopServer, StopLock, StopMark, StopJoin, lifeVars, historyVars
<1>5. UNCHANGED consumerVars => UNCHANGED historyVars
  BY DEF consumerVars, historyVars
<1> QED
  BY <1>1, <1>2, <1>3, <1>4, <1>5 DEF ConsumerNext, LoadList, Serve, Receive, allVars

(* What is recorded stays recorded. *)
HistoryGrown ==
  /\ overlapped => overlapped'
  /\ missed => missed'
  /\ overlapped' = overlapped \/ overlapped' \in BOOLEAN
  /\ missed' = missed \/ missed' \in BOOLEAN
  /\ raised' = raised \/ (raised < MaxRaises /\ raised' = raised + 1)

LEMMA HistoryGrownStep ==
  ASSUME [ConsumerNext]_allVars
  PROVE  HistoryGrown
<1>1. UNCHANGED historyVars => HistoryGrown
  BY DEF historyVars, HistoryGrown
<1>2. ASSUME SubWant
      PROVE  HistoryGrown
  <2>1. UNCHANGED <<missed, raised>>
    BY <1>2 DEF SubWant
  <2>2. overlapped' = (overlapped \/ AckPending)
    BY <1>2 DEF SubWant
  <2>3. (overlapped => overlapped') /\ overlapped' \in BOOLEAN
    BY <2>2
  <2> QED
    BY <2>1, <2>3 DEF HistoryGrown
<1>3. ASSUME AckClear
      PROVE  HistoryGrown
  <2>1. UNCHANGED <<overlapped, raised>>
    BY <1>3 DEF AckClear
  <2>2. missed' = (missed \/ ackEvent)
    BY <1>3 DEF AckClear
  <2>3. (missed => missed') /\ missed' \in BOOLEAN
    BY <2>2
  <2> QED
    BY <2>1, <2>3 DEF HistoryGrown
<1>4. StopMarkRow => HistoryGrown
  BY DEF StopMarkRow, HistoryGrown
<1>5. ASSUME NEW t \in HandlerThreads, Begin(t)
      PROVE  HistoryGrown
  <2>1. UNCHANGED <<overlapped, raised>>
    BY <1>5 DEF Begin
  <2>2. missed' = (missed \/ (thread[t].msg = HostInit /\ thread[t].mode = "all"))
    BY <1>5 DEF Begin
  <2>3. (missed => missed') /\ missed' \in BOOLEAN
    BY <2>2
  <2> QED
    BY <2>1, <2>3 DEF HistoryGrown
<1>6. ASSUME NEW t \in HandlerThreads, MarkTableRaises(t)
      PROVE  HistoryGrown
  BY <1>6 DEF MarkTableRaises, HistoryGrown
<1> QED
  BY <1>1, <1>2, <1>3, <1>4, <1>5, <1>6, HistoryMoves, Zenon

LEMMA HistoryTypeStep ==
  ASSUME HistoryTypeOK, [ConsumerNext]_allVars
  PROVE  HistoryTypeOK'
<1>1. HistoryGrown
  BY HistoryGrownStep
<1>2. overlapped' \in BOOLEAN /\ missed' \in BOOLEAN
  BY <1>1, Zenon DEF HistoryTypeOK, HistoryGrown
<1>3. raised' = raised \/ (raised < MaxRaises /\ raised' = raised + 1)
  BY <1>1, Zenon DEF HistoryGrown
<1>4. raised \in 0 .. MaxRaises
  BY Zenon DEF HistoryTypeOK
<1>5. raised' \in 0 .. MaxRaises
  BY <1>3, <1>4, ConsumerAssumption
<1> QED
  BY <1>2, <1>5, Zenon DEF HistoryTypeOK

(* Only these steps move Main. *)
LEMMA MainMoves ==
  ASSUME [ConsumerNext]_allVars
  PROVE  main' = main \/ MainStart \/ StopRunning \/ MainStop
  BY DEF ConsumerNext, allVars, consumerVars, LoadList, Serve, Receive, HandlerStep, Start, Top,
     GetUnhandled, Scan, Begin, Listened, MarkList, MarkTable, MarkTableRaises, End, Acknowledge,
     Return, SubhandlerStep, SendBeforeHostUp, SubWant, SubKind, SubSpawn, SubJoined

LEMMA MainTypeStep ==
  ASSUME main \in MainPcs, [ConsumerNext]_allVars
  PROVE  main' \in MainPcs
<1> USE DEF MainPcs
<1>1. CASE MainStart \/ StopRunning \/ MainStop
  BY <1>1 DEF MainStart, MainSend, MainKey, AckWant, AckKind, AckClear, AckWaited, StopRunning,
     MainStop, StopServer, StopLock, StopMark, StopMarkRow, StopJoin, MainGoto
<1>2. CASE main' = main
  BY <1>2
<1> QED
  BY <1>1, <1>2, MainMoves

(* The type invariant of the consumer holds of every reachable state.       *)
THEOREM ConsumerTypeCorrect == ConsumerSafety => []ConsumerTypeOK
<1>1. ConsumerTypeOK <=> FieldTypeOK /\ HistoryTypeOK /\ ThreadTypeOK /\ main \in MainPcs
  BY Zenon DEF ConsumerTypeOK, FieldTypeOK, HistoryTypeOK, ThreadTypeOK
<1>2. ConsumerInit => FieldTypeOK /\ HistoryTypeOK /\ ThreadTypeOK /\ main \in MainPcs
  <2> SUFFICES ASSUME ConsumerInit
               PROVE  FieldTypeOK /\ HistoryTypeOK /\ ThreadTypeOK /\ main \in MainPcs
    OBVIOUS
  <2>1. FieldTypeOK
    BY DEF ConsumerInit, FieldTypeOK
  <2>2. ThreadTypeOK
    BY DEF ConsumerInit, ThreadTypeOK, ThreadState, HandlerPcs
  <2>3. main \in MainPcs
    BY DEF ConsumerInit, MainPcs
  <2>4. HistoryTypeOK
    <3>1. raised = 0 /\ overlapped = FALSE /\ missed = FALSE
      BY DEF ConsumerInit
    <3>2. 0 \in 0 .. MaxRaises
      BY ConsumerAssumption
    <3> QED
      BY <3>1, <3>2, Zenon DEF HistoryTypeOK
  <2> QED
    BY <2>1, <2>2, <2>3, <2>4
<1>3. /\ FieldTypeOK /\ HistoryTypeOK /\ ThreadTypeOK /\ main \in MainPcs /\ StoreTypeOK
      /\ [ConsumerNext]_allVars
      => FieldTypeOK' /\ HistoryTypeOK' /\ ThreadTypeOK' /\ (main \in MainPcs)'
  BY ThreadTypeStep, FieldTypeStep, HistoryTypeStep, MainTypeStep
<1> QED
  BY <1>1, <1>2, <1>3, ConsumerUsesStore, StoreTypeCorrect, PTL DEF ConsumerSafety, UsesStore

-----------------------------------------------------------------------------
(* Why nothing is at work once shutdown has returned.                       *)

(* No request is served once the server was shut down. *)
ServerShut == ~ServerOpen => \A a \in Acceptors : acceptor[a].pc = "idle"

(* The subhandler runs only while the handler thread waits in its join. *)
SubWithinJoin == thread[Sub].pc # "off" => thread[Handler].pc = "join"

HandlerJoined == main = "down" => thread[Handler].pc = "off"

(* A message is off the list and unmarked in the table only while a thread  *)
(* is between the two.                                                      *)
MarkingKnown ==
  /\ \A t \in HandlerThreads : marking[t] # NoMsg => thread[t].pc = "row"
  /\ marking[Main] # NoMsg => main = "row"

QuietInv == ServerShut /\ SubWithinJoin /\ HandlerJoined /\ MarkingKnown

LEMMA ThreadsDistinct == Main # Handler /\ Main # Sub /\ Handler # Sub
<1>1. ASSUME NEW x, NEW y, Clients = {x, y}
      PROVE  FALSE
  <2>1. IsFiniteSet({x}) /\ Cardinality({x}) = 1
    BY FS_Singleton
  <2>2. Cardinality({x} \cup {y}) = IF y \in {x} THEN 1 ELSE 2
    BY <2>1, FS_AddElement
  <2>3. {x} \cup {y} = Clients
    BY <1>1
  <2> QED
    BY <2>2, <2>3, ConsumerAssumption
<1>2. Main # Handler
  <2> SUFFICES ASSUME Main = Handler PROVE FALSE
    OBVIOUS
  <2>1. Clients = {Main, Sub}
    BY ConsumerAssumption
  <2> QED
    BY <1>1, <2>1
<1>3. Main # Sub
  <2> SUFFICES ASSUME Main = Sub PROVE FALSE
    OBVIOUS
  <2>1. Clients = {Main, Handler}
    BY ConsumerAssumption
  <2> QED
    BY <1>1, <2>1
<1>4. Handler # Sub
  <2> SUFFICES ASSUME Handler = Sub PROVE FALSE
    OBVIOUS
  <2>1. Clients = {Main, Handler}
    BY ConsumerAssumption
  <2> QED
    BY <1>1, <2>1
<1> QED
  BY <1>2, <1>3, <1>4

(* A thread acts only where it is, and moves on or off. *)
LEMMA HandlerStepPc ==
  ASSUME ThreadTypeOK, NEW t \in HandlerThreads, HandlerStep(t)
  PROVE  /\ thread[t].pc \notin {"off", "join"}
         /\ thread'[t].pc # "join"
         /\ \A u \in HandlerThreads \ {t} : thread'[u] = thread[u]
         /\ main' = main
<1> USE DEF At, Goto, ThreadTypeOK, ThreadState
<1>1. CASE Start(t) \/ Top(t)
  BY <1>1 DEF Start, Top
<1>2. CASE GetUnhandled(t)
  BY <1>2 DEF GetUnhandled
<1>3. CASE Scan(t)
  <2>1. PICK msg, todo :
          \/ thread' = [thread EXCEPT ![t].pc = "top", ![t].todo = {}]
          \/ thread' = [thread EXCEPT ![t].pc = "begin", ![t].msg = msg, ![t].todo = todo]
    <3> DEFINE wanted == IF thread[t].mode = "all" THEN thread[t].todo
                         ELSE {e \in thread[t].todo : Acknowledges(e.msg)}
    <3>1. thread' = IF wanted = {}
                    THEN [thread EXCEPT ![t].pc = "top", ![t].todo = {}]
                    ELSE [thread EXCEPT ![t].pc = "begin", ![t].msg = First(wanted).msg,
                                        ![t].todo = @ \ {First(wanted)}]
      BY <1>3 DEF Scan
    <3>2. [thread EXCEPT ![t].pc = "begin", ![t].msg = First(wanted).msg,
                         ![t].todo = @ \ {First(wanted)}]
          = [thread EXCEPT ![t].pc = "begin", ![t].msg = First(wanted).msg,
                         ![t].todo = thread[t].todo \ {First(wanted)}]
      <4> HIDE DEF wanted
      <4> QED
        OBVIOUS
    <3> HIDE DEF wanted
    <3> QED
      BY <3>1, <3>2
  <2>2. thread[t].pc = "scan" /\ main' = main
    BY <1>3 DEF Scan
  <2>3. CASE thread' = [thread EXCEPT ![t].pc = "top", ![t].todo = {}]
    BY <2>2, <2>3
  <2>4. CASE thread' = [thread EXCEPT ![t].pc = "begin", ![t].msg = msg, ![t].todo = todo]
    BY <2>2, <2>4
  <2> QED
    BY <2>1, <2>3, <2>4
<1>4. CASE Begin(t) \/ Listened(t)
  BY <1>4 DEF Begin, Listened
<1>5. CASE MarkList(t) \/ MarkTable(t)
  BY <1>5 DEF MarkList, MarkTable
<1>6. CASE MarkTableRaises(t)
  BY <1>6 DEF MarkTableRaises
<1>7. CASE End(t)
  BY <1>7 DEF End
<1>8. CASE Acknowledge(t) \/ Return(t)
  BY <1>8 DEF Acknowledge, Return
<1> QED
  BY <1>1, <1>2, <1>3, <1>4, <1>5, <1>6, <1>7, <1>8 DEF HandlerStep

(* Only these steps move the threads. *)
LEMMA ThreadMoves ==
  ASSUME [ConsumerNext]_allVars
  PROVE  \/ thread' = thread
         \/ \E t \in HandlerThreads : HandlerStep(t)
         \/ SubhandlerStep
  BY DEF ConsumerNext, allVars, consumerVars, LoadList, Serve, Receive, MainStart, MainSend, MainKey,
     AckWant, AckKind, AckClear, AckWaited, StopRunning, MainStop, StopServer, StopLock, StopMark,
     StopMarkRow, StopJoin

LEMMA SubhandlerPc ==
  ASSUME ThreadTypeOK, SubhandlerStep
  PROVE  /\ thread[Handler].pc \in {"listen", "want", "kind", "spawn", "join"}
         /\ thread'[Handler].pc \in {"want", "kind", "spawn", "join", "mark"}
         /\ thread[Handler].pc = "join" => thread[Sub].pc = "off"
         /\ thread'[Sub].pc = thread[Sub].pc \/ thread'[Handler].pc = "join"
         /\ main' = main
<1> USE ThreadsDistinct DEF At, Goto, ThreadTypeOK, ThreadState, HandlerThreads
<1>1. CASE SendBeforeHostUp \/ SubWant \/ SubKind
  BY <1>1 DEF SendBeforeHostUp, SubWant, SubKind
<1>2. CASE SubSpawn
  BY <1>2 DEF SubSpawn
<1>3. CASE SubJoined
  BY <1>3 DEF SubJoined
<1> QED
  BY <1>1, <1>2, <1>3 DEF SubhandlerStep

LEMMA SubWithinJoinStep ==
  ASSUME ThreadTypeOK, SubWithinJoin, [ConsumerNext]_allVars
  PROVE  SubWithinJoin'
<1> USE DEF SubWithinJoin, HandlerThreads
<1>1. CASE thread' = thread
  BY <1>1
<1>2. CASE HandlerStep(Handler)
  BY <1>2, HandlerStepPc, ThreadsDistinct
<1>3. CASE HandlerStep(Sub)
  BY <1>3, HandlerStepPc, ThreadsDistinct
<1>4. CASE SubhandlerStep
  BY <1>4, SubhandlerPc
<1> QED
  BY <1>1, <1>2, <1>3, <1>4, ThreadMoves

LEMMA HandlerJoinedStep ==
  ASSUME ThreadTypeOK, SubWithinJoin, HandlerJoined, [ConsumerNext]_allVars
  PROVE  HandlerJoined'
<1> USE DEF HandlerJoined, HandlerThreads
<1>1. CASE main' = main /\ main = "down"
  <2>1. ~HandlerStep(Handler) /\ ~SubhandlerStep
    BY <1>1, HandlerStepPc, SubhandlerPc
  <2>2. HandlerStep(Sub) => thread'[Handler] = thread[Handler]
    BY HandlerStepPc, ThreadsDistinct
  <2> QED
    BY <1>1, <2>1, <2>2, ThreadMoves
<1>2. CASE StopJoin
  BY <1>2 DEF StopJoin, MainGoto, At
<1>3. CASE MainStart \/ StopRunning \/ StopServer \/ StopLock \/ StopMark \/ StopMarkRow
  BY <1>3 DEF MainStart, MainSend, MainKey, AckWant, AckKind, AckClear, AckWaited, StopRunning,
     StopServer, StopLock, StopMark, StopMarkRow, MainGoto
<1> QED
  BY <1>1, <1>2, <1>3, MainMoves DEF MainStop

LEMMA ServerShutStep ==
  ASSUME StoreTypeOK, ServerShut, [ConsumerNext]_allVars
  PROVE  ServerShut'
<1> USE DEF ServerShut, ServerOpen
<1>1. ASSUME NEW a \in Acceptors, Serve(a) \/ \E m \in Messages : Receive(a, m)
      PROVE  ServerShut'
  BY <1>1 DEF Serve, Receive, PutRow, PutRowRaises, ReplyRaises, Accept, StoreTypeOK, consumerVars
<1>2. acceptor' = acceptor \/ \E a \in Acceptors : Serve(a) \/ \E m \in Messages : Receive(a, m)
  <2>1. ASSUME NEW c, NEW m, MarkCache(c, m) \/ MarkRow(c) \/ MarkRowRaises(c)
        PROVE  acceptor' = acceptor
    BY <2>1 DEF MarkCache, MarkRow, MarkRowRaises
  <2>2. CASE \E t \in HandlerThreads : HandlerStep(t)
    BY <2>1, <2>2 DEF HandlerStep, Start, Top, GetUnhandled, Scan, Begin, Listened, MarkList,
       MarkTable, MarkTableRaises, End, Acknowledge, Return, storeVars
  <2>3. CASE LoadList
    BY <2>3 DEF LoadList, LoadSelect, LoadFinish
  <2>4. CASE SubhandlerStep
    BY <2>4 DEF SubhandlerStep, SendBeforeHostUp, SubWant, SubKind, SubSpawn, SubJoined, storeVars
  <2>5. CASE MainStart \/ StopRunning
    BY <2>5 DEF MainStart, MainSend, MainKey, AckWant, AckKind, AckClear, AckWaited, StopRunning,
       storeVars
  <2>6. CASE MainStop
    BY <2>1, <2>6 DEF MainStop, StopServer, StopLock, StopMark, StopMarkRow, StopJoin, storeVars
  <2>7. CASE UNCHANGED allVars
    BY <2>7 DEF allVars, storeVars
  <2> QED
    BY <2>2, <2>3, <2>4, <2>5, <2>6, <2>7 DEF ConsumerNext
<1>3. CASE acceptor' = acceptor /\ main' = main
  BY <1>3
<1>4. CASE acceptor' = acceptor /\ (MainStart \/ StopRunning)
  BY <1>4 DEF MainStart, MainSend, MainKey, AckWant, AckKind, AckClear, AckWaited, StopRunning,
     MainGoto
<1>5. CASE acceptor' = acceptor /\ MainStop
  BY <1>5 DEF MainStop, StopServer, StopLock, StopMark, StopMarkRow, StopJoin, MainGoto
<1> QED
  BY <1>1, <1>2, <1>3, <1>4, <1>5, MainMoves

LEMMA MarkingKnownStep ==
  ASSUME StoreTypeOK, ThreadTypeOK, SubWithinJoin, MarkingKnown, [ConsumerNext]_allVars
  PROVE  MarkingKnown'
<1> USE ThreadsDistinct, ConsumerAssumption DEF MarkingKnown, HandlerThreads
<1>1. marking \in [{Main, Handler, Sub} -> Messages \cup {NoMsg}]
  BY DEF StoreTypeOK
<1>2. ASSUME NEW t \in HandlerThreads, MarkList(t) \/ MarkTable(t)
      PROVE  MarkingKnown'
  BY <1>1, <1>2 DEF MarkList, MarkTable, MarkCache, MarkRow, At, Goto, ThreadTypeOK, ThreadState
<1>3. ASSUME NEW t \in HandlerThreads, MarkTableRaises(t)
      PROVE  MarkingKnown'
  BY <1>1, <1>3 DEF MarkTableRaises, MarkRowRaises, At, ThreadTypeOK, ThreadState
<1>4. ASSUME NEW t \in HandlerThreads, HandlerStep(t), marking' = marking, ~At(t, "row")
      PROVE  MarkingKnown'
  BY <1>4, HandlerStepPc DEF At
<1>5. CASE SubhandlerStep
  <2>1. marking' = marking
    BY <1>5 DEF SubhandlerStep, SendBeforeHostUp, SubWant, SubKind, SubSpawn, SubJoined, storeVars
  <2>2. thread[Sub].pc = "off" /\ thread[Handler].pc # "row" /\ main' = main
    BY <1>5, SubhandlerPc DEF SubWithinJoin
  <2>3. marking[Sub] = NoMsg /\ marking[Handler] = NoMsg
    BY <2>2
  <2> QED
    BY <2>1, <2>2, <2>3
<1>6. CASE marking' = marking /\ thread' = thread /\ (main' = main \/ main # "row")
  BY <1>6
<1>7. CASE StopMark \/ StopMarkRow
  BY <1>1, <1>7 DEF StopMark, StopMarkRow, MarkCache, MarkRow, MarkRowRaises, MainGoto, storeVars
<1>8. ASSUME NEW t \in HandlerThreads, HandlerStep(t),
             ~MarkList(t), ~MarkTable(t), ~MarkTableRaises(t)
      PROVE  marking' = marking /\ ~At(t, "row")
  BY <1>8 DEF HandlerStep, Start, Top, GetUnhandled, Scan, Begin, Listened, End, Acknowledge,
     Return, storeVars, At
<1>9. CASE MainStart \/ StopRunning \/ StopServer \/ StopLock \/ StopJoin
  BY <1>6, <1>9 DEF MainStart, MainSend, MainKey, AckWant, AckKind, AckClear, AckWaited, StopRunning,
     StopServer, StopLock, StopJoin, MainGoto, storeVars
<1>10. CASE LoadList \/ \E a \in Acceptors : Serve(a) \/ \E m \in Messages : Receive(a, m)
  BY <1>6, <1>10 DEF LoadList, LoadSelect, LoadFinish, Serve, Receive, PutCache, PutRow,
     PutRowRaises, ReplyRaises, Accept, consumerVars
<1>11. CASE UNCHANGED allVars
  BY <1>6, <1>11 DEF allVars, storeVars, consumerVars
<1> QED
  BY <1>2, <1>3, <1>4, <1>5, <1>7, <1>8, <1>9, <1>10, <1>11 DEF ConsumerNext, MainStop

(* When shutdown has returned no thread of the consumer is at work and no   *)
(* call of the store is under way, whatever the threads were doing when it  *)
(* was called.                                                              *)
THEOREM QuietWhenDownHolds == ConsumerSafety => []QuietWhenDown
<1>1. ConsumerInit => ThreadTypeOK /\ QuietInv
  <2> SUFFICES ASSUME ConsumerInit PROVE ThreadTypeOK /\ QuietInv
    OBVIOUS
  <2>1. ThreadTypeOK
    BY DEF ConsumerInit, ThreadTypeOK, ThreadState, HandlerPcs
  <2>2. \A t \in HandlerThreads : thread[t].pc = IF t = Handler THEN "start" ELSE "off"
    BY DEF ConsumerInit
  <2>3. SubWithinJoin /\ HandlerJoined
    BY <2>2, ThreadsDistinct DEF ConsumerInit, SubWithinJoin, HandlerJoined, HandlerThreads
  <2>4. ServerShut /\ MarkingKnown
    <3>1. \A c \in Clients : marking[c] = NoMsg
      BY DEF ConsumerInit, StoreInit
    <3>2. main \in {"init", "up"}
      BY DEF ConsumerInit
    <3> QED
      BY <3>1, <3>2, ConsumerAssumption DEF ServerShut, ServerOpen, MarkingKnown, HandlerThreads
  <2> QED
    BY <2>1, <2>3, <2>4 DEF QuietInv
<1>2. StoreTypeOK /\ ThreadTypeOK /\ QuietInv /\ [ConsumerNext]_allVars => ThreadTypeOK' /\ QuietInv'
  BY ThreadTypeStep, ServerShutStep, SubWithinJoinStep, HandlerJoinedStep, MarkingKnownStep
     DEF QuietInv
<1>3. QuietInv => QuietWhenDown
  BY ConsumerAssumption DEF QuietInv, QuietWhenDown, ServerShut, ServerOpen, SubWithinJoin,
     HandlerJoined, MarkingKnown, At, HandlerThreads
<1> QED
  BY <1>1, <1>2, <1>3, ConsumerUsesStore, StoreTypeCorrect, PTL DEF ConsumerSafety, UsesStore

-----------------------------------------------------------------------------
(* Who waits for which acknowledge, and what the threads have in hand.      *)

(* The places where a thread has a message in hand. *)
Busy == {"begin", "listen", "want", "kind", "spawn", "join", "mark", "row", "end"}

(* The list holds what was put and not marked, each message once; before it *)
(* is loaded nothing was put.                                               *)
ListExact ==
  /\ marked \subseteq seen
  /\ CachedIds = seen \ marked
  /\ \A e, f \in cache : e.msg = f.msg => e = f
  /\ ~loaded => seen = {} /\ table = {}
  /\ loading.on => ~loaded /\ loading.rows = {}

(* A thread has a message in hand from begin to end, and it is marked from  *)
(* the row on.                                                              *)
InHand ==
  \A t \in HandlerThreads :
    /\ thread[t].msg # NoMsg <=> thread[t].pc \in Busy
    /\ thread[t].msg \in seen \cup {NoMsg}
    /\ thread[t].pc = "begin" => thread[t].msg \notin marked
    /\ thread[t].pc \in {"row", "end"} => thread[t].msg \in marked
    /\ thread[t].pc \in {"ack", "return"} => thread[t].mode = "ack"

(* Its copy of the list has each message once, and not the one in hand. *)
ToWalk ==
  \A t \in HandlerThreads :
    /\ thread[t].pc \in {"off", "start", "top", "list"} => thread[t].todo = {}
    /\ \A e \in thread[t].todo : e.msg \in seen /\ e.msg # thread[t].msg
    /\ \A e, f \in thread[t].todo : e.msg = f.msg => e = f

(* The copy does not go stale: no other thread marks what this one has yet  *)
(* to take, but for the messages that a subhandler passes over.             *)
Fresh ==
  /\ \A e \in thread[Handler].todo : e.msg \notin marked
  /\ \A e \in thread[Sub].todo : e.msg = BeforeHostUp => e.msg \notin marked

(* What shutdown would mark was marked already or is in somebody's hand. *)
HandingBegun ==
  handing # NoMsg => \/ handing \in marked
                     \/ \E t \in HandlerThreads : thread[t].msg = handing /\ thread[t].pc # "begin"

BeforeWait == {"init", "sent", "keyed", "want", "clear"}

(* Messages come after what makes Scalr send them, and BeforeHostUp is sent *)
(* once, by the one handling of HostInitResponse.                           *)
SentFirst ==
  /\ main = "init" => HostInit \notin asked
  /\ HostInit \in seen => HostInit \in asked
  /\ HostInitResponse \in seen => HostInit \in asked /\ main \notin {"init", "sent"}
  /\ BeforeHostUp \in seen => BeforeHostUp \in asked
  /\ BeforeHostUp \in asked =>
       \/ thread[Handler].msg = HostInitResponse /\ thread[Handler].pc \notin {"begin", "listen"}
       \/ thread[Handler].msg # HostInitResponse /\ HostInitResponse \in marked

(* Main waits until HostInit is marked, and everything that follows the     *)
(* wait comes after that.                                                   *)
WaitHeld ==
  /\ HostInit \in asked /\ main \notin {"init", "sent", "keyed"}
       => toAck = HostInit \/ HostInit \in marked
  /\ HostInit \in asked /\ main \notin BeforeWait \cup {"waiting"} => HostInit \in marked
  /\ ackEvent \/ hostInit \/ toAck = BeforeHostUp => HostInit \in marked

(* A handler that looks for an acknowledge takes HostInit alone; it does    *)
(* not look for that of BeforeHostUp, which it waits for itself.            *)
HostInitFirst ==
  /\ thread[Handler].mode = "ack" /\ thread[Handler].msg # NoMsg => thread[Handler].msg = HostInit
  /\ thread[Handler].pc \in {"ack", "return"} => HostInit \in marked

(* The second wait is set up after the first one was. *)
WaitsInTurn ==
  thread[Handler].pc \in {"kind", "spawn", "join"} \/ toAck = BeforeHostUp
    => main \notin BeforeWait

(* The subhandler looks for BeforeHostUp alone and ends when it was handled *)
(* or the consumer is shut down.                                            *)
SubInv ==
  /\ thread[Handler].pc \in {"want", "kind", "spawn", "join"} =>
       /\ thread[Handler].msg = HostInitResponse
       /\ \A e \in thread[Handler].todo : e.msg # BeforeHostUp
  /\ thread[Handler].pc \in {"kind", "spawn"} => toAck = BeforeHostUp
  /\ thread[Handler].pc \in {"spawn", "join"} => returnOnAck
  /\ thread[Handler].pc = "join" /\ thread[Sub].pc = "off" /\ running => BeforeHostUp \in marked
  /\ thread[Sub].pc \notin {"want", "kind", "spawn", "join"}
  /\ thread[Sub].msg \in {NoMsg, BeforeHostUp}
  /\ thread[Sub].pc \notin {"off", "start", "top"} => thread[Sub].mode = "ack"
  /\ thread[Sub].pc \notin {"off", "return"} => toAck = BeforeHostUp
  /\ thread[Sub].pc = "return" => toAck = NoMsg
  /\ thread[Sub].pc \in {"ack", "return"} => BeforeHostUp \in marked
  /\ toAck = BeforeHostUp => /\ thread[Handler].mode = "all"
                             /\ \/ thread[Handler].pc \in {"kind", "spawn"}
                                \/ thread[Sub].pc # "off"
                                \/ ~running
  /\ hostUp /\ running => BeforeHostUp \in marked

WaitInv ==
  /\ ListExact
  /\ InHand
  /\ ToWalk
  /\ Fresh
  /\ HandingBegun
  /\ SentFirst
  /\ WaitHeld
  /\ HostInitFirst
  /\ WaitsInTurn
  /\ SubInv
  /\ SubWithinJoin

LEMMA InitWaitInv == ConsumerInit => WaitInv
<1> SUFFICES ASSUME ConsumerInit PROVE WaitInv
  OBVIOUS
<1> USE DEF ConsumerInit, StoreInit, NotLoading, HandlerThreads
<1>1. ListExact
  BY DEF ListExact, CachedIds
<1>2. InHand /\ ToWalk /\ HandingBegun
  BY DEF InHand, ToWalk, HandingBegun, Busy
<1>3. Fresh /\ SentFirst
  BY DEF Fresh, SentFirst
<1>4. WaitHeld /\ HostInitFirst
  BY DistinctMessages, ThreadsDistinct DEF WaitHeld, HostInitFirst
<1>5. SubInv /\ SubWithinJoin
  BY DistinctMessages, ThreadsDistinct DEF SubInv, SubWithinJoin
<1>6. WaitsInTurn
  BY DistinctMessages DEF WaitsInTurn
<1> QED
  BY <1>1, <1>2, <1>3, <1>4, <1>5, <1>6 DEF WaitInv

(* What a step does to the list. *)
LEMMA StoreMoves ==
  ASSUME [ConsumerNext]_allVars
  PROVE  \/ UNCHANGED storeVars
         \/ \E a \in Acceptors : Serve(a)
         \/ \E a \in Acceptors, m \in Messages : Receive(a, m)
         \/ LoadList
         \/ \E t \in HandlerThreads : MarkList(t)
         \/ StopMark /\ handing # NoMsg /\ MarkCache(Main, handing)
         \/ \E c \in Clients : MarkRow(c) \/ MarkRowRaises(c)
<1>1. ASSUME NEW t \in HandlerThreads, HandlerStep(t)
      PROVE  UNCHANGED storeVars \/ MarkList(t) \/ \E c \in Clients : MarkRow(c) \/ MarkRowRaises(c)
  <2>1. t \in Clients
    BY ConsumerAssumption DEF HandlerThreads
  <2> QED
    BY <1>1, <2>1 DEF HandlerStep, Start, Top, GetUnhandled, Scan, Begin, Listened, MarkTable,
       MarkTableRaises, End, Acknowledge, Return
<1>2. CASE SubhandlerStep
  BY <1>2 DEF SubhandlerStep, SendBeforeHostUp, SubWant, SubKind, SubSpawn, SubJoined
<1>3. CASE MainStart \/ StopRunning
  BY <1>3 DEF MainStart, MainSend, MainKey, AckWant, AckKind, AckClear, AckWaited, StopRunning
<1>4. CASE MainStop
  <2>1. Main \in Clients
    BY ConsumerAssumption
  <2> QED
    BY <1>4, <2>1 DEF MainStop, StopServer, StopLock, StopMark, StopMarkRow, StopJoin
<1>5. CASE UNCHANGED allVars
  BY <1>5 DEF allVars
<1> QED
  BY <1>1, <1>2, <1>3, <1>4, <1>5 DEF ConsumerNext

LEMMA MarkListExact ==
  ASSUME StoreTypeOK, ListExact, NEW c \in Clients, NEW m, MarkCache(c, m)
  PROVE  ListExact' /\ seen' = seen /\ marked' = marked \cup {m} /\ m \in seen
<1>1. /\ loaded /\ loaded' = loaded /\ loading' = loading /\ m \in seen /\ seen' = seen
      /\ marked' = marked \cup {m} /\ cache' = {e \in cache : e.msg # m}
  BY DEF MarkCache, Without, tableVars
<1>2. CachedIds' = CachedIds \ {m}
  BY <1>1 DEF CachedIds
<1> QED
  BY <1>1, <1>2 DEF ListExact

LEMMA ReceiveListExact ==
  ASSUME StoreTypeOK, ListExact, NEW a \in Acceptors, NEW m \in Messages, Receive(a, m)
  PROVE  ListExact' /\ seen' = seen \cup {m} /\ marked' = marked /\ m \notin seen
<1>1. /\ loaded /\ loaded' = loaded /\ loading' = loading /\ m \notin seen
      /\ seen' = seen \cup {m} /\ marked' = marked
      /\ cache' = cache \cup {[at |-> clock + 1, msg |-> m]}
  BY DEF Receive, PutCache, history
<1>2. CachedIds' = CachedIds \cup {m}
  <2>1. PICK new : new.msg = m /\ cache' = cache \cup {new}
    BY <1>1
  <2> QED
    BY <2>1 DEF CachedIds
<1>3. \A e \in cache : e.msg # m
  BY <1>1 DEF ListExact, CachedIds
<1>4. \A e, f \in cache' : e.msg = f.msg => e = f
  BY <1>1, <1>3 DEF ListExact
<1> QED
  BY <1>1, <1>2, <1>4 DEF ListExact

LEMMA LoadListExact ==
  ASSUME StoreTypeOK, FreshStart, ListExact, LoadList
  PROVE  ListExact' /\ seen' = seen /\ marked' = marked
<1>1. CASE LoadSelect
  <2>1. UnhandledRows = {}
    BY <1>1 DEF LoadSelect, ListExact, UnhandledRows
  <2> QED
    BY <1>1, <2>1 DEF LoadSelect, tableVars, history, ListExact, CachedIds
<1>2. CASE LoadFinish
  <2>1. loading.rows = {} /\ ~loaded /\ seen = {} /\ marked = {}
    BY <1>2 DEF LoadFinish, ListExact
  <2>2. seen' = {} /\ cache' = {} /\ marked' = {} /\ loaded' /\ loading'.on = FALSE
    BY <1>2, <2>1 DEF LoadFinish, history, NotLoading
  <2> QED
    BY <2>1, <2>2 DEF ListExact, CachedIds
<1> QED
  BY <1>1, <1>2 DEF LoadList

(* What was put stays put, and what was marked stays marked: a step puts a  *)
(* new message, or marks the one in somebody's hand, or does neither.       *)
LEMMA SeenMoves ==
  ASSUME StoreTypeOK, FreshStart, ListExact, [ConsumerNext]_allVars
  PROVE  /\ ListExact'
         /\ \/ seen' = seen /\ marked' = marked
            \/ \E a \in Acceptors, m \in Messages :
                 Receive(a, m) /\ m \notin seen /\ seen' = seen \cup {m} /\ marked' = marked
            \/ \E t \in HandlerThreads :
                 MarkList(t) /\ seen' = seen /\ marked' = marked \cup {thread[t].msg}
            \/ StopMark /\ handing # NoMsg /\ seen' = seen /\ marked' = marked \cup {handing}
<1>1. CASE UNCHANGED storeVars
  BY <1>1 DEF storeVars, ListExact, CachedIds
<1>2. ASSUME NEW a \in Acceptors, Serve(a)
      PROVE  ListExact' /\ seen' = seen /\ marked' = marked
  <2>1. loaded
    BY <1>2 DEF Serve, PutRow, PutRowRaises, ReplyRaises, Accept, FreshStart
  <2>2. UNCHANGED <<loaded, loading, cache, seen, marked>>
    BY <1>2 DEF Serve, PutRow, PutRowRaises, ReplyRaises, Accept, listVars, history
  <2> QED
    BY <2>1, <2>2 DEF ListExact, CachedIds
<1>3. ASSUME NEW c \in Clients, MarkRow(c) \/ MarkRowRaises(c)
      PROVE  ListExact' /\ seen' = seen /\ marked' = marked
  <2>1. loaded
    BY <1>3 DEF MarkRow, MarkRowRaises, FreshStart
  <2>2. UNCHANGED <<loaded, loading, cache, seen, marked>>
    BY <1>3 DEF MarkRow, MarkRowRaises, listVars, history
  <2> QED
    BY <2>1, <2>2 DEF ListExact, CachedIds
<1>4. ASSUME NEW t \in HandlerThreads, MarkList(t)
      PROVE  ListExact' /\ seen' = seen /\ marked' = marked \cup {thread[t].msg}
  <2>1. t \in Clients /\ MarkCache(t, thread[t].msg)
    BY <1>4, ConsumerAssumption DEF HandlerThreads, MarkList
  <2> QED
    BY <2>1, MarkListExact
<1>5. CASE StopMark /\ handing # NoMsg /\ MarkCache(Main, handing)
  <2>1. Main \in Clients
    BY ConsumerAssumption
  <2> QED
    BY <1>5, <2>1, MarkListExact
<1> QED
  BY <1>1, <1>2, <1>3, <1>4, <1>5, StoreMoves, ReceiveListExact, LoadListExact

(* A thread after a step of it. *)
Becomes(t, pc, mode, todo, msg) ==
  /\ thread'[t].pc = pc
  /\ thread'[t].mode = mode
  /\ thread'[t].todo = todo
  /\ thread'[t].msg = msg

(* Where a step of a message_handler takes its thread. *)
LEMMA HandlerMoves ==
  ASSUME ThreadTypeOK, NEW t \in HandlerThreads, HandlerStep(t),
         NEW r, r = thread[t]
  PROVE  /\ \A u \in HandlerThreads \ {t} : thread'[u] = thread[u]
         /\ UNCHANGED <<running, returnOnAck, main, asked, hostInit, hostUp, overlapped>>
         /\ \/ Start(t) /\ r.pc = "start" /\ Becomes(t, "top", r.mode, r.todo, r.msg)
            \/ Top(t) /\ r.pc = "top" /\ ~running /\ Becomes(t, "off", r.mode, r.todo, r.msg)
            \/ /\ Top(t) /\ r.pc = "top" /\ running
               /\ Becomes(t, "list", IF toAck # NoMsg THEN "ack" ELSE "all", r.todo, r.msg)
            \/ GetUnhandled(t) /\ r.pc = "list" /\ Becomes(t, "scan", r.mode, cache, r.msg)
            \/ Scan(t) /\ r.pc = "scan" /\ Becomes(t, "top", r.mode, {}, r.msg)
            \/ /\ Scan(t) /\ r.pc = "scan"
               /\ \E e \in r.todo : /\ r.mode = "all" \/ e.msg = toAck
                                    /\ Becomes(t, "begin", r.mode, r.todo \ {e}, e.msg)
            \/ Begin(t) /\ r.pc = "begin" /\ Becomes(t, "listen", r.mode, r.todo, r.msg)
            \/ Listened(t) /\ r.pc = "listen" /\ Becomes(t, "mark", r.mode, r.todo, r.msg)
            \/ MarkList(t) /\ r.pc = "mark" /\ Becomes(t, "row", r.mode, r.todo, r.msg)
            \/ MarkTable(t) /\ r.pc = "row" /\ Becomes(t, "end", r.mode, r.todo, r.msg)
            \/ MarkTableRaises(t) /\ r.pc = "row" /\ Becomes(t, "top", r.mode, {}, NoMsg)
            \/ End(t) /\ r.pc = "end" /\ r.mode = "ack" /\ Becomes(t, "ack", r.mode, r.todo, NoMsg)
            \/ End(t) /\ r.pc = "end" /\ r.mode = "all" /\ Becomes(t, "scan", r.mode, r.todo, NoMsg)
            \/ Acknowledge(t) /\ r.pc = "ack" /\ Becomes(t, "return", r.mode, r.todo, r.msg)
            \/ Return(t) /\ r.pc = "return" /\ returnOnAck /\ Becomes(t, "off", r.mode, {}, r.msg)
            \/ Return(t) /\ r.pc = "return" /\ ~returnOnAck /\ Becomes(t, "top", r.mode, {}, r.msg)
<1> USE DEF At, Goto, ThreadTypeOK, ThreadState, Becomes, sharedVars, lifeVars
<1>1. r \in ThreadState
  OBVIOUS
<1>2. CASE Start(t) \/ Top(t)
  BY <1>1, <1>2 DEF Start, Top
<1>3. CASE GetUnhandled(t)
  BY <1>1, <1>3 DEF GetUnhandled
<1>4. CASE Scan(t)
  <2> DEFINE wanted == IF r.mode = "all" THEN r.todo
                       ELSE {e \in r.todo : Acknowledges(e.msg)}
  <2>1. /\ thread' = IF wanted = {}
                     THEN [thread EXCEPT ![t].pc = "top", ![t].todo = {}]
                     ELSE [thread EXCEPT ![t].pc = "begin", ![t].msg = First(wanted).msg,
                                         ![t].todo = @ \ {First(wanted)}]
        /\ r.pc = "scan"
        /\ UNCHANGED <<running, returnOnAck, main, asked, hostInit, hostUp, overlapped>>
    BY <1>4 DEF Scan
  <2>2. CASE wanted = {}
    <3>1. thread' = [thread EXCEPT ![t].pc = "top", ![t].todo = {}]
      BY <2>1, <2>2
    <3> HIDE DEF wanted
    <3>2. /\ Becomes(t, "top", r.mode, {}, r.msg)
          /\ \A u \in HandlerThreads \ {t} : thread'[u] = thread[u]
      BY <1>1, <3>1
    <3> QED
      BY <1>4, <2>1, <3>2
  <2>3. CASE wanted # {}
    <3>1. wanted \in SUBSET Entry
      BY <1>1
    <3>2. PICK e \in wanted : e = First(wanted)
      BY <2>3, <3>1, FirstIn
    <3>3. e \in r.todo /\ (r.mode = "all" \/ e.msg = toAck)
      BY <3>2 DEF Acknowledges
    <3>4. thread' = [thread EXCEPT ![t].pc = "begin", ![t].msg = e.msg, ![t].todo = @ \ {e}]
      BY <2>1, <2>3, <3>2
    <3> HIDE DEF wanted
    <3>5. /\ Becomes(t, "begin", r.mode, r.todo \ {e}, e.msg)
          /\ \A u \in HandlerThreads \ {t} : thread'[u] = thread[u]
      BY <1>1, <3>4
    <3> QED
      BY <1>4, <2>1, <3>3, <3>5
  <2> QED
    BY <2>2, <2>3
<1>5. CASE Begin(t) \/ Listened(t)
  BY <1>1, <1>5 DEF Begin, Listened
<1>6. CASE MarkList(t) \/ MarkTable(t)
  BY <1>1, <1>6 DEF MarkList, MarkTable
<1>7. CASE MarkTableRaises(t)
  BY <1>1, <1>7 DEF MarkTableRaises
<1>8. CASE End(t)
  <2>1. r.mode = "ack" \/ r.mode = "all"
    BY <1>1
  <2> QED
    BY <1>1, <1>8, <2>1 DEF End
<1>9. CASE Acknowledge(t)
  BY <1>1, <1>9 DEF Acknowledge
<1>10. CASE Return(t)
  BY <1>1, <1>10 DEF Return
<1> QED
  BY <1>2, <1>3, <1>4, <1>5, <1>6, <1>7, <1>8, <1>9, <1>10 DEF HandlerStep

(* Where a step of on_HostInitResponse takes the handler and its subhandler. *)
LEMMA SubMoves ==
  ASSUME ThreadTypeOK, SubhandlerStep, NEW r, r = thread[Handler], NEW s, s = thread[Sub]
  PROVE  /\ UNCHANGED <<running, handing, ackEvent, main, hostInit>>
         /\ \/ /\ SendBeforeHostUp /\ r.pc = "listen" /\ r.msg = HostInitResponse
               /\ Becomes(Handler, "want", r.mode, r.todo, r.msg) /\ thread'[Sub] = s
               /\ UNCHANGED <<toAck, returnOnAck, hostUp>> /\ asked' = asked \cup {BeforeHostUp}
            \/ /\ SubWant /\ r.pc = "want"
               /\ Becomes(Handler, "kind", r.mode, r.todo, r.msg) /\ thread'[Sub] = s
               /\ toAck' = BeforeHostUp /\ UNCHANGED <<returnOnAck, hostUp, asked>>
            \/ /\ SubKind /\ r.pc = "kind"
               /\ Becomes(Handler, "spawn", r.mode, r.todo, r.msg) /\ thread'[Sub] = s
               /\ returnOnAck' = TRUE /\ UNCHANGED <<toAck, hostUp, asked>>
            \/ /\ SubSpawn /\ r.pc = "spawn"
               /\ Becomes(Handler, "join", r.mode, r.todo, r.msg)
               /\ Becomes(Sub, "start", s.mode, s.todo, s.msg)
               /\ UNCHANGED <<toAck, returnOnAck, hostUp, asked>>
            \/ /\ SubJoined /\ r.pc = "join" /\ s.pc = "off"
               /\ Becomes(Handler, "mark", r.mode, r.todo, r.msg) /\ thread'[Sub] = s
               /\ UNCHANGED <<toAck, returnOnAck, asked>>
<1> USE ThreadsDistinct DEF At, Goto, ThreadTypeOK, ThreadState, Becomes, HandlerThreads, sharedVars,
        lifeVars
<1>1. r \in ThreadState /\ s \in ThreadState
  OBVIOUS
<1>2. CASE SendBeforeHostUp \/ SubWant \/ SubKind
  BY <1>1, <1>2 DEF SendBeforeHostUp, SubWant, SubKind
<1>3. CASE SubSpawn
  BY <1>1, <1>3 DEF SubSpawn
<1>4. CASE SubJoined
  BY <1>1, <1>4 DEF SubJoined
<1> QED
  BY <1>2, <1>3, <1>4 DEF SubhandlerStep

(* No two threads have the same message in hand. *)
LEMMA HandsDiffer ==
  ASSUME InHand, SubInv, SubWithinJoin,
         NEW t \in HandlerThreads, NEW u \in HandlerThreads \ {t}, thread[t].msg # NoMsg
  PROVE  thread[t].msg # thread[u].msg
<1>1. thread[Sub].msg # NoMsg => thread[Sub].msg # thread[Handler].msg
  BY DistinctMessages DEF InHand, SubInv, SubWithinJoin, HandlerThreads, Busy
<1> QED
  BY <1>1 DEF HandlerThreads

(* The steps of the consumer, by what they do to the messages. *)
LEMMA ConsumerMoves ==
  ASSUME StoreTypeOK, FreshStart, ListExact, [ConsumerNext]_allVars
  PROVE  \/ \E t \in HandlerThreads :
              /\ HandlerStep(t) /\ seen' = seen
              /\ marked' = IF thread[t].pc = "mark" THEN marked \cup {thread[t].msg} ELSE marked
         \/ SubhandlerStep /\ seen' = seen /\ marked' = marked
         \/ /\ MainStart \/ StopRunning \/ StopServer \/ StopLock \/ StopJoin
            /\ thread' = thread /\ seen' = seen /\ marked' = marked
         \/ /\ StopMark \/ StopMarkRow
            /\ UNCHANGED <<thread, sharedVars, asked, hostInit, hostUp, overlapped, missed>>
            /\ seen' = seen
            /\ marked' = marked \/ (handing # NoMsg /\ marked' = marked \cup {handing})
         \/ /\ UNCHANGED consumerVars /\ marked' = marked
            /\ \E a \in Acceptors, m \in Messages :
                 Receive(a, m) /\ m \notin seen /\ seen' = seen \cup {m}
         \/ UNCHANGED consumerVars /\ seen' = seen /\ marked' = marked
<1>1. ASSUME NEW t \in HandlerThreads, HandlerStep(t)
      PROVE  /\ seen' = seen
             /\ marked' = IF thread[t].pc = "mark" THEN marked \cup {thread[t].msg} ELSE marked
  <2>1. CASE MarkList(t)
    BY <2>1 DEF MarkList, At, MarkCache
  <2>2. CASE Start(t) \/ Top(t) \/ GetUnhandled(t) \/ Scan(t) \/ Begin(t) \/ Listened(t)
             \/ End(t) \/ Acknowledge(t) \/ Return(t)
    BY <2>2 DEF Start, Top, GetUnhandled, Scan, Begin, Listened, End, Acknowledge, Return, At,
       storeVars
  <2>3. CASE MarkTable(t) \/ MarkTableRaises(t)
    BY <2>3 DEF MarkTable, MarkTableRaises, MarkRow, MarkRowRaises, At, listVars, history
  <2> QED
    BY <1>1, <2>1, <2>2, <2>3 DEF HandlerStep
<1>2. CASE SubhandlerStep
  BY <1>2 DEF SubhandlerStep, SendBeforeHostUp, SubWant, SubKind, SubSpawn, SubJoined, storeVars
<1>3. CASE MainStart \/ StopRunning \/ StopServer \/ StopLock \/ StopJoin
  BY <1>3 DEF MainStart, MainSend, MainKey, AckWant, AckKind, AckClear, AckWaited, StopRunning,
     StopServer, StopLock, StopJoin, storeVars
<1>4. CASE StopMark
  BY <1>4 DEF StopMark, MarkCache, storeVars, lifeVars
<1>5. CASE StopMarkRow
  BY <1>5 DEF StopMarkRow, MarkRow, MarkRowRaises, listVars, history
<1>6. ASSUME NEW a \in Acceptors, NEW m \in Messages, Receive(a, m)
      PROVE  UNCHANGED consumerVars /\ marked' = marked /\ m \notin seen /\ seen' = seen \cup {m}
  BY <1>6 DEF Receive, PutCache, history
<1>7. ASSUME NEW a \in Acceptors, Serve(a)
      PROVE  UNCHANGED consumerVars /\ seen' = seen /\ marked' = marked
  BY <1>7 DEF Serve, PutRow, PutRowRaises, ReplyRaises, Accept, listVars, history
<1>8. CASE LoadList
  BY <1>8, LoadListExact DEF LoadList
<1>9. CASE UNCHANGED allVars
  BY <1>9 DEF allVars, storeVars
<1> QED
  BY <1>1, <1>2, <1>3, <1>4, <1>5, <1>6, <1>7, <1>8, <1>9 DEF ConsumerNext, MainStop

(* What shutdown marks is in no copy of the list that is still to be taken  *)
(* from, and about to be begun by nobody.                                   *)
LEMMA HandingApart ==
  ASSUME WaitInv, handing # NoMsg
  PROVE  /\ \A t \in HandlerThreads : thread[t].pc = "begin" => thread[t].msg # handing
         /\ \A e \in thread[Handler].todo : e.msg # handing
         /\ \A e \in thread[Sub].todo : e.msg = BeforeHostUp => e.msg # handing
<1> USE DEF WaitInv, HandlerThreads
<1>1. CASE handing \in marked
  BY <1>1 DEF InHand, Fresh
<1>2. ASSUME NEW u \in HandlerThreads, thread[u].msg = handing, thread[u].pc # "begin"
      PROVE  /\ \A t \in HandlerThreads : thread[t].pc = "begin" => thread[t].msg # handing
             /\ \A e \in thread[Handler].todo : e.msg # handing
             /\ \A e \in thread[Sub].todo : e.msg = BeforeHostUp => e.msg # handing
  <2>1. \A t \in HandlerThreads : thread[t].pc = "begin" => thread[t].msg # handing
    BY <1>2, HandsDiffer DEF InHand, Busy
  <2>2. CASE u = Handler
    <3>1. \A e \in thread[Handler].todo : e.msg # handing
      BY <1>2, <2>2 DEF ToWalk
    <3>2. \A e \in thread[Sub].todo : thread[Handler].msg = HostInitResponse
      BY DEF ToWalk, SubWithinJoin, SubInv
    <3>3. HostInitResponse # BeforeHostUp
      BY DistinctMessages
    <3> QED
      BY <1>2, <2>1, <2>2, <3>1, <3>2, <3>3
  <2>3. CASE u = Sub
    <3>1. thread[Handler].pc = "join"
      BY <1>2, <2>3 DEF InHand, Busy, SubWithinJoin
    <3>2. handing = BeforeHostUp
      BY <1>2, <2>3 DEF SubInv
    <3>3. \A e \in thread[Handler].todo : e.msg # handing
      BY <3>1, <3>2 DEF SubInv
    <3>4. \A e \in thread[Sub].todo : e.msg # handing
      BY <1>2, <2>3 DEF ToWalk
    <3> QED
      BY <2>1, <3>3, <3>4
  <2> QED
    BY <2>2, <2>3
<1> QED
  BY <1>1, <1>2 DEF HandingBegun

LEMMA InHandStep ==
  ASSUME StoreTypeOK, FreshStart, ThreadTypeOK, WaitInv, [ConsumerNext]_allVars
  PROVE  InHand'
<1> USE DEF WaitInv, HandlerThreads
<1>1. marked \subseteq seen
  BY DEF ListExact
<1>2. ASSUME NEW t \in HandlerThreads, HandlerStep(t), seen' = seen,
             marked' = IF thread[t].pc = "mark" THEN marked \cup {thread[t].msg} ELSE marked
      PROVE  InHand'
  <2>1. \A u \in HandlerThreads \ {t} : thread'[u] = thread[u]
    BY <1>2, HandlerMoves
  <2>2. ASSUME NEW u \in HandlerThreads \ {t}
        PROVE  /\ thread'[u].msg # NoMsg <=> thread'[u].pc \in Busy
               /\ thread'[u].msg \in seen' \cup {NoMsg}
               /\ thread'[u].pc = "begin" => thread'[u].msg \notin marked'
               /\ thread'[u].pc \in {"row", "end"} => thread'[u].msg \in marked'
               /\ thread'[u].pc \in {"ack", "return"} => thread'[u].mode = "ack"
    <3>1. thread[t].pc = "mark" => thread[t].msg # thread[u].msg
      BY HandsDiffer DEF InHand, Busy
    <3> QED
      BY <1>2, <2>1, <2>2, <3>1 DEF InHand
  <2>3. /\ thread'[t].msg # NoMsg <=> thread'[t].pc \in Busy
        /\ thread'[t].msg \in seen' \cup {NoMsg}
        /\ thread'[t].pc = "begin" => thread'[t].msg \notin marked'
        /\ thread'[t].pc \in {"row", "end"} => thread'[t].msg \in marked'
        /\ thread'[t].pc \in {"ack", "return"} => thread'[t].mode = "ack"
    <3>1. NoMsg \notin seen
      BY StoreAssumption DEF StoreTypeOK
    <3>2. ASSUME NEW e \in thread[t].todo, thread[t].pc = "scan",
                 thread[t].mode = "all" \/ e.msg = toAck
          PROVE  e.msg \in seen /\ e.msg \notin marked
      <4>1. t = Sub => e.msg = BeforeHostUp
        BY <3>2 DEF SubInv
      <4> QED
        BY <4>1 DEF ToWalk, Fresh
    <3> DEFINE r == thread[t]
    <3>3. /\ r.msg # NoMsg <=> r.pc \in Busy
          /\ r.msg \in seen \cup {NoMsg}
          /\ r.pc = "begin" => r.msg \notin marked
          /\ r.pc \in {"row", "end"} => r.msg \in marked
          /\ r.pc \in {"ack", "return"} => r.mode = "ack"
      BY DEF InHand
    <3>4. \/ /\ r.pc \in {"start", "top", "scan", "return"}
             /\ \E pc \in {"off", "top", "list"} : \E mode, todo : Becomes(t, pc, mode, todo, r.msg)
          \/ r.pc = "list" /\ Becomes(t, "scan", r.mode, cache, r.msg)
          \/ r.pc = "scan" /\ \E e \in r.todo : /\ r.mode = "all" \/ e.msg = toAck
                                              /\ Becomes(t, "begin", r.mode, r.todo \ {e}, e.msg)
          \/ r.pc = "begin" /\ Becomes(t, "listen", r.mode, r.todo, r.msg)
          \/ r.pc = "listen" /\ Becomes(t, "mark", r.mode, r.todo, r.msg)
          \/ r.pc = "mark" /\ Becomes(t, "row", r.mode, r.todo, r.msg)
          \/ r.pc = "row" /\ Becomes(t, "end", r.mode, r.todo, r.msg)
          \/ r.pc = "row" /\ Becomes(t, "top", r.mode, {}, NoMsg)
          \/ r.pc = "end" /\ r.mode = "ack" /\ Becomes(t, "ack", r.mode, r.todo, NoMsg)
          \/ r.pc = "end" /\ r.mode = "all" /\ Becomes(t, "scan", r.mode, r.todo, NoMsg)
          \/ r.pc = "ack" /\ Becomes(t, "return", r.mode, r.todo, r.msg)
      BY <1>2, HandlerMoves
    <3> HIDE DEF r, WaitInv
    <3>5. (r.pc = "mark" => marked' = marked \cup {r.msg}) /\ marked' \in {marked, marked \cup {r.msg}}
      BY <1>2 DEF r
    <3>6. ASSUME NEW e \in r.todo, r.pc = "scan", r.mode = "all" \/ e.msg = toAck,
                 Becomes(t, "begin", r.mode, r.todo \ {e}, e.msg)
          PROVE  /\ thread'[t].pc = "begin" /\ thread'[t].msg = e.msg
                 /\ e.msg \in seen /\ e.msg \notin marked' /\ e.msg # NoMsg
      BY <1>2, <3>1, <3>2, <3>6 DEF Becomes, r
    <3>7. ASSUME NEW pc \in {"off", "top", "list"}, NEW mode, NEW todo,
                 Becomes(t, pc, mode, todo, r.msg), r.pc \in {"start", "top", "scan", "return"}
          PROVE  /\ thread'[t].pc \in {"off", "top", "list"} /\ thread'[t].msg = NoMsg
      BY <3>3, <3>7 DEF Busy, Becomes
    <3>8. \/ /\ thread'[t].pc \in {"off", "top", "list", "scan", "ack", "return"}
             /\ thread'[t].msg = NoMsg
             /\ thread'[t].pc \in {"ack", "return"} => thread'[t].mode = "ack"
          \/ /\ thread'[t].pc = "begin"
             /\ thread'[t].msg \in seen \ marked' /\ thread'[t].msg # NoMsg
          \/ /\ thread'[t].pc \in {"listen", "mark"}
             /\ thread'[t].msg = r.msg /\ r.msg # NoMsg
          \/ /\ thread'[t].pc \in {"row", "end"}
             /\ thread'[t].msg = r.msg /\ r.msg # NoMsg /\ r.msg \in marked'
      BY <3>3, <3>4, <3>5, <3>6, <3>7 DEF Busy, Becomes
    <3> QED
      BY <1>2, <3>1, <3>3, <3>8 DEF Busy
  <2> QED
    BY <2>2, <2>3 DEF InHand
<1>3. CASE SubhandlerStep /\ seen' = seen /\ marked' = marked
  <2> DEFINE r == thread[Handler]
             s == thread[Sub]
  <2>1. /\ \E pc : Becomes(Handler, pc, r.mode, r.todo, r.msg) /\ r.pc \in Busy
                     /\ pc \in {"want", "kind", "spawn", "join", "mark"}
        /\ thread'[Sub] = s \/ (s.pc = "off" /\ Becomes(Sub, "start", s.mode, s.todo, s.msg))
    <3>1. SubSpawn => s.pc = "off"
      BY DEF SubSpawn, At, SubWithinJoin
    <3> QED
      BY <1>3, <3>1, SubMoves DEF Busy
  <2>2. ASSUME NEW t \in HandlerThreads
        PROVE  /\ thread'[t].msg = thread[t].msg
               /\ thread'[t].msg # NoMsg <=> thread'[t].pc \in Busy
               /\ thread'[t].pc \notin {"begin", "row", "end", "ack", "return"} \/ thread'[t] = thread[t]
    BY <2>1, ThreadsDistinct DEF InHand, Becomes, Busy
  <2> QED
    BY <1>3, <2>2 DEF InHand
<1>4. CASE thread' = thread /\ seen' = seen /\ marked' = marked
  BY <1>4 DEF InHand
<1>5. CASE thread' = thread /\ seen' = seen /\ handing # NoMsg /\ marked' = marked \cup {handing}
  BY <1>5, HandingApart DEF InHand
<1>6. ASSUME NEW m, thread' = thread, marked' = marked, m \notin seen, seen' = seen \cup {m}
      PROVE  InHand'
  BY <1>6 DEF InHand
<1> QED
  BY <1>2, <1>3, <1>4, <1>5, <1>6, ConsumerMoves DEF consumerVars

LEMMA ToWalkStep ==
  ASSUME StoreTypeOK, FreshStart, ThreadTypeOK, WaitInv, [ConsumerNext]_allVars
  PROVE  ToWalk'
<1> USE DEF WaitInv, HandlerThreads
<1>1. ASSUME NEW t \in HandlerThreads, HandlerStep(t), seen' = seen
      PROVE  ToWalk'
  <2>1. \A u \in HandlerThreads \ {t} : thread'[u] = thread[u]
    BY <1>1, HandlerMoves
  <2>2. /\ \A e \in cache : e.msg \in seen
        /\ \A e, f \in cache : e.msg = f.msg => e = f
        /\ NoMsg \notin seen
    BY StoreAssumption DEF ListExact, CachedIds, StoreTypeOK
  <2>3. /\ thread'[t].pc \in {"off", "start", "top", "list"} => thread'[t].todo = {}
        /\ \A e \in thread'[t].todo : e.msg \in seen /\ e.msg # thread'[t].msg
        /\ \A e, f \in thread'[t].todo : e.msg = f.msg => e = f
    <3> DEFINE r == thread[t]
    <3>1. /\ r.pc \in {"off", "start", "top", "list"} => r.todo = {}
          /\ \A e \in r.todo : e.msg \in seen /\ e.msg # r.msg
          /\ \A e, f \in r.todo : e.msg = f.msg => e = f
          /\ r.pc = "list" => r.msg = NoMsg
      BY DEF ToWalk, InHand, Busy
    <3>2. \/ thread'[t].todo = {}
          \/ /\ thread'[t].pc = "scan" /\ thread'[t].todo = cache
             /\ thread'[t].msg = r.msg /\ r.pc = "list"
          \/ /\ thread'[t].pc = "begin"
             /\ \E e \in r.todo : thread'[t].todo = r.todo \ {e} /\ thread'[t].msg = e.msg
          \/ /\ thread'[t].pc \notin {"off", "start", "top", "list"} /\ thread'[t].todo = r.todo
             /\ thread'[t].msg \in {r.msg, NoMsg}
      BY <1>1, <3>1, HandlerMoves DEF Becomes
    <3> HIDE DEF r, WaitInv
    <3> QED
      BY <2>2, <3>1, <3>2
  <2> QED
    BY <1>1, <2>1, <2>3 DEF ToWalk
<1>2. CASE SubhandlerStep /\ seen' = seen
  <2> DEFINE r == thread[Handler]
             s == thread[Sub]
  <2>1. SubSpawn => s.pc = "off"
    BY DEF SubSpawn, At, SubWithinJoin
  <2>2. /\ \E pc : Becomes(Handler, pc, r.mode, r.todo, r.msg)
                     /\ pc \in {"want", "kind", "spawn", "join", "mark"}
        /\ thread'[Sub] = s \/ (s.pc = "off" /\ Becomes(Sub, "start", s.mode, s.todo, s.msg))
    BY <1>2, <2>1, SubMoves
  <2>3. ASSUME NEW t \in HandlerThreads
        PROVE  /\ thread'[t].msg = thread[t].msg
               /\ thread'[t].todo = thread[t].todo
               /\ thread'[t].pc \in {"off", "start", "top", "list"} => thread[t].pc \in {"off", "start", "top", "list"}
    BY <2>2, ThreadsDistinct DEF Becomes
  <2> QED
    BY <1>2, <2>3 DEF ToWalk
<1>3. CASE thread' = thread /\ seen \subseteq seen'
  BY <1>3 DEF ToWalk
<1> QED
  BY <1>1, <1>2, <1>3, ConsumerMoves DEF consumerVars

(* What a step of a message_handler does to the shared fields. *)
LEMMA HandlerShared ==
  ASSUME NEW t \in HandlerThreads, HandlerStep(t)
  PROVE  /\ \/ UNCHANGED <<toAck, ackEvent>>
            \/ thread[t].pc = "ack" /\ toAck' = NoMsg /\ ackEvent' = TRUE
         /\ handing' = IF thread[t].pc = "begin" THEN thread[t].msg
                       ELSE IF thread[t].pc = "end" THEN NoMsg ELSE handing
         /\ UNCHANGED <<running, returnOnAck, main, asked, hostInit, hostUp, overlapped>>
<1> USE DEF sharedVars, lifeVars, At
<1>1. CASE Start(t) \/ Top(t) \/ GetUnhandled(t) \/ Scan(t) \/ Begin(t) \/ Listened(t)
  BY <1>1 DEF Start, Top, GetUnhandled, Scan, Begin, Listened
<1>2. CASE MarkList(t) \/ MarkTable(t) \/ MarkTableRaises(t)
  BY <1>2 DEF MarkList, MarkTable, MarkTableRaises
<1>3. CASE End(t) \/ Acknowledge(t) \/ Return(t)
  BY <1>3 DEF End, Acknowledge, Return
<1> QED
  BY <1>1, <1>2, <1>3 DEF HandlerStep

LEMMA FreshStep ==
  ASSUME StoreTypeOK, FreshStart, ThreadTypeOK, WaitInv, [ConsumerNext]_allVars
  PROVE  Fresh'
<1> USE DEF WaitInv, HandlerThreads
<1>1. ASSUME NEW t \in HandlerThreads, HandlerStep(t),
             marked' = IF thread[t].pc = "mark" THEN marked \cup {thread[t].msg} ELSE marked
      PROVE  Fresh'
  <2>1. \A u \in HandlerThreads \ {t} : thread'[u] = thread[u]
    BY <1>1, HandlerMoves
  <2>2. \A e \in cache : e.msg \notin marked
    BY DEF ListExact, CachedIds
  <2>3. /\ thread[t].pc = "mark" => thread'[t].todo = thread[t].todo
        /\ \A e \in thread'[t].todo : e \in thread[t].todo \/ e \in cache
    BY <1>1, HandlerMoves DEF Becomes
  <2>4. thread[t].pc = "mark" => \A e \in thread[t].todo : e.msg # thread[t].msg
    BY DEF ToWalk
  <2>5. CASE t = Handler
    <3>1. \A e \in thread'[Handler].todo : e.msg \notin marked'
      BY <1>1, <2>2, <2>3, <2>4, <2>5 DEF Fresh
    <3>2. thread[t].pc = "mark" => thread[Sub].todo = {}
      BY <2>5 DEF SubWithinJoin, ToWalk
    <3> QED
      BY <1>1, <2>1, <2>5, <3>1, <3>2, ThreadsDistinct DEF Fresh
  <2>6. CASE t = Sub
    <3>1. \A e \in thread'[Sub].todo : e.msg = BeforeHostUp => e.msg \notin marked'
      BY <1>1, <2>2, <2>3, <2>4, <2>6 DEF Fresh
    <3>2. thread[t].pc = "mark" => \A e \in thread[Handler].todo : e.msg # thread[Sub].msg
      BY <2>6 DEF SubWithinJoin, SubInv, InHand, Busy
    <3> QED
      BY <1>1, <2>1, <2>6, <3>1, <3>2, ThreadsDistinct DEF Fresh
  <2> QED
    BY <2>5, <2>6
<1>2. CASE SubhandlerStep /\ marked' = marked
  <2>1. thread'[Handler].todo = thread[Handler].todo /\ thread'[Sub].todo = thread[Sub].todo
    BY <1>2, SubMoves DEF Becomes
  <2> QED
    BY <1>2, <2>1 DEF Fresh
<1>3. CASE thread' = thread /\ marked' = marked
  BY <1>3 DEF Fresh
<1>4. CASE thread' = thread /\ handing # NoMsg /\ marked' = marked \cup {handing}
  BY <1>4, HandingApart DEF Fresh
<1> QED
  BY <1>1, <1>2, <1>3, <1>4, ConsumerMoves DEF consumerVars

LEMMA HandingBegunStep ==
  ASSUME StoreTypeOK, FreshStart, ThreadTypeOK, WaitInv, [ConsumerNext]_allVars
  PROVE  HandingBegun'
<1> USE DEF WaitInv, HandlerThreads
<1>1. ASSUME NEW t \in HandlerThreads, HandlerStep(t), marked \subseteq marked'
      PROVE  HandingBegun'
  <2>1. \A u \in HandlerThreads \ {t} : thread'[u] = thread[u]
    BY <1>1, HandlerMoves
  <2>2. handing' = IF thread[t].pc = "begin" THEN thread[t].msg
                   ELSE IF thread[t].pc = "end" THEN NoMsg ELSE handing
    BY <1>1, HandlerShared
  <2>3. CASE thread[t].pc = "begin"
    <3>1. thread'[t].msg = thread[t].msg /\ thread'[t].pc = "listen"
      BY <1>1, <2>3, HandlerMoves DEF Becomes
    <3> QED
      BY <2>2, <2>3, <3>1 DEF HandingBegun
  <2>4. CASE thread[t].pc = "end"
    BY <2>2, <2>4 DEF HandingBegun
  <2>5. CASE thread[t].pc \notin {"begin", "end"} /\ handing # NoMsg /\ thread[t].msg = handing
    <3>1. thread[t].pc \in Busy
      BY <2>5 DEF InHand
    <3>2. \/ thread'[t].msg = thread[t].msg /\ thread'[t].pc # "begin"
          \/ thread[t].pc = "row"
      BY <1>1, <2>5, <3>1, HandlerMoves DEF Becomes, Busy
    <3>3. thread[t].pc = "row" => handing \in marked
      BY <2>5 DEF InHand
    <3> QED
      BY <1>1, <2>2, <2>5, <3>2, <3>3 DEF HandingBegun
  <2>6. CASE thread[t].pc \notin {"begin", "end"} /\ thread[t].msg # handing
    BY <1>1, <2>1, <2>2, <2>6 DEF HandingBegun
  <2> QED
    BY <2>2, <2>3, <2>4, <2>5, <2>6 DEF HandingBegun
<1>2. CASE SubhandlerStep /\ marked' = marked
  <2>1. /\ thread'[Handler].msg = thread[Handler].msg /\ thread'[Handler].pc # "begin"
        /\ thread'[Sub].msg = thread[Sub].msg
        /\ thread'[Sub].pc = thread[Sub].pc \/ thread'[Sub].pc = "start"
        /\ handing' = handing
    BY <1>2, SubMoves DEF Becomes
  <2> QED
    BY <1>2, <2>1 DEF HandingBegun
<1>3. CASE thread' = thread /\ marked \subseteq marked' /\ handing' = handing
  BY <1>3 DEF HandingBegun
<1>4. MainStart \/ StopRunning \/ StopServer \/ StopLock \/ StopJoin => handing' = handing
  BY DEF MainStart, MainSend, MainKey, AckWant, AckKind, AckClear, AckWaited, StopRunning,
     StopServer, StopLock, StopJoin, sharedVars
<1> QED
  BY <1>1, <1>2, <1>3, <1>4, ConsumerMoves DEF consumerVars, sharedVars

(* A step of Main, by what it does to the wait. *)
LEMMA MainWaitMoves ==
  ASSUME MainStart \/ StopRunning \/ StopServer \/ StopLock \/ StopJoin
  PROVE  /\ thread' = thread /\ hostUp' = hostUp /\ (running' => running)
         /\ \/ main = "init" /\ main' = "sent" /\ asked' = asked \cup {HostInit}
               /\ UNCHANGED <<running, toAck, returnOnAck, ackEvent, hostInit>>
            \/ main = "sent" /\ main' = "keyed"
               /\ UNCHANGED <<running, toAck, returnOnAck, ackEvent, asked, hostInit>>
            \/ main = "keyed" /\ main' = "want" /\ toAck' = HostInit
               /\ UNCHANGED <<running, returnOnAck, ackEvent, asked, hostInit>>
            \/ main = "want" /\ main' = "clear" /\ returnOnAck' = FALSE
               /\ UNCHANGED <<running, toAck, ackEvent, asked, hostInit>>
            \/ main = "clear" /\ main' = "waiting" /\ ackEvent' = FALSE
               /\ UNCHANGED <<running, toAck, returnOnAck, asked, hostInit>>
            \/ main = "waiting" /\ main' = "up" /\ ackEvent /\ hostInit' = TRUE
               /\ UNCHANGED <<running, toAck, returnOnAck, ackEvent, asked>>
            \/ main \notin BeforeWait \cup {"waiting"} /\ main' \notin BeforeWait \cup {"waiting"}
               /\ UNCHANGED <<toAck, returnOnAck, ackEvent, asked, hostInit>>
<1> USE DEF MainGoto, sharedVars, lifeVars, BeforeWait
<1>1. CASE MainSend \/ MainKey \/ AckWant
  BY <1>1 DEF MainSend, MainKey, AckWant
<1>2. CASE AckKind \/ AckClear \/ AckWaited
  BY <1>2 DEF AckKind, AckClear, AckWaited
<1>3. CASE StopRunning \/ StopServer \/ StopLock \/ StopJoin
  BY <1>3 DEF StopRunning, StopServer, StopLock, StopJoin
<1> QED
  BY <1>1, <1>2, <1>3 DEF MainStart

LEMMA StopMarkMoves ==
  ASSUME StopMark \/ StopMarkRow
  PROVE  /\ main \notin BeforeWait \cup {"waiting"}
         /\ main' \notin BeforeWait \cup {"waiting"}
  BY DEF StopMark, StopMarkRow, MainGoto, BeforeWait

(* What a thread takes from its copy is new to it. *)
LEMMA TakenFresh ==
  ASSUME WaitInv, NEW t \in HandlerThreads, thread[t].pc = "scan", NEW e \in thread[t].todo,
         thread[t].mode = "all" \/ e.msg = toAck
  PROVE  e.msg \notin marked
<1>1. t = Sub => e.msg = BeforeHostUp
  BY DEF WaitInv, SubInv
<1> QED
  BY <1>1 DEF WaitInv, Fresh, HandlerThreads

LEMMA SentFirstStep ==
  ASSUME StoreTypeOK, FreshStart, ThreadTypeOK, WaitInv, [ConsumerNext]_allVars
  PROVE  SentFirst'
<1> USE DEF WaitInv, HandlerThreads
<1>1. ASSUME NEW t \in HandlerThreads, HandlerStep(t), seen' = seen, marked \subseteq marked'
      PROVE  SentFirst'
  <2>1. \A u \in HandlerThreads \ {t} : thread'[u] = thread[u]
    BY <1>1, HandlerMoves
  <2>2. UNCHANGED <<main, asked>>
    BY <1>1, HandlerShared
  <2>3. BeforeHostUp \in asked /\ t = Handler =>
          \/ thread'[t].msg = HostInitResponse /\ thread'[t].pc \notin {"begin", "listen"}
          \/ thread'[t].msg # HostInitResponse /\ HostInitResponse \in marked'
    <3> SUFFICES ASSUME BeforeHostUp \in asked, t = Handler
                 PROVE  \/ thread'[t].msg = HostInitResponse /\ thread'[t].pc \notin {"begin", "listen"}
                        \/ thread'[t].msg # HostInitResponse /\ HostInitResponse \in marked'
      OBVIOUS
    <3> DEFINE r == thread[t]
    <3>1. \/ r.msg = HostInitResponse /\ r.pc \notin {"begin", "listen"}
          \/ r.msg # HostInitResponse /\ HostInitResponse \in marked
      BY DEF SentFirst
    <3>2. /\ r.msg # NoMsg <=> r.pc \in Busy
          /\ r.pc \in {"row", "end"} => r.msg \in marked
      BY DEF InHand
    <3>3. r.pc = "scan" => \A e \in r.todo : r.mode = "all" \/ e.msg = toAck => e.msg \notin marked
      BY TakenFresh
    <3>4. HostInitResponse # NoMsg
      BY DistinctMessages
    <3>5. CASE r.pc = "scan"
      <4>1. thread'[t].msg = r.msg \/ \E e \in r.todo : /\ r.mode = "all" \/ e.msg = toAck
                                                        /\ thread'[t].msg = e.msg
        BY <1>1, <3>5, HandlerMoves DEF Becomes
      <4>2. r.msg = NoMsg
        BY <3>2, <3>5 DEF Busy
      <4> QED
        BY <1>1, <3>1, <3>3, <3>4, <3>5, <4>1, <4>2
    <3>6. CASE r.pc # "scan"
      <4>1. \/ thread'[t].msg = r.msg /\ thread'[t].pc \notin {"begin", "listen"}
            \/ thread'[t].msg = r.msg /\ r.pc = "begin"
            \/ thread'[t].msg = NoMsg /\ r.pc \in {"row", "end"}
        BY <1>1, <3>6, HandlerMoves DEF Becomes
      <4> HIDE DEF r
      <4> QED
        BY <1>1, <3>1, <3>2, <3>4, <4>1
    <3> QED
      BY <3>5, <3>6
  <2>4. BeforeHostUp \in asked =>
          \/ thread'[Handler].msg = HostInitResponse /\ thread'[Handler].pc \notin {"begin", "listen"}
          \/ thread'[Handler].msg # HostInitResponse /\ HostInitResponse \in marked'
    BY <1>1, <2>1, <2>3 DEF SentFirst
  <2> QED
    BY <1>1, <2>2, <2>4 DEF SentFirst
<1>2. CASE SubhandlerStep /\ seen' = seen /\ marked' = marked
  <2>1. /\ thread'[Handler].msg = thread[Handler].msg
        /\ thread'[Handler].pc \notin {"begin", "listen"}
        /\ main' = main
        /\ asked' = asked \/ (asked' = asked \cup {BeforeHostUp} /\ thread[Handler].msg = HostInitResponse)
    BY <1>2, SubMoves DEF Becomes
  <2> QED
    BY <1>2, <2>1, DistinctMessages DEF SentFirst
<1>3. CASE /\ MainStart \/ StopRunning \/ StopServer \/ StopLock \/ StopJoin
           /\ seen' = seen /\ marked' = marked
  BY <1>3, MainWaitMoves, DistinctMessages DEF SentFirst, BeforeWait
<1>4. CASE /\ StopMark \/ StopMarkRow
           /\ thread' = thread /\ asked' = asked /\ seen' = seen /\ marked \subseteq marked'
  BY <1>4, StopMarkMoves DEF SentFirst, BeforeWait
<1>5. ASSUME NEW a \in Acceptors, NEW m \in Messages, Receive(a, m), UNCHANGED consumerVars,
             seen' = seen \cup {m}, marked' = marked
      PROVE  SentFirst'
  <2>1. MaySend(m)
    BY <1>5 DEF Receive
  <2> QED
    BY <1>5, <2>1 DEF MaySend, SentFirst, consumerVars
<1>6. CASE UNCHANGED consumerVars /\ seen' = seen /\ marked' = marked
  BY <1>6 DEF consumerVars, SentFirst
<1> QED
  BY <1>1, <1>2, <1>3, <1>4, <1>5, <1>6, ConsumerMoves DEF lifeVars

LEMMA WantAfterWait ==
  ASSUME StoreTypeOK, WaitInv, [ConsumerNext]_allVars, SubWant, ~overlapped'
  PROVE  main \notin BeforeWait /\ HostInit \in marked
<1>1. ~AckPending
  BY Zenon DEF SubWant
<1>2. thread[Handler].msg = HostInitResponse
  BY DEF WaitInv, SubInv, SubWant, At
<1>3. HostInit \in asked /\ main \notin {"init", "sent"}
  BY <1>2, DistinctMessages DEF WaitInv, InHand, SentFirst, HandlerThreads
<1> QED
  BY <1>1, <1>3 DEF AckPending, BeforeWait, WaitInv, WaitHeld

LEMMA WaitHeldStep ==
  ASSUME ~overlapped', StoreTypeOK, FreshStart, ThreadTypeOK, WaitInv, [ConsumerNext]_allVars
  PROVE  WaitHeld'
<1> USE DEF WaitInv, HandlerThreads
<1>1. ASSUME NEW t \in HandlerThreads, HandlerStep(t), marked \subseteq marked'
      PROVE  WaitHeld'
  <2>1. UNCHANGED <<main, asked, hostInit>>
    BY <1>1, HandlerShared
  <2>2. \/ UNCHANGED <<toAck, ackEvent>>
        \/ thread[t].pc = "ack" /\ toAck' = NoMsg /\ ackEvent' = TRUE
    BY <1>1, HandlerShared
  <2>3. thread[t].pc = "ack" => HostInit \in marked
    <3>1. thread[Sub].pc = "ack" => HostInit \in marked
      BY DEF SubInv, WaitHeld
    <3> QED
      BY <3>1 DEF HostInitFirst
  <2> QED
    BY <1>1, <2>1, <2>2, <2>3, DistinctMessages DEF WaitHeld
<1>2. CASE SubhandlerStep /\ marked' = marked
  <2>1. /\ toAck' = toAck \/ HostInit \in marked
        /\ UNCHANGED <<main, ackEvent, hostInit>>
    <3>1. SubWant => HostInit \in marked
      BY WantAfterWait
    <3> QED
      BY <1>2, <3>1, SubMoves
  <2>2. asked' = asked \/ asked' = asked \cup {BeforeHostUp}
    BY <1>2, SubMoves
  <2> QED
    BY <1>2, <2>1, <2>2, DistinctMessages DEF WaitHeld
<1>3. CASE /\ MainStart \/ StopRunning \/ StopServer \/ StopLock \/ StopJoin
           /\ marked' = marked
  <2>1. WaitHeld
    OBVIOUS
  <2> HIDE DEF WaitInv
  <2>2. CASE main \in {"init", "sent"}
    <3>1. /\ main' \in {"sent", "keyed"} /\ UNCHANGED <<toAck, ackEvent, hostInit>>
      BY <1>3, <2>2, MainWaitMoves DEF BeforeWait
    <3> QED
      BY <1>3, <2>1, <3>1 DEF WaitHeld, BeforeWait
  <2>3. CASE main \in {"keyed", "want"}
    <3>1. /\ main' \in {"want", "clear"} /\ UNCHANGED <<ackEvent, asked, hostInit>>
          /\ toAck' = HostInit \/ (main = "want" /\ toAck' = toAck)
      BY <1>3, <2>3, MainWaitMoves DEF BeforeWait
    <3> QED
      BY <1>3, <2>1, <2>3, <3>1, DistinctMessages DEF WaitHeld, BeforeWait
  <2>4. CASE main = "clear"
    <3>1. main' = "waiting" /\ ackEvent' = FALSE /\ UNCHANGED <<toAck, asked, hostInit>>
      BY <1>3, <2>4, MainWaitMoves DEF BeforeWait
    <3> QED
      BY <1>3, <2>1, <2>4, <3>1 DEF WaitHeld, BeforeWait
  <2>5. CASE main = "waiting"
    <3>1. main' = "up" /\ ackEvent /\ UNCHANGED <<toAck, ackEvent, asked>>
      BY <1>3, <2>5, MainWaitMoves DEF BeforeWait
    <3>2. HostInit \in marked
      BY <2>1, <3>1 DEF WaitHeld
    <3> QED
      BY <1>3, <3>2 DEF WaitHeld
  <2>6. CASE main \notin BeforeWait \cup {"waiting"}
    <3>1. main' \notin BeforeWait \cup {"waiting"} /\ UNCHANGED <<toAck, ackEvent, asked, hostInit>>
      BY <1>3, <2>6, MainWaitMoves DEF BeforeWait
    <3> QED
      BY <1>3, <2>1, <2>6, <3>1 DEF WaitHeld, BeforeWait
  <2> QED
    BY <2>2, <2>3, <2>4, <2>5, <2>6 DEF BeforeWait
<1>4. CASE /\ StopMark \/ StopMarkRow
           /\ UNCHANGED <<toAck, ackEvent, asked, hostInit>> /\ marked \subseteq marked'
  BY <1>4, StopMarkMoves DEF WaitHeld, BeforeWait
<1>5. CASE UNCHANGED consumerVars /\ marked' = marked
  BY <1>5 DEF consumerVars, WaitHeld
<1> QED
  BY <1>1, <1>2, <1>3, <1>4, <1>5, ConsumerMoves DEF lifeVars, sharedVars

LEMMA HostInitFirstStep ==
  ASSUME StoreTypeOK, FreshStart, FieldTypeOK, ThreadTypeOK, WaitInv, [ConsumerNext]_allVars
  PROVE  HostInitFirst'
<1> USE DEF WaitInv, HandlerThreads
<1>1. ASSUME HandlerStep(Handler), marked \subseteq marked'
      PROVE  HostInitFirst'
  <2> DEFINE r == thread[Handler]
             s == thread'[Handler]
             Ok == /\ s.mode = "ack" /\ s.msg # NoMsg => s.msg = HostInit
                   /\ s.pc \in {"ack", "return"} => HostInit \in marked
  <2>1. /\ r.msg # NoMsg <=> r.pc \in Busy
        /\ r.pc \in {"ack", "return"} => r.mode = "ack"
        /\ r.mode = "ack" /\ r.msg # NoMsg => r.msg = HostInit
        /\ r.pc \in {"ack", "return"} => HostInit \in marked
    BY DEF InHand, HostInitFirst
  <2>2. ASSUME r.pc = "scan", r.mode = "ack", NEW e \in r.todo, e.msg = toAck
        PROVE  e.msg = HostInit
    <3>1. e.msg \in seen /\ NoMsg \notin seen
      BY StoreAssumption DEF ToWalk, StoreTypeOK
    <3>2. toAck # BeforeHostUp
      BY <2>2 DEF SubInv
    <3> QED
      BY <2>2, <3>1, <3>2 DEF FieldTypeOK
  <2>3. ASSUME r.pc \in {"start", "begin", "listen", "mark", "row", "ack", "return"}
        PROVE  Ok
    <3>1. /\ s.mode = r.mode /\ s.msg \in {r.msg, NoMsg}
          /\ s.pc \in {"ack", "return"} => r.pc = "ack"
      BY <1>1, <2>3, HandlerMoves DEF Becomes
    <3> HIDE DEF r, s, WaitInv
    <3> QED
      BY <2>1, <3>1
  <2>4. ASSUME r.pc = "end"
        PROVE  Ok
    <3>1. /\ s.mode = r.mode /\ s.msg = NoMsg
          /\ s.pc \in {"ack", "return"} => r.mode = "ack"
      BY <1>1, <2>4, HandlerMoves DEF Becomes
    <3>2. r.mode = "ack" => HostInit \in marked
      BY <2>1, <2>4 DEF Busy, InHand
    <3> HIDE DEF r, s, WaitInv
    <3> QED
      BY <3>1, <3>2
  <2>5. ASSUME r.pc \in {"top", "list"}
        PROVE  Ok
    <3>1. s.msg = NoMsg /\ s.pc \notin {"ack", "return"}
      BY <1>1, <2>1, <2>5, HandlerMoves DEF Becomes, Busy
    <3> HIDE DEF r, s, WaitInv
    <3> QED
      BY <3>1
  <2>6. ASSUME r.pc = "scan"
        PROVE  Ok
    <3>1. /\ s.pc \notin {"ack", "return"} /\ s.mode = r.mode
          /\ \/ s.msg = NoMsg
             \/ \E e \in r.todo : s.msg = e.msg /\ (r.mode = "all" \/ e.msg = toAck)
      BY <1>1, <2>1, <2>6, HandlerMoves DEF Becomes, Busy
    <3>2. r.mode \in {"all", "ack"}
      BY DEF ThreadTypeOK, ThreadState
    <3> HIDE DEF r, s, WaitInv
    <3> QED
      BY <2>2, <2>6, <3>1, <3>2
  <2>7. Ok
    <3>1. r.pc \in {"start", "begin", "listen", "mark", "row", "ack", "return", "end", "top", "list", "scan"}
      BY <1>1, HandlerMoves
    <3> QED
      BY <2>3, <2>4, <2>5, <2>6, <3>1
  <2> QED
    BY <1>1, <2>7 DEF HostInitFirst
<1>2. CASE HandlerStep(Sub) /\ marked \subseteq marked'
  <2>1. thread'[Handler] = thread[Handler]
    BY <1>2, HandlerMoves, ThreadsDistinct
  <2> QED
    BY <1>2, <2>1 DEF HostInitFirst
<1>3. CASE SubhandlerStep /\ marked' = marked
  <2>1. /\ thread'[Handler].mode = thread[Handler].mode
        /\ thread'[Handler].msg = thread[Handler].msg
        /\ thread'[Handler].pc \notin {"ack", "return"}
    BY <1>3, SubMoves DEF Becomes
  <2> QED
    BY <1>3, <2>1 DEF HostInitFirst
<1>4. CASE thread' = thread /\ marked \subseteq marked'
  BY <1>4 DEF HostInitFirst
<1> QED
  BY <1>1, <1>2, <1>3, <1>4, ConsumerMoves DEF consumerVars

LEMMA WaitsInTurnStep ==
  ASSUME ~overlapped', StoreTypeOK, FreshStart, FieldTypeOK, ThreadTypeOK, WaitInv,
         [ConsumerNext]_allVars
  PROVE  WaitsInTurn'
<1> USE DEF WaitInv, HandlerThreads
<1>1. ASSUME NEW t \in HandlerThreads, HandlerStep(t)
      PROVE  WaitsInTurn'
  <2>1. /\ main' = main /\ (toAck' = toAck \/ toAck' = NoMsg)
        /\ thread'[Handler].pc \in {"kind", "spawn", "join"}
             => thread[Handler].pc \in {"kind", "spawn", "join"}
    <3>1. t = Handler => thread'[Handler].pc \notin {"kind", "spawn", "join"}
      BY <1>1, HandlerMoves DEF Becomes
    <3>2. t # Handler => thread'[Handler] = thread[Handler]
      BY <1>1, HandlerMoves
    <3> QED
      BY <1>1, <3>1, <3>2, HandlerShared
  <2> QED
    BY <2>1, DistinctMessages DEF WaitsInTurn
<1>2. CASE SubhandlerStep
  <2>1. main' = main
    BY <1>2, SubMoves
  <2>2. CASE SubWant
    BY <2>1, <2>2, WantAfterWait DEF WaitsInTurn
  <2>3. CASE ~SubWant
    <3>1. /\ toAck' = toAck
          /\ thread'[Handler].pc \in {"kind", "spawn", "join"}
               => thread[Handler].pc \in {"kind", "spawn", "join"}
      BY <1>2, <2>3, SubMoves DEF Becomes
    <3> QED
      BY <2>1, <3>1 DEF WaitsInTurn
  <2> QED
    BY <2>2, <2>3
<1>3. CASE MainStart \/ StopRunning \/ StopServer \/ StopLock \/ StopJoin
  <2>1. /\ thread' = thread
        /\ main' \in BeforeWait => main \in BeforeWait
        /\ toAck' = toAck \/ toAck' = HostInit
    BY <1>3, MainWaitMoves DEF BeforeWait
  <2> QED
    BY <2>1, DistinctMessages DEF WaitsInTurn
<1>4. CASE StopMark \/ StopMarkRow
  BY <1>4, StopMarkMoves DEF WaitsInTurn
<1>5. CASE UNCHANGED consumerVars
  BY <1>5 DEF WaitsInTurn, consumerVars
<1> QED
  BY <1>1, <1>2, <1>3, <1>4, <1>5, ConsumerMoves

LEMMA SubInvHandler ==
  ASSUME FieldTypeOK, ThreadTypeOK, WaitInv, HandlerStep(Handler), marked \subseteq marked'
  PROVE  SubInv'
<1> DEFINE r == thread[Handler]
           s == thread'[Handler]
<1>1. Handler \in HandlerThreads /\ Sub \in HandlerThreads \ {Handler}
  BY ThreadsDistinct DEF HandlerThreads
<1>2. r.pc \notin {"off", "want", "kind", "spawn", "join"} /\ s.pc \notin {"want", "kind", "spawn", "join"}
  BY <1>1, HandlerMoves DEF Becomes
<1>3. thread[Sub].pc = "off" /\ thread'[Sub] = thread[Sub]
  BY <1>1, <1>2, HandlerMoves DEF WaitInv, SubWithinJoin
<1>4. UNCHANGED <<running, hostUp>> /\ (toAck' = toAck \/ toAck' = NoMsg)
  BY <1>1, HandlerShared
<1>5. toAck = BeforeHostUp => s.mode = "all"
  <2>1. toAck = BeforeHostUp => ~running /\ r.mode = "all"
    BY <1>2, <1>3 DEF WaitInv, SubInv
  <2> QED
    BY <1>1, <2>1, HandlerMoves DEF Becomes
<1>6. SubInv
  BY DEF WaitInv
<1>7. toAck' = BeforeHostUp => s.mode = "all" /\ ~running
  <2>1. toAck' = BeforeHostUp => toAck = BeforeHostUp
    BY <1>4, DistinctMessages
  <2>2. toAck = BeforeHostUp => ~running
    BY <1>2, <1>3, <1>6 DEF SubInv
  <2> QED
    BY <1>5, <2>1, <2>2
<1>8. /\ thread'[Sub].pc = "off" /\ thread'[Sub].msg \in {NoMsg, BeforeHostUp}
      /\ hostUp /\ running => BeforeHostUp \in marked'
  BY <1>3, <1>6 DEF SubInv
<1> HIDE DEF r
<1> QED
  BY <1>2, <1>4, <1>7, <1>8 DEF SubInv

LEMMA SubInvSub ==
  ASSUME StoreTypeOK, FieldTypeOK, ThreadTypeOK, WaitInv, HandlerStep(Sub), marked \subseteq marked'
  PROVE  SubInv'
<1> DEFINE r == thread[Sub]
           s == thread'[Sub]
<1>1. Sub \in HandlerThreads /\ Handler \in HandlerThreads \ {Sub}
  BY ThreadsDistinct DEF HandlerThreads
<1>2. r.pc # "off" /\ s.pc \notin {"want", "kind", "spawn", "join"}
  BY <1>1, HandlerMoves DEF Becomes
<1>3. thread[Handler].pc = "join" /\ thread'[Handler] = thread[Handler]
  BY <1>1, <1>2, HandlerMoves DEF WaitInv, SubWithinJoin
<1>4. /\ UNCHANGED <<running, hostUp, returnOnAck>>
      /\ toAck' = IF r.pc = "ack" THEN NoMsg ELSE toAck
  <2>1. r.pc = "ack" => toAck' = NoMsg
    <3>1. r.pc = "ack" => Acknowledge(Sub)
      BY <1>1, HandlerMoves
    <3> QED
      BY <3>1 DEF Acknowledge
  <2> QED
    BY <1>1, <2>1, HandlerShared
<1>5. /\ returnOnAck
      /\ r.msg \in {NoMsg, BeforeHostUp}
      /\ r.pc \notin {"off", "start", "top"} => r.mode = "ack"
      /\ r.pc \notin {"off", "return"} => toAck = BeforeHostUp
      /\ r.pc = "return" => toAck = NoMsg
      /\ r.pc \in {"ack", "return"} => BeforeHostUp \in marked
      /\ toAck = BeforeHostUp => thread[Handler].mode = "all"
      /\ hostUp /\ running => BeforeHostUp \in marked
  BY <1>3 DEF WaitInv, SubInv
<1>6. r.pc = "end" => BeforeHostUp \in marked
  <2>1. r.pc = "end" => r.msg \in marked /\ r.msg # NoMsg
    BY <1>1 DEF WaitInv, InHand, Busy
  <2> QED
    BY <1>5, <2>1
<1>7. BeforeHostUp # NoMsg /\ BeforeHostUp # HostInit
  BY DistinctMessages
<1>8. /\ s.msg \in {NoMsg, BeforeHostUp}
      /\ s.pc \notin {"off", "start", "top"} => s.mode = "ack"
      /\ s.pc \in {"ack", "return"} => r.pc \in {"end", "ack"}
      /\ s.pc = "return" <=> r.pc = "ack"
      /\ r.pc = "return" => s.pc = "off"
      /\ s.pc = "off" => r.pc = "return" \/ ~running
  <2>1. ASSUME r.pc = "scan"
        PROVE  /\ s.mode = "ack" /\ s.pc \in {"top", "begin"}
               /\ s.msg \in {NoMsg, BeforeHostUp}
    <3>1. /\ s.mode = r.mode /\ s.pc \in {"top", "begin"}
          /\ s.msg = r.msg \/ r.mode = "all" \/ s.msg = toAck
      BY <1>1, <2>1, HandlerMoves DEF Becomes
    <3> QED
      BY <1>5, <2>1, <3>1
  <2>2. ASSUME r.pc = "top"
        PROVE  /\ \/ s.pc = "off" /\ ~running
                  \/ s.pc = "list" /\ s.mode = "ack"
               /\ s.msg = r.msg
    <3>1. Top(Sub) /\ toAck # NoMsg
      BY <1>1, <1>5, <1>7, <2>2, HandlerMoves
    <3>2. CASE ~running /\ thread' = [thread EXCEPT ![Sub].pc = "off"]
      BY <1>1, <3>2 DEF ThreadTypeOK, ThreadState
    <3>3. CASE thread' = [thread EXCEPT ![Sub].pc = "list", ![Sub].mode = "ack"]
      BY <1>1, <3>3 DEF ThreadTypeOK, ThreadState
    <3> QED
      BY <3>1, <3>2, <3>3 DEF Top, Goto
  <2>3. ASSUME r.pc \notin {"scan", "top", "return"}
        PROVE  /\ s.mode = r.mode /\ s.pc # "off"
               /\ s.msg \in {r.msg, NoMsg}
               /\ s.pc \notin {"off", "start", "top"} => r.pc \notin {"off", "start", "top"}
               /\ s.pc \in {"ack", "return"} => r.pc \in {"end", "ack"}
               /\ (s.pc = "return") = (r.pc = "ack")
    BY <1>1, <2>3, HandlerMoves DEF Becomes
  <2>4. ASSUME r.pc = "return"
        PROVE  s.pc = "off" /\ s.msg = r.msg
    <3>1. Return(Sub)
      BY <1>1, <2>4, HandlerMoves
    <3> QED
      BY <1>1, <1>5, <3>1 DEF Return, ThreadTypeOK, ThreadState
  <2> HIDE DEF r, s
  <2> QED
    BY <1>5, <2>1, <2>2, <2>3, <2>4
<1>9. /\ thread[Handler].msg = HostInitResponse
      /\ \A e \in thread[Handler].todo : e.msg # BeforeHostUp
  BY <1>3 DEF WaitInv, SubInv
<1> HIDE DEF r, s
<1>10. /\ s.pc = "off" /\ running => BeforeHostUp \in marked
       /\ s.pc \notin {"off", "return"} => toAck' = BeforeHostUp
       /\ s.pc = "return" => toAck' = NoMsg
       /\ s.pc \in {"ack", "return"} => BeforeHostUp \in marked
       /\ toAck' = BeforeHostUp => s.pc # "off" \/ ~running
  <2>1. s.pc = "off" /\ running => BeforeHostUp \in marked
    BY <1>5, <1>8
  <2>2. s.pc \notin {"off", "return"} => toAck' = BeforeHostUp
    BY <1>2, <1>4, <1>5, <1>8
  <2>3. s.pc = "return" => toAck' = NoMsg
    BY <1>4, <1>8
  <2>4. s.pc \in {"ack", "return"} => BeforeHostUp \in marked
    BY <1>5, <1>6, <1>8
  <2>5. toAck' = BeforeHostUp => s.pc # "off" \/ ~running
    <3>1. r.pc = "return" => toAck' # BeforeHostUp
      BY <1>4, <1>5, <1>7
    <3> QED
      BY <1>8, <3>1
  <2> QED
    BY <2>1, <2>2, <2>3, <2>4, <2>5
<1>11. /\ s.pc \notin {"want", "kind", "spawn", "join"}
       /\ toAck' = BeforeHostUp => thread'[Handler].mode = "all"
       /\ thread'[Handler].pc = "join"
       /\ returnOnAck'
       /\ thread'[Handler].msg = HostInitResponse
       /\ \A e \in thread'[Handler].todo : e.msg # BeforeHostUp
       /\ hostUp' /\ running' => BeforeHostUp \in marked'
       /\ running' = running
  BY <1>2, <1>3, <1>4, <1>5, <1>7, <1>9
<1> QED
  BY <1>8, <1>10, <1>11 DEF SubInv, s

LEMMA SubInvSubhandler ==
  ASSUME StoreTypeOK, FieldTypeOK, ThreadTypeOK, WaitInv, SubhandlerStep, marked' = marked
  PROVE  SubInv'
<1> DEFINE r == thread[Handler]
           s == thread[Sub]
<1>1. s.pc # "off" => r.pc = "join"
  BY DEF WaitInv, SubWithinJoin
<1>2. SubInv
  BY DEF WaitInv
<1>3. CASE SendBeforeHostUp
  <2>1. \A e \in r.todo : e.msg # BeforeHostUp
    BY <1>3 DEF WaitInv, SendBeforeHostUp, At, SentFirst, ToWalk, HandlerThreads
  <2>2. /\ r.pc = "listen" /\ r.msg = HostInitResponse
        /\ Becomes(Handler, "want", r.mode, r.todo, r.msg) /\ thread'[Sub] = s
        /\ UNCHANGED <<running, toAck, returnOnAck, hostUp>>
    BY <1>3, SubMoves DEF SendBeforeHostUp, SubWant, SubKind, SubSpawn, SubJoined, At
  <2> HIDE DEF r, s
  <2> QED
    BY <1>1, <1>2, <2>1, <2>2 DEF SubInv, Becomes, r, s
<1>4. CASE SubWant
  <2>1. /\ r.pc = "want" /\ Becomes(Handler, "kind", r.mode, r.todo, r.msg) /\ thread'[Sub] = s
        /\ toAck' = BeforeHostUp /\ UNCHANGED <<running, returnOnAck, hostUp>>
    BY <1>4, SubMoves DEF SendBeforeHostUp, SubWant, SubKind, SubSpawn, SubJoined, At
  <2>2. r.mode = "all"
    <3>1. r.msg = HostInitResponse
      BY <1>2, <2>1 DEF SubInv
    <3>2. r.mode = "ack" /\ r.msg # NoMsg => r.msg = HostInit
      BY DEF WaitInv, HostInitFirst
    <3>3. r.mode \in {"all", "ack"}
      BY DEF ThreadTypeOK, ThreadState, HandlerThreads
    <3> QED
      BY <3>1, <3>2, <3>3, DistinctMessages
  <2>3. s.pc = "off"
    BY <1>1, <2>1
  <2> QED
    BY <1>2, <2>1, <2>2, <2>3 DEF SubInv, Becomes
<1>5. CASE SubKind
  <2>1. /\ r.pc = "kind" /\ Becomes(Handler, "spawn", r.mode, r.todo, r.msg) /\ thread'[Sub] = s
        /\ returnOnAck' = TRUE /\ UNCHANGED <<running, toAck, hostUp>>
    BY <1>5, SubMoves DEF SendBeforeHostUp, SubWant, SubKind, SubSpawn, SubJoined, At
  <2> QED
    BY <1>1, <1>2, <2>1 DEF SubInv, Becomes
<1>6. CASE SubSpawn
  <2>1. /\ r.pc = "spawn" /\ Becomes(Handler, "join", r.mode, r.todo, r.msg)
        /\ Becomes(Sub, "start", s.mode, s.todo, s.msg)
        /\ UNCHANGED <<running, toAck, returnOnAck, hostUp>>
    BY <1>6, SubMoves DEF SendBeforeHostUp, SubWant, SubKind, SubSpawn, SubJoined, At
  <2> QED
    BY <1>1, <1>2, <2>1 DEF SubInv, Becomes
<1>7. CASE SubJoined
  <2>1. /\ r.pc = "join" /\ s.pc = "off"
        /\ Becomes(Handler, "mark", r.mode, r.todo, r.msg) /\ thread'[Sub] = s
        /\ UNCHANGED <<running, toAck, returnOnAck>>
    BY <1>7, SubMoves DEF SendBeforeHostUp, SubWant, SubKind, SubSpawn, SubJoined, At
  <2> QED
    BY <1>1, <1>2, <2>1 DEF SubInv, Becomes
<1> QED
  BY <1>3, <1>4, <1>5, <1>6, <1>7 DEF SubhandlerStep

LEMMA SubInvStep ==
  ASSUME StoreTypeOK, FreshStart, FieldTypeOK, ThreadTypeOK, WaitInv, [ConsumerNext]_allVars
  PROVE  SubInv'
<1>1. ASSUME NEW t \in HandlerThreads, HandlerStep(t), marked \subseteq marked'
      PROVE  SubInv'
  BY <1>1, SubInvHandler, SubInvSub DEF HandlerThreads
<1>2. CASE SubhandlerStep /\ marked' = marked
  BY <1>2, SubInvSubhandler
<1>3. CASE /\ MainStart \/ StopRunning \/ StopServer \/ StopLock \/ StopJoin
           /\ thread' = thread /\ marked' = marked
  <2>1. main \in BeforeWait =>
          thread[Handler].pc \notin {"kind", "spawn", "join"} /\ toAck # BeforeHostUp
    BY DEF WaitInv, WaitsInTurn
  <2>2. main \in BeforeWait => thread[Sub].pc = "off"
    BY <2>1 DEF WaitInv, SubWithinJoin
  <2>3. /\ hostUp' = hostUp /\ (running' => running)
        /\ \/ UNCHANGED <<toAck, returnOnAck>>
           \/ main \in BeforeWait /\ toAck' \in {toAck, HostInit}
    BY <1>3, MainWaitMoves DEF BeforeWait
  <2>4. SubInv
    BY DEF WaitInv
  <2>5. CASE UNCHANGED <<toAck, returnOnAck>>
    BY <1>3, <2>3, <2>4, <2>5 DEF SubInv
  <2>6. CASE main \in BeforeWait /\ toAck' \in {toAck, HostInit}
    <3>1. toAck' # BeforeHostUp
      BY <2>1, <2>6, DistinctMessages
    <3>2. /\ thread[Handler].pc \notin {"kind", "spawn", "join"}
          /\ thread[Sub].pc = "off"
      BY <2>1, <2>2, <2>6
    <3>3. /\ thread[Handler].pc = "want" =>
               /\ thread[Handler].msg = HostInitResponse
               /\ \A e \in thread[Handler].todo : e.msg # BeforeHostUp
          /\ thread[Sub].msg \in {NoMsg, BeforeHostUp}
          /\ hostUp' /\ running' => BeforeHostUp \in marked'
      BY <1>3, <2>3, <2>4 DEF SubInv
    <3> QED
      BY <1>3, <3>1, <3>2, <3>3 DEF SubInv
  <2> QED
    BY <2>3, <2>5, <2>6
<1>4. CASE UNCHANGED <<thread, sharedVars, hostUp>> /\ marked \subseteq marked'
  <2>1. SubInv
    BY DEF WaitInv
  <2>2. UNCHANGED <<toAck, returnOnAck>> /\ running' = running /\ hostUp' = hostUp
    BY <1>4 DEF sharedVars
  <2> QED
    BY <1>4, <2>1, <2>2 DEF SubInv
<1> QED
  BY <1>1, <1>2, <1>3, <1>4, ConsumerMoves DEF WaitInv, consumerVars, sharedVars, lifeVars

LEMMA WaitStep ==
  ASSUME ~overlapped', StoreTypeOK, FreshStart, FieldTypeOK, ThreadTypeOK, WaitInv,
         [ConsumerNext]_allVars
  PROVE  WaitInv'
<1>1. ListExact'
  BY SeenMoves DEF WaitInv
<1>2. InHand' /\ ToWalk' /\ Fresh' /\ HandingBegun'
  BY InHandStep, ToWalkStep, FreshStep, HandingBegunStep
<1>3. SentFirst' /\ WaitHeld' /\ HostInitFirst' /\ WaitsInTurn' /\ SubInv'
  BY SentFirstStep, WaitHeldStep, HostInitFirstStep, WaitsInTurnStep, SubInvStep
<1>4. SubWithinJoin'
  BY SubWithinJoinStep DEF WaitInv
<1> QED
  BY <1>1, <1>2, <1>3, <1>4 DEF WaitInv

(* The inductive invariant of the waits: until a wait_subhandler is called  *)
(* during wait_acknowledge, the list, the copies of it, what the threads    *)
(* have in hand and who waits for what agree in every reachable state,      *)
(* however early Scalr answers and whatever raises.                         *)
THEOREM WaitInvariant ==
  ConsumerSafety =>
    [](/\ ~overlapped => WaitInv
       /\ StoreTypeOK /\ FreshStart /\ FieldTypeOK /\ HistoryTypeOK /\ ThreadTypeOK)
<1>1. ConsumerInit => WaitInv
  BY InitWaitInv
<1>2. /\ StoreTypeOK /\ FreshStart /\ FieldTypeOK /\ ThreadTypeOK /\ (~overlapped => WaitInv)
      /\ [ConsumerNext]_allVars
      => (~overlapped => WaitInv)'
  <2> SUFFICES ASSUME StoreTypeOK, FreshStart, FieldTypeOK, ThreadTypeOK,
                      ~overlapped => WaitInv, [ConsumerNext]_allVars, ~overlapped'
               PROVE  WaitInv'
    OBVIOUS
  <2>1. HistoryGrown
    BY HistoryGrownStep
  <2>2. WaitInv
    BY <2>1, Zenon DEF HistoryGrown
  <2> QED
    BY <2>2, WaitStep
<1>3. StoreInv => StoreTypeOK /\ FreshStart
  BY DEF StoreInv
<1>4. ConsumerTypeOK => FieldTypeOK /\ HistoryTypeOK /\ ThreadTypeOK
  BY Zenon DEF ConsumerTypeOK, FieldTypeOK, HistoryTypeOK, ThreadTypeOK
<1> QED
  BY <1>1, <1>2, <1>3, <1>4, ConsumerUsesStore, StoreInvariant, ConsumerTypeCorrect, PTL
     DEF ConsumerSafety, UsesStore

(* Nobody goes on too early: host_init fires after this server's HostInit   *)
(* came back and was handled, and HostUp is sent after its BeforeHostUp     *)
(* was, unless the consumer is being shut down or the two waits overlapped. *)
THEOREM AckedBeforeProceedingHolds == ConsumerSafety => []AckedBeforeProceeding
<1>1. (~overlapped => WaitInv) => AckedBeforeProceeding
  BY DEF WaitInv, WaitHeld, SubInv, AckedBeforeProceeding
<1> QED
  BY <1>1, WaitInvariant, PTL

(* No message is handled twice, by one thread or by two, before the two     *)
(* waits overlap: the copies of the list that the threads walk do not go    *)
(* stale.                                                                   *)
THEOREM NoDoubleHandlingHolds == ConsumerSafety => NoDoubleHandling
<1>1. (~overlapped => WaitInv) =>
        (~overlapped =>
           \A t \in HandlerThreads : Begin(t) =>
             /\ thread[t].msg \in CachedIds
             /\ \A u \in HandlerThreads \ {t} : thread[u].msg # thread[t].msg)
  <2> SUFFICES ASSUME WaitInv, NEW t \in HandlerThreads, Begin(t)
               PROVE  /\ thread[t].msg \in CachedIds
                      /\ \A u \in HandlerThreads \ {t} : thread[u].msg # thread[t].msg
    OBVIOUS
  <2>1. thread[t].msg # NoMsg /\ thread[t].msg \in seen \ marked
    BY DEF WaitInv, InHand, Busy, Begin, At
  <2>2. thread[t].msg \in CachedIds
    BY <2>1 DEF WaitInv, ListExact
  <2> QED
    BY <2>1, <2>2, HandsDiffer DEF WaitInv
<1> QED
  BY <1>1, WaitInvariant, PTL DEF NoDoubleHandling

-----------------------------------------------------------------------------
(* The acknowledge is not missed.                                           *)

(* HostInit in hand is the acknowledge that it is, or it was missed. *)
TakenToAck ==
  ~missed /\ thread[Handler].msg = HostInit /\ thread[Handler].pc # "begin"
    => thread[Handler].mode = "ack"

LEMMA MishapStays ==
  ASSUME HistoryTypeOK, [ConsumerNext]_allVars
  PROVE  /\ Mishap => Mishap'
         /\ \A t \in HandlerThreads : MarkTableRaises(t) => Mishap'
<1>1. raised \in Nat
  <2>1. raised \in 0 .. MaxRaises
    BY Zenon DEF HistoryTypeOK
  <2> QED
    BY <2>1, ConsumerAssumption
<1>2. raised' = raised \/ raised' = raised + 1
  <2>1. HistoryGrown
    BY HistoryGrownStep
  <2> QED
    BY <2>1, Zenon DEF HistoryGrown
<1>3. raised > 0 => raised' > 0
  BY <1>1, <1>2
<1>4. \A t \in HandlerThreads : MarkTableRaises(t) => raised' = raised + 1
  BY Zenon DEF MarkTableRaises
<1>5. \A t \in HandlerThreads : MarkTableRaises(t) => raised' > 0
  BY <1>1, <1>4
<1>6. (missed => missed') /\ (overlapped => overlapped')
  <2>1. HistoryGrown
    BY HistoryGrownStep
  <2> QED
    BY <2>1, Zenon DEF HistoryGrown
<1> QED
  BY <1>3, <1>5, <1>6, Zenon DEF Mishap

LEMMA TakenToAckStep ==
  ASSUME StoreTypeOK, FreshStart, FieldTypeOK, ThreadTypeOK, WaitInv, TakenToAck,
         [ConsumerNext]_allVars
  PROVE  TakenToAck'
<1> USE DEF WaitInv, HandlerThreads
<1>1. missed => missed'
  <2>1. HistoryGrown
    BY HistoryGrownStep
  <2> QED
    BY <2>1, Zenon DEF HistoryGrown
<1>2. CASE HandlerStep(Handler)
  <2> DEFINE r == thread[Handler]
             s == thread'[Handler]
  <2>1. r.mode \in {"all", "ack"} /\ (r.msg # NoMsg <=> r.pc \in Busy) /\ HostInit # NoMsg
    BY DistinctMessages DEF InHand, ThreadTypeOK, ThreadState
  <2>2. CASE r.pc = "begin"
    <3>1. Begin(Handler) /\ s.mode = r.mode /\ s.msg = r.msg
      BY <1>2, <2>2, HandlerMoves DEF Becomes
    <3> QED
      BY <2>1, <3>1 DEF TakenToAck, Begin
  <2>3. CASE r.pc # "begin"
    <3>1. \/ s.mode = r.mode /\ s.msg \in {r.msg, NoMsg}
          \/ s.pc = "begin"
          \/ s.msg = r.msg /\ r.pc = "top"
      BY <1>2, <2>3, HandlerMoves DEF Becomes
    <3> HIDE DEF r, s, WaitInv
    <3> QED
      BY <1>1, <2>1, <2>3, <3>1 DEF TakenToAck, Busy, r, s
  <2> QED
    BY <2>2, <2>3
<1>3. CASE HandlerStep(Sub)
  <2>1. thread'[Handler] = thread[Handler]
    BY <1>3, HandlerMoves, ThreadsDistinct
  <2> QED
    BY <1>1, <2>1 DEF TakenToAck
<1>4. CASE SubhandlerStep
  <2>1. /\ thread'[Handler].mode = thread[Handler].mode
        /\ thread'[Handler].msg = thread[Handler].msg
        /\ thread[Handler].pc # "begin"
    BY <1>4, SubMoves DEF Becomes
  <2> QED
    BY <1>1, <2>1 DEF TakenToAck
<1>5. CASE thread' = thread
  BY <1>1, <1>5 DEF TakenToAck
<1> QED
  BY <1>2, <1>3, <1>4, <1>5, ConsumerMoves DEF consumerVars

(* A handler that has marked HostInit goes on to set the event.             *)
LEMMA AckComingHandler ==
  ASSUME HistoryTypeOK, ThreadTypeOK, WaitInv, TakenToAck, AckComing, ~Mishap, ~Mishap',
         [ConsumerNext]_allVars, HandlerStep(Handler),
         marked' = IF thread[Handler].pc = "mark" THEN marked \cup {thread[Handler].msg} ELSE marked
  PROVE  AckComing'
<1> DEFINE r == thread[Handler]
           s == thread'[Handler]
<1>1. Handler \in HandlerThreads
  BY DEF HandlerThreads
<1>2. \/ ackEvent' = ackEvent /\ r.pc # "ack"
      \/ ackEvent' = TRUE
  <2>1. r.pc = "ack" => Acknowledge(Handler)
    BY <1>1, HandlerMoves
  <2> QED
    BY <1>1, <2>1, HandlerShared DEF Acknowledge
<1>3. CASE ackEvent' = TRUE
  BY <1>3 DEF AckComing
<1>4. CASE ackEvent' = ackEvent /\ r.pc # "ack"
  <2>1. r.pc = "mark" => s.pc = "row" /\ s.msg = r.msg
    BY <1>1, HandlerMoves DEF Becomes
  <2>2. r.pc = "listen" => s.pc = "mark" /\ s.msg = r.msg
    BY <1>1, HandlerMoves DEF Becomes
  <2>3. r.pc = "row" => s.pc = "end" /\ s.msg = r.msg
    <3>1. ~MarkTableRaises(Handler)
      BY <1>1, MishapStays
    <3> QED
      BY <1>1, <3>1, HandlerMoves DEF Becomes
  <2>4. r.pc = "end" /\ r.msg = HostInit => s.pc = "ack"
    <3>1. r.pc = "end" /\ r.msg = HostInit => r.mode = "ack"
      BY DEF TakenToAck, Mishap
    <3> QED
      BY <1>1, <3>1, HandlerMoves DEF Becomes
  <2>5. HostInit \in marked' => HostInit \in marked \/ (r.pc = "mark" /\ r.msg = HostInit)
    OBVIOUS
  <2>6. HostInit \in marked =>
          ackEvent \/ (r.msg = HostInit /\ r.pc \in {"listen", "mark", "row", "end"})
    BY <1>4 DEF AckComing
  <2> HIDE DEF r, s
  <2>7. HostInit \in marked' =>
          \/ ackEvent
          \/ s.msg = HostInit /\ s.pc \in {"listen", "mark", "row", "end"}
          \/ s.pc = "ack"
    BY <2>1, <2>2, <2>3, <2>4, <2>5, <2>6
  <2> QED
    BY <1>4, <2>7 DEF AckComing, s
<1> QED
  BY <1>2, <1>3, <1>4

LEMMA AckComingStep ==
  ASSUME ~Mishap', StoreTypeOK, FreshStart, FieldTypeOK, HistoryTypeOK, ThreadTypeOK, WaitInv, TakenToAck,
         AckComing, [ConsumerNext]_allVars
  PROVE  AckComing'
<1>1. ~Mishap
  BY MishapStays
<1>2. ASSUME HandlerStep(Sub),
             marked' = IF thread[Sub].pc = "mark" THEN marked \cup {thread[Sub].msg} ELSE marked
      PROVE  AckComing'
  <2>1. Sub \in HandlerThreads /\ Handler \in HandlerThreads \ {Sub}
    BY ThreadsDistinct DEF HandlerThreads
  <2>2. /\ thread'[Handler] = thread[Handler]
        /\ ackEvent' = ackEvent \/ ackEvent' = TRUE
    BY <1>2, <2>1, HandlerMoves, HandlerShared
  <2>3. thread[Sub].msg # HostInit
    BY DistinctMessages DEF WaitInv, SubInv
  <2>4. HostInit \in marked' => HostInit \in marked
    BY <1>2, <2>3
  <2> QED
    BY <1>1, <2>2, <2>4 DEF AckComing
<1>3. CASE SubhandlerStep /\ marked' = marked
  <2>1. /\ ackEvent' = ackEvent
        /\ thread[Handler].pc \notin {"mark", "row", "end", "ack"}
        /\ thread[Handler].pc = "listen" => thread[Handler].msg = HostInitResponse
    BY <1>3, SubMoves
  <2> QED
    BY <1>1, <1>3, <2>1, DistinctMessages DEF AckComing
<1>4. CASE /\ MainStart \/ StopRunning \/ StopServer \/ StopLock \/ StopJoin
           /\ thread' = thread /\ marked' = marked
  <2>1. ackEvent' = ackEvent \/ AckClear
    BY <1>4 DEF MainStart, MainSend, MainKey, AckWant, AckKind, AckWaited, StopRunning,
       StopServer, StopLock, StopJoin, sharedVars
  <2>2. AckClear => ~ackEvent
    BY DEF AckClear, Mishap
  <2> QED
    BY <1>1, <1>4, <2>1, <2>2 DEF AckComing
<1>5. CASE /\ StopMark \/ StopMarkRow
           /\ thread' = thread /\ ackEvent' = ackEvent
           /\ marked' = marked \/ (handing # NoMsg /\ marked' = marked \cup {handing})
  <2>1. CASE HostInit \in marked
    BY <1>1, <1>5, <2>1 DEF AckComing
  <2>2. CASE HostInit \notin marked /\ HostInit \in marked'
    <3>1. handing = HostInit
      BY <1>5, <2>2
    <3>2. thread[Handler].msg = HostInit /\ thread[Handler].pc # "begin"
      BY <2>2, <3>1, DistinctMessages DEF WaitInv, HandingBegun, SubInv, HandlerThreads
    <3>3. thread[Handler].pc \in {"listen", "mark", "row", "end"}
      BY <3>2, DistinctMessages DEF WaitInv, InHand, SubInv, Busy, HandlerThreads
    <3> QED
      BY <1>5, <3>2, <3>3 DEF AckComing
  <2> QED
    BY <2>1, <2>2 DEF AckComing
<1>6. CASE UNCHANGED consumerVars /\ marked' = marked
  BY <1>1, <1>6 DEF AckComing, consumerVars
<1> QED
  BY <1>1, <1>2, <1>3, <1>4, <1>5, <1>6, AckComingHandler, ConsumerMoves
     DEF WaitInv, HandlerThreads, sharedVars

(* An acknowledge is lost in no other way than those that Mishap names.     *)
THEOREM AckComingHolds == ConsumerSafety => []AckComing
<1>1. ConsumerInit => TakenToAck /\ AckComing
  BY DistinctMessages
     DEF ConsumerInit, StoreInit, TakenToAck, AckComing, HandlerThreads
<1>2. /\ StoreTypeOK /\ FreshStart /\ FieldTypeOK /\ HistoryTypeOK /\ ThreadTypeOK /\ (~overlapped => WaitInv)
      /\ (~Mishap => TakenToAck /\ AckComing) /\ [ConsumerNext]_allVars
      => (~Mishap => TakenToAck /\ AckComing)'
  <2> SUFFICES ASSUME StoreTypeOK, FreshStart, FieldTypeOK, HistoryTypeOK, ThreadTypeOK, ~overlapped => WaitInv,
                      ~Mishap => TakenToAck /\ AckComing, [ConsumerNext]_allVars, ~Mishap'
               PROVE  TakenToAck' /\ AckComing'
    OBVIOUS
  <2>1. ~Mishap
    BY MishapStays
  <2>2. WaitInv
    BY <2>1 DEF Mishap
  <2> QED
    BY <2>1, <2>2, TakenToAckStep, AckComingStep
<1>3. (~Mishap => TakenToAck /\ AckComing) => AckComing
  BY DEF AckComing
<1> QED
  BY <1>1, <1>2, <1>3, WaitInvariant, PTL DEF ConsumerSafety
=============================================================================
