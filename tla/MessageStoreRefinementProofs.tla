--------------------- MODULE MessageStoreRefinementProofs ---------------------
(* MessageStore implements Mailbox, for every set of messages and threads   *)
(* and every tail length.                                                   *)
EXTENDS MessageStoreRefinement, MessageStoreProofs

(* A load can only be read out of rows that are there: without the list no  *)
(* message is put or marked, so a pending row stays unless rotation deletes *)
(* it.                                                                      *)
LEMMA PendingWithoutList ==
  ASSUME StoreTypeOK, FreshStart, [StoreNext]_storeVars, ~loaded,
         NEW m \in Messages, IsPending(m), m \notin trimmed'
  PROVE  IsPending(m)'
<1> USE DEF IsPending, UnhandledRows
<1>1. PICK r \in table : r.dir = "in" /\ ~r.done /\ r.msg = m
  OBVIOUS
<1>2. SUFFICES r \in table'
  BY <1>1
<1>3. CASE RotateDelete
  BY <1>1, <1>3 DEF RotateDelete
<1>4. ASSUME NEW o \in Outgoing, PutOutgoing(o) \/ MarkDelivered(o)
      PROVE  r \in table'
  BY <1>1, <1>4 DEF PutOutgoing, MarkDelivered, Delivered
<1>5. CASE table' = table
  BY <1>5
<1>6. \/ table' = table \/ RotateDelete
      \/ \E o \in Outgoing : PutOutgoing(o) \/ MarkDelivered(o)
  BY DEF FreshStart, StoreNext, storeVars, tableVars, LoadSelect, LoadFinish, LoadRaises,
     PutCache, PutRow, PutRowRaises, ReplyRaises, Accept, MarkCache, MarkRow, MarkRowRaises,
     RotateSelect, Restart
<1> QED
  BY <1>3, <1>4, <1>5, <1>6

LEMMA LoadFreshStep ==
  ASSUME StoreTypeOK, FreshStart, LoadCovers, LoadFresh, [StoreNext]_storeVars
  PROVE  LoadFresh'
<1> SUFFICES ASSUME loading'.on, NEW r \in loading'.rows, r.msg \notin trimmed'
             PROVE  IsPending(r.msg)'
  BY DEF LoadFresh
<1>1. CASE LoadSelect
  BY <1>1 DEF LoadSelect, tableVars, IsPending, UnhandledRows
<1>2. CASE loading' = loading
  <2>1. r.msg \in Messages
    BY <1>2 DEF StoreTypeOK, InRow
  <2>2. ~loaded /\ IsPending(r.msg)
    BY <1>2, HistoryGrows DEF LoadCovers, LoadFresh
  <2> QED
    BY <2>1, <2>2, PendingWithoutList
<1>3. CASE LoadFinish \/ LoadRaises \/ Restart
  BY <1>3 DEF LoadFinish, LoadRaises, Restart, NotLoading
<1> QED
  BY <1>1, <1>2, <1>3 DEF StoreNext, storeVars, listVars, PutCache, PutRow, PutRowRaises,
     ReplyRaises, Accept, MarkCache, MarkRow, MarkRowRaises, PutOutgoing, MarkDelivered,
     RotateSelect, RotateDelete

(* A new unhandled row is that of a put, whose message is on the list.      *)
LEMMA NewUnhandled ==
  ASSUME StoreTypeOK, [StoreNext]_storeVars, NEW r \in UnhandledRows', r \notin UnhandledRows
  PROVE  \E a \in Acceptors : PutRow(a) /\ r.msg = acceptor[a].msg
<1> USE DEF UnhandledRows
<1>1. ASSUME NEW a \in Acceptors, PutRow(a)
      PROVE  r.msg = acceptor[a].msg
  BY <1>1 DEF PutRow, NewRow
<1>2. ASSUME NEW q \in table
      PROVE  [q EXCEPT !.done = TRUE].done
  BY DEF StoreTypeOK, Row, InRow, OutRow
<1>3. ASSUME NEW c \in Clients, MarkRow(c)
      PROVE  FALSE
  BY <1>2, <1>3 DEF MarkRow, Handled
<1>4. ASSUME NEW o \in Outgoing, PutOutgoing(o)
      PROVE  FALSE
  BY <1>4 DEF PutOutgoing, NewRow
<1>5. ASSUME NEW o \in Outgoing, MarkDelivered(o)
      PROVE  FALSE
  BY <1>2, <1>5 DEF MarkDelivered, Delivered
<1>6. ~RotateDelete /\ table' # table
  BY DEF RotateDelete
<1>7. \/ table' = table \/ RotateDelete
      \/ \E a \in Acceptors : PutRow(a)
      \/ \E c \in Clients : MarkRow(c)
      \/ \E o \in Outgoing : PutOutgoing(o) \/ MarkDelivered(o)
  BY DEF StoreNext, storeVars, tableVars, LoadSelect, LoadFinish, LoadRaises, PutCache,
     PutRowRaises, ReplyRaises, Accept, MarkCache, MarkRowRaises, RotateSelect, Restart
<1> QED
  BY <1>1, <1>3, <1>4, <1>5, <1>6, <1>7

(* What a finished load puts on the list.                                   *)
LEMMA LoadedIds ==
  ASSUME LoadFinish
  PROVE  CachedIds' = {r.msg : r \in loading.rows} /\ seen' = {r.msg : r \in loading.rows}
<1>1. ASSUME NEW r \in loading.rows
      PROVE  [at |-> r.id, msg |-> r.msg] \in cache' /\ [at |-> r.id, msg |-> r.msg].msg = r.msg
  BY DEF LoadFinish
<1>2. cache' = {[at |-> r.id, msg |-> r.msg] : r \in loading.rows}
  BY DEF LoadFinish
<1>3. {r.msg : r \in loading.rows} \subseteq CachedIds'
  BY <1>1 DEF CachedIds
<1>4. CachedIds' \subseteq {r.msg : r \in loading.rows}
  <2> SUFFICES ASSUME NEW e \in cache'
               PROVE  e.msg \in {r.msg : r \in loading.rows}
    BY DEF CachedIds
  <2>1. PICK r \in loading.rows : e = [at |-> r.id, msg |-> r.msg]
    BY <1>2
  <2> QED
    BY <2>1
<1> QED
  BY <1>3, <1>4 DEF LoadFinish

LEMMA ListedStep ==
  ASSUME StoreInv, Listed, [StoreNext]_storeVars
  PROVE  Listed'
<1> USE DEF StoreInv
<1> SUFFICES ASSUME loaded'
             PROVE  /\ \A r \in UnhandledRows' : r.msg \in CachedIds' \cup marked'
                    /\ seen' \subseteq CachedIds' \cup marked'
  BY DEF Listed
<1>1. CASE loaded
  <2>1. ASSUME NEW m \in Messages, m \in CachedIds \cup marked
        PROVE  m \in CachedIds' \cup marked'
    BY <1>1, <2>1, CachedKept, HistoryGrows
  <2>2. ASSUME NEW r \in UnhandledRows'
        PROVE  r.msg \in CachedIds' \cup marked'
    <3>1. r.msg \in Messages
      BY TypeStep DEF StoreTypeOK, UnhandledRows, Row, InRow, OutRow
    <3>2. CASE r \in UnhandledRows
      BY <1>1, <2>1, <3>1, <3>2 DEF Listed
    <3>3. CASE r \notin UnhandledRows
      <4>1. PICK a \in Acceptors : PutRow(a) /\ r.msg = acceptor[a].msg
        BY <3>3, NewUnhandled
      <4>2. r.msg \in CachedIds \cup marked
        BY <4>1 DEF PutRow, PutsHeld
      <4> QED
        BY <2>1, <3>1, <4>2
    <3> QED
      BY <3>2, <3>3
  <2>3. ASSUME NEW m \in seen'
        PROVE  m \in CachedIds' \cup marked'
    <3>1. m \in Messages
      BY TypeStep DEF StoreTypeOK
    <3>2. CASE m \in seen
      BY <1>1, <2>1, <3>1, <3>2 DEF Listed
    <3>3. ASSUME NEW a \in Acceptors, NEW n \in Messages, PutCache(a, n)
          PROVE  m \in CachedIds' \cup marked'
      <4>1. CASE m = n
        <5>1. [at |-> clock + 1, msg |-> n] \in cache' /\ [at |-> clock + 1, msg |-> n].msg = n
          BY <3>3 DEF PutCache
        <5> QED
          BY <4>1, <5>1 DEF CachedIds
      <4>2. CASE m # n
        BY <3>2, <3>3, <4>2 DEF PutCache
      <4> QED
        BY <4>1, <4>2
    <3>4. m \in seen \/ \E a \in Acceptors, n \in Messages : PutCache(a, n)
      BY <1>1 DEF StoreNext, storeVars, listVars, LoadSelect, LoadFinish, LoadRaises, PutRow,
         PutRowRaises, ReplyRaises, Accept, MarkCache, MarkRow, MarkRowRaises, PutOutgoing,
         MarkDelivered, RotateSelect, RotateDelete, Restart, LoadCovers
    <3> QED
      BY <3>2, <3>3, <3>4
  <2> QED
    BY <2>2, <2>3
<1>2. CASE ~loaded
  <2>1. LoadFinish
    BY <1>2, LoadedBy
  <2>2. UnhandledRows' = UnhandledRows /\ UnhandledRows \subseteq loading.rows
    BY <2>1 DEF LoadFinish, tableVars, UnhandledRows, LoadCovers
  <2> QED
    BY <2>1, <2>2, LoadedIds
<1> QED
  BY <1>1, <1>2 DEF StoreTypeOK

(* Outgoing messages do not touch what is pending. *)
LEMMA OutgoingUnseen ==
  ASSUME StoreTypeOK, NEW o \in Outgoing, PutOutgoing(o) \/ MarkDelivered(o)
  PROVE  UnhandledRows' = UnhandledRows
<1> USE DEF UnhandledRows
<1>1. CASE PutOutgoing(o)
  BY <1>1 DEF PutOutgoing, NewRow
<1>2. CASE MarkDelivered(o)
  <2>1. ASSUME NEW q \in table
        PROVE  [q EXCEPT !.done = TRUE].done
    BY DEF StoreTypeOK, Row, InRow, OutRow
  <2> QED
    BY <1>2, <2>1 DEF MarkDelivered, Delivered
<1> QED
  BY <1>1, <1>2

LEMMA RefinementInvariant == StoreSafety => []RefinementInv
<1>1. StoreInit => Listed /\ LoadFresh
  BY DEF StoreInit, Listed, LoadFresh, NotLoading
<1>2. StoreInv /\ Listed /\ LoadFresh /\ [StoreNext]_storeVars => Listed' /\ LoadFresh'
  BY ListedStep, LoadFreshStep DEF StoreInv
<1> QED
  BY <1>1, <1>2, StoreInvariant, PTL DEF StoreSafety, RefinementInv
(* Each step of the store is a step of the mailbox, or users of the store   *)
(* cannot tell that anything happened.                                      *)
LEMMA MailboxStep ==
  ASSUME RefinementInv, StoreTypeOK', [StoreNext]_storeVars
  PROVE  [Mail!Next]_(Mail!vars)
<1> USE DEF RefinementInv, StoreInv
<1>1. CASE LoadSelect
  <2>1. Offered' = Offered
    BY <1>1 DEF LoadSelect, Offered, UnhandledRows
  <2> QED
    BY <1>1, <2>1 DEF LoadSelect, history, Mail!vars
<1>2. CASE LoadFinish
  <2>1. Offered' = CachedIds' /\ Offered = {r.msg : r \in loading.rows}
    BY <1>2 DEF LoadFinish, Offered, LoadCovers
  <2> QED
    BY <1>2, <2>1, LoadedIds DEF LoadFinish, history, Mail!vars
<1>3. CASE LoadRaises
  <2>1. Offered = {r.msg : r \in loading.rows} /\ Offered' = {r.msg : r \in UnhandledRows}
    BY <1>3 DEF LoadRaises, NotLoading, tableVars, UnhandledRows, Offered, LoadCovers
  <2>2. Offered' \subseteq Offered
    BY <1>3, <2>1 DEF LoadRaises, LoadCovers
  <2>3. Offered \ Offered' \subseteq trimmed
    BY <1>3, <2>1 DEF LoadRaises, LoadFresh, IsPending
  <2>4. trimmed \subseteq Messages
    BY DEF StoreTypeOK
  <2>5. Mail!Drop
    BY <1>3, <2>2, <2>3, <2>4 DEF LoadRaises, history, Mail!Drop
  <2> QED
    BY <2>5 DEF Mail!Next
<1>4. ASSUME NEW a \in Acceptors, NEW m \in Messages, PutCache(a, m)
      PROVE  Mail!Deposit(m)
  <2>1. Offered = CachedIds /\ Offered' = CachedIds'
    BY <1>4 DEF PutCache, Offered
  <2>2. CachedIds' = CachedIds \cup {m}
    <3>1. [at |-> clock + 1, msg |-> m].msg = m
      OBVIOUS
    <3>2. cache' = cache \cup {[at |-> clock + 1, msg |-> m]}
      BY <1>4 DEF PutCache
    <3> QED
      BY <3>1, <3>2, Zenon DEF CachedIds
  <2> QED
    BY <1>4, <2>1, <2>2 DEF PutCache, history, Mail!Deposit
<1>5. ASSUME NEW a \in Acceptors, PutRow(a) \/ PutRowRaises(a) \/ ReplyRaises(a)
      PROVE  UNCHANGED Mail!vars
  <2>1. loaded
    BY <1>5 DEF FreshStart, PutRow, PutRowRaises, ReplyRaises
  <2>2. Offered' = Offered
    BY <1>5, <2>1 DEF PutRow, PutRowRaises, ReplyRaises, listVars, Offered, CachedIds
  <2> QED
    BY <1>5, <2>2 DEF PutRow, PutRowRaises, ReplyRaises, history, Mail!vars
<1>6. ASSUME NEW a \in Acceptors, Accept(a)
      PROVE  Mail!Promise(acceptor[a].msg) /\ acceptor[a].msg \in Messages
  <2>1. loaded /\ acceptor[a].msg \in CachedIds \cup marked
    BY <1>6 DEF FreshStart, Accept, PutsHeld
  <2>2. Offered = CachedIds /\ Offered' = Offered
    BY <1>6, <2>1 DEF Accept, listVars, Offered, CachedIds
  <2> QED
    BY <1>6, <2>1, <2>2 DEF Accept, StoreTypeOK, Mail!Promise
<1>7. ASSUME NEW c \in Clients, NEW m \in Messages, MarkCache(c, m)
      PROVE  Mail!Take(m) \/ UNCHANGED Mail!vars
  <2>1. Offered = CachedIds /\ Offered' = CachedIds'
    BY <1>7 DEF MarkCache, Offered
  <2>2. CachedIds' = CachedIds \ {m}
    BY <1>7 DEF MarkCache, Without, CachedIds
  <2>3. m \in CachedIds \cup marked
    BY <1>7 DEF MarkCache, Listed
  <2> QED
    BY <1>7, <2>1, <2>2, <2>3 DEF MarkCache, Mail!Take, Mail!vars
<1>8. ASSUME NEW c \in Clients, MarkRow(c) \/ MarkRowRaises(c)
      PROVE  UNCHANGED Mail!vars
  <2>1. loaded
    BY <1>8 DEF FreshStart, MarkRow, MarkRowRaises
  <2>2. Offered' = Offered
    BY <1>8, <2>1 DEF MarkRow, MarkRowRaises, listVars, Offered, CachedIds
  <2> QED
    BY <1>8, <2>2 DEF MarkRow, MarkRowRaises, history, Mail!vars
<1>9. ASSUME NEW o \in Outgoing, PutOutgoing(o) \/ MarkDelivered(o)
      PROVE  UNCHANGED Mail!vars
  <2>1. UnhandledRows' = UnhandledRows
    BY <1>9, OutgoingUnseen
  <2>2. Offered' = Offered
    <3>1. UNCHANGED <<loaded, loading, cache>>
      BY <1>9 DEF PutOutgoing, MarkDelivered, listVars
    <3>2. CASE loaded
      BY <3>1, <3>2 DEF Offered, CachedIds
    <3>3. CASE ~loaded
      BY <2>1, <3>1, <3>3 DEF Offered
    <3> QED
      BY <3>2, <3>3
  <2> QED
    BY <1>9, <2>2 DEF PutOutgoing, MarkDelivered, history, Mail!vars
<1>10. CASE RotateSelect
  BY <1>10 DEF RotateSelect, tableVars, listVars, history, Offered, CachedIds, UnhandledRows,
     Mail!vars
<1>11. CASE RotateDelete
  <2>1. Offered' \subseteq Offered
    BY <1>11 DEF RotateDelete, listVars, Offered, CachedIds, UnhandledRows
  <2>2. Offered \ Offered' \subseteq trimmed'
    BY <1>11 DEF RotateDelete, listVars, Offered, CachedIds, UnhandledRows
  <2>3. trimmed \subseteq trimmed' /\ trimmed' \subseteq Messages
    BY <1>11 DEF RotateDelete, StoreTypeOK
  <2>4. Mail!Drop
    BY <1>11, <2>1, <2>2, <2>3 DEF RotateDelete, Mail!Drop
  <2> QED
    BY <2>4 DEF Mail!Next
<1>12. CASE Restart
  <2>1. Offered' = {r.msg : r \in UnhandledRows}
    BY <1>12 DEF Restart, NotLoading, tableVars, Offered, UnhandledRows
  <2>2. Offered' \subseteq Offered \cup marked
    <3>1. CASE loaded
      BY <2>1, <3>1 DEF Offered, Listed
    <3>2. CASE ~loaded /\ loading.on
      BY <2>1, <3>2 DEF Offered, LoadCovers
    <3>3. CASE ~loaded /\ ~loading.on
      BY <2>1, <3>3 DEF Offered
    <3> QED
      BY <3>1, <3>2, <3>3
  <2>3. accepted \ (marked \cup trimmed) \subseteq Offered'
    BY <2>1 DEF NoAcceptedLoss, IsPending
  <2>4. Mail!Crash
    BY <1>12, <2>2, <2>3 DEF Restart, history, Mail!Crash
  <2> QED
    BY <2>4 DEF Mail!Next
<1>13. CASE UNCHANGED storeVars
  BY <1>13 DEF storeVars, Offered, CachedIds, UnhandledRows, Mail!vars
<1> QED
  BY <1>1, <1>2, <1>3, <1>4, <1>5, <1>6, <1>7, <1>8, <1>9, <1>10, <1>11, <1>12, <1>13
     DEF StoreNext, Mail!Next

(* The store, with its list, its table, the threads that use them, rotation *)
(* and restarts, is a mailbox to those who use it.                          *)
THEOREM StoreImplementsMailbox == StoreSafety => ImplementsMailbox
<1>1. StoreInit => Mail!Init
  BY DEF StoreInit, Mail!Init, Offered, NotLoading, UnhandledRows
<1>2. RefinementInv /\ StoreTypeOK' /\ [StoreNext]_storeVars => [Mail!Next]_(Mail!vars)
  BY MailboxStep
<1> QED
  BY <1>1, <1>2, RefinementInvariant, StoreTypeCorrect, PTL
     DEF StoreSafety, ImplementsMailbox, Mail!Spec
=============================================================================
