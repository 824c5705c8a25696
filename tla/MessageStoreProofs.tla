------------------------- MODULE MessageStoreProofs -------------------------
(* Theorems about MessageStore, for every set of messages and threads and   *)
(* every tail length.                                                       *)
EXTENDS MessageStore, FiniteSetTheorems, TLAPS

(* Every step keeps the types and the bound on row ids. *)
LEMMA TypeStep ==
  ASSUME StoreTypeOK, [StoreNext]_storeVars
  PROVE  StoreTypeOK'
<1> USE StoreAssumption DEF StoreTypeOK
<1>1. CASE LoadSelect
  BY <1>1 DEF LoadSelect, tableVars, boundVars, history, UnhandledRows,
                Row, InRow, OutRow
<1>2. CASE LoadFinish
  BY <1>2 DEF LoadFinish, tableVars, boundVars, history, Entry, InRow, NotLoading
<1>3. CASE LoadRaises
  BY <1>3 DEF LoadRaises, tableVars, boundVars, history, NotLoading
<1>4. ASSUME NEW a \in Acceptors, NEW m \in Messages, PutCache(a, m)
      PROVE  StoreTypeOK'
  BY <1>4 DEF PutCache, history, Entry
<1>5. ASSUME NEW a \in Acceptors, PutRow(a)
      PROVE  StoreTypeOK'
  <2>1. table' \subseteq Row
    <3>1. NewRow(acceptor[a].msg, "in") \in InRow
      BY <1>5 DEF PutRow, NewRow, InRow
    <3> QED
      BY <1>5, <3>1 DEF PutRow, Row
  <2>2. \A r \in table' : r.id \in 1..clock'
    BY <1>5 DEF PutRow, NewRow
  <2> QED
    BY <1>5, <2>1, <2>2 DEF PutRow, listVars, boundVars, history
<1>6. ASSUME NEW a \in Acceptors, PutRowRaises(a)
      PROVE  StoreTypeOK'
  BY <1>6 DEF PutRowRaises, tableVars, listVars, boundVars, IdleAcceptor
<1>7. ASSUME NEW a \in Acceptors, ReplyRaises(a)
      PROVE  StoreTypeOK'
  BY <1>7 DEF ReplyRaises, tableVars, listVars, boundVars, history, IdleAcceptor
<1>8. ASSUME NEW a \in Acceptors, Accept(a)
      PROVE  StoreTypeOK'
  BY <1>8 DEF Accept, tableVars, listVars, boundVars, IdleAcceptor
<1>9. ASSUME NEW c \in Clients, NEW m \in Messages, MarkCache(c, m)
      PROVE  StoreTypeOK'
  BY <1>9 DEF MarkCache, tableVars, boundVars, Without
<1>10. ASSUME NEW c \in Clients, MarkRow(c)
       PROVE  StoreTypeOK'
  <2>1. table' \subseteq Row
    <3>1. ASSUME NEW r \in Row
          PROVE  [r EXCEPT !.done = TRUE] \in Row
      <4>1. CASE r \in InRow
        BY <4>1 DEF Row, InRow
      <4>2. CASE r \in OutRow
        BY <4>2 DEF Row, OutRow
      <4> QED
        BY <4>1, <4>2 DEF Row
    <3> QED
      BY <1>10, <3>1 DEF MarkRow, Handled
  <2>2. \A r \in table' : r.id \in 1..clock'
    BY <1>10 DEF MarkRow, Handled, Row, InRow, OutRow
  <2> QED
    BY <1>10, <2>1, <2>2 DEF MarkRow, listVars, boundVars
<1>11. ASSUME NEW c \in Clients, MarkRowRaises(c)
       PROVE  StoreTypeOK'
  BY <1>11 DEF MarkRowRaises, tableVars, listVars, boundVars, history
<1>12. ASSUME NEW m \in Outgoing, PutOutgoing(m)
       PROVE  StoreTypeOK'
  <2>1. table' \subseteq Row
    <3>1. NewRow(m, "out") \in OutRow
      BY <1>12 DEF PutOutgoing, NewRow, OutRow
    <3> QED
      BY <1>12, <3>1 DEF PutOutgoing, Row
  <2>2. \A r \in table' : r.id \in 1..clock'
    BY <1>12 DEF PutOutgoing, NewRow
  <2> QED
    BY <1>12, <2>1, <2>2 DEF PutOutgoing, listVars, history
<1>13. ASSUME NEW m \in Outgoing, MarkDelivered(m)
       PROVE  StoreTypeOK'
  <2>1. table' \subseteq Row
    <3>1. ASSUME NEW r \in Row
          PROVE  [r EXCEPT !.done = TRUE] \in Row
      <4>1. CASE r \in InRow
        BY <4>1 DEF Row, InRow
      <4>2. CASE r \in OutRow
        BY <4>2 DEF Row, OutRow
      <4> QED
        BY <4>1, <4>2 DEF Row
    <3> QED
      BY <1>13, <3>1 DEF MarkDelivered, Delivered
  <2>2. \A r \in table' : r.id \in 1..clock'
    BY <1>13 DEF MarkDelivered, Delivered, Row, InRow, OutRow
  <2> QED
    BY <1>13, <2>1, <2>2 DEF MarkDelivered, listVars, boundVars, history
<1>14. CASE RotateSelect
  BY <1>14 DEF RotateSelect, tableVars, listVars, boundVars, history, Row, InRow, OutRow
<1>15. CASE RotateDelete
  <2>1. trimmed' \subseteq Messages
    BY <1>15 DEF RotateDelete, UnhandledRows, Row, InRow, OutRow
  <2> QED
    BY <1>15, <2>1 DEF RotateDelete, NotRotating, listVars, boundVars
<1>16. CASE Restart
  <2>1. /\ loading' \in [on : BOOLEAN, rows : SUBSET InRow]
        /\ rotator' \in [on : BOOLEAN, cut : Nat]
    BY <1>16 DEF Restart, NotLoading, NotRotating
  <2>2. /\ acceptor' \in [Acceptors -> [pc : {"idle", "cached", "inserted"},
                                         msg : Messages \cup {NoMsg}]]
        /\ \A a \in Acceptors : acceptor'[a].pc # "idle" => acceptor'[a].msg \in Messages
        /\ marking' \in [Clients -> Messages \cup {NoMsg}]
    BY <1>16 DEF Restart, IdleAcceptor
  <2>3. restarts' \in 0..MaxRestarts
    BY <1>16 DEF Restart
  <2>4. /\ loaded' \in BOOLEAN
        /\ cache' \subseteq Entry
        /\ seen' \subseteq Messages
        /\ UNCHANGED <<table, clock, puts, sent, accepted, marked, settled, trimmed, unstored>>
    BY <1>16 DEF Restart, tableVars, history
  <2> QED
    BY <2>1, <2>2, <2>3, <2>4
<1>17. CASE UNCHANGED storeVars
  BY <1>17 DEF storeVars
<1> QED
  BY <1>1, <1>2, <1>3, <1>4, <1>5, <1>6, <1>7, <1>8, <1>9, <1>10, <1>11, <1>12,
     <1>13, <1>14, <1>15, <1>16, <1>17 DEF StoreNext

LEMMA InitTypeOK ==
  ASSUME StoreInit
  PROVE  StoreTypeOK
<1>1. /\ loading \in [on : BOOLEAN, rows : SUBSET InRow]
      /\ rotator \in [on : BOOLEAN, cut : Nat]
  BY DEF StoreInit, NotLoading, NotRotating
<1>2. /\ acceptor \in [Acceptors -> [pc : {"idle", "cached", "inserted"},
                                      msg : Messages \cup {NoMsg}]]
      /\ \A a \in Acceptors : acceptor[a].pc # "idle" => acceptor[a].msg \in Messages
      /\ marking \in [Clients -> Messages \cup {NoMsg}]
  BY DEF StoreInit, IdleAcceptor
<1>3. /\ puts \in 0..MaxPuts
      /\ restarts \in 0..MaxRestarts
  BY StoreAssumption DEF StoreInit
<1>4. /\ table \subseteq Row
      /\ \A r \in table : r.id \in 1..clock
      /\ loaded \in BOOLEAN
      /\ cache \subseteq Entry
      /\ clock \in Nat
      /\ seen \subseteq Messages
      /\ sent \subseteq Outgoing
      /\ accepted \subseteq Messages
      /\ marked \subseteq Messages
      /\ settled \subseteq Messages
      /\ trimmed \subseteq Messages
      /\ unstored \subseteq Messages
  BY DEF StoreInit
<1> QED
  BY <1>1, <1>2, <1>3, <1>4 DEF StoreTypeOK

(* The type invariant holds of every reachable state. *)
THEOREM StoreTypeCorrect == StoreSafety => []StoreTypeOK
<1>1. StoreTypeOK /\ [StoreNext]_storeVars => StoreTypeOK'
  BY TypeStep
<1> QED
  BY <1>1, InitTypeOK, PTL DEF StoreSafety

-----------------------------------------------------------------------------
(* A pending message stays pending until it is handled or rotated away. *)
LEMMA PendingKept ==
  ASSUME StoreTypeOK, ListFirst, [StoreNext]_storeVars,
         NEW m \in Messages, IsPending(m), m \notin marked' \cup trimmed'
  PROVE  IsPending(m)'
<1> USE DEF IsPending, UnhandledRows
<1>1. PICK r \in table : r.dir = "in" /\ ~r.done /\ r.msg = m
  OBVIOUS
<1>2. SUFFICES r \in table'
  BY <1>1
<1>3. ASSUME NEW a \in Acceptors, PutRow(a)
      PROVE  r \in table'
  BY <1>3 DEF PutRow
<1>4. ASSUME NEW c \in Clients, MarkRow(c)
      PROVE  r \in table'
  <2>1. marking[c] \in marked /\ marked' = marked
    BY <1>4 DEF MarkRow, ListFirst
  <2> QED
    BY <1>1, <1>4, <2>1 DEF MarkRow, Handled
<1>5. ASSUME NEW o \in Outgoing, PutOutgoing(o)
      PROVE  r \in table'
  BY <1>5 DEF PutOutgoing
<1>6. ASSUME NEW o \in Outgoing, MarkDelivered(o)
      PROVE  r \in table'
  BY <1>1, <1>6 DEF MarkDelivered, Delivered
<1>7. CASE RotateDelete
  BY <1>1, <1>7 DEF RotateDelete
<1>8. CASE table' = table
  BY <1>8
<1> QED
  <2>1. CASE \/ LoadSelect \/ LoadFinish \/ LoadRaises \/ RotateSelect \/ Restart
    BY <1>8, <2>1 DEF LoadSelect, LoadFinish, LoadRaises, RotateSelect, Restart, tableVars
  <2>2. CASE \E a \in Acceptors :
               \/ \E n \in Messages : PutCache(a, n)
               \/ PutRowRaises(a) \/ ReplyRaises(a) \/ Accept(a)
    BY <1>8, <2>2 DEF PutCache, PutRowRaises, ReplyRaises, Accept, tableVars
  <2>3. CASE \E c \in Clients : (\E n \in Messages : MarkCache(c, n)) \/ MarkRowRaises(c)
    BY <1>8, <2>3 DEF MarkCache, MarkRowRaises, tableVars
  <2>4. CASE UNCHANGED storeVars
    BY <1>8, <2>4 DEF storeVars
  <2> QED
    BY <1>3, <1>4, <1>5, <1>6, <1>7, <2>1, <2>2, <2>3, <2>4 DEF StoreNext

(* A message on the list stays on it until it is handled or the process     *)
(* dies.                                                                    *)
LEMMA CachedKept ==
  ASSUME StoreTypeOK, FreshStart, LoadCovers, [StoreNext]_storeVars, loaded, loaded',
         NEW m \in Messages, m \in CachedIds, m \notin marked'
  PROVE  m \in CachedIds'
<1> USE DEF CachedIds
<1>1. CASE LoadSelect \/ LoadFinish \/ LoadRaises \/ RotateSelect \/ RotateDelete \/ Restart
  BY <1>1 DEF LoadSelect, LoadFinish, LoadRaises, RotateSelect, RotateDelete, Restart,
     listVars, LoadCovers
<1>2. ASSUME NEW a \in Acceptors, NEW n \in Messages, PutCache(a, n)
      PROVE  m \in CachedIds'
  BY <1>2 DEF PutCache
<1>3. ASSUME NEW a \in Acceptors,
             PutRow(a) \/ PutRowRaises(a) \/ ReplyRaises(a) \/ Accept(a)
      PROVE  m \in CachedIds'
  BY <1>3 DEF PutRow, PutRowRaises, ReplyRaises, Accept, listVars
<1>4. ASSUME NEW c \in Clients, NEW n \in Messages, MarkCache(c, n)
      PROVE  m \in CachedIds'
  BY <1>4 DEF MarkCache, Without
<1>5. ASSUME NEW c \in Clients, MarkRow(c) \/ MarkRowRaises(c)
      PROVE  m \in CachedIds'
  BY <1>5 DEF MarkRow, MarkRowRaises, listVars
<1>6. ASSUME NEW o \in Outgoing, PutOutgoing(o) \/ MarkDelivered(o)
      PROVE  m \in CachedIds'
  BY <1>6 DEF PutOutgoing, MarkDelivered, listVars
<1>7. CASE UNCHANGED storeVars
  BY <1>7 DEF storeVars
<1> QED
  BY <1>1, <1>2, <1>3, <1>4, <1>5, <1>6, <1>7 DEF StoreNext

(* What was handled, rotated away or left unwritten is never forgotten. *)
LEMMA HistoryGrows ==
  ASSUME [StoreNext]_storeVars
  PROVE  /\ accepted \subseteq accepted'
         /\ marked \subseteq marked'
         /\ trimmed \subseteq trimmed'
         /\ unstored \subseteq unstored'
<1> USE DEF history
<1>1. CASE LoadSelect \/ LoadFinish \/ LoadRaises \/ RotateSelect \/ RotateDelete \/ Restart
  BY <1>1 DEF LoadSelect, LoadFinish, LoadRaises, RotateSelect, RotateDelete, Restart
<1>2. CASE \E a \in Acceptors :
             \/ \E n \in Messages : PutCache(a, n)
             \/ PutRow(a) \/ PutRowRaises(a) \/ ReplyRaises(a) \/ Accept(a)
  BY <1>2 DEF PutCache, PutRow, PutRowRaises, ReplyRaises, Accept
<1>3. CASE \E c \in Clients :
             \/ \E n \in Messages : MarkCache(c, n)
             \/ MarkRow(c) \/ MarkRowRaises(c)
  BY <1>3 DEF MarkCache, MarkRow, MarkRowRaises
<1>4. CASE \E o \in Outgoing : PutOutgoing(o) \/ MarkDelivered(o)
  BY <1>4 DEF PutOutgoing, MarkDelivered
<1>5. CASE UNCHANGED storeVars
  BY <1>5 DEF storeVars
<1> QED
  BY <1>1, <1>2, <1>3, <1>4, <1>5 DEF StoreNext

(* Only LoadFinish sets the list. *)
LEMMA LoadedBy ==
  ASSUME [StoreNext]_storeVars, ~loaded, loaded'
  PROVE  LoadFinish
<1> USE DEF listVars
<1>1. CASE LoadSelect \/ LoadRaises \/ RotateSelect \/ RotateDelete \/ Restart
  BY <1>1 DEF LoadSelect, LoadRaises, RotateSelect, RotateDelete, Restart
<1>2. CASE \E a \in Acceptors :
             \/ \E n \in Messages : PutCache(a, n)
             \/ PutRow(a) \/ PutRowRaises(a) \/ ReplyRaises(a) \/ Accept(a)
  BY <1>2 DEF PutCache, PutRow, PutRowRaises, ReplyRaises, Accept
<1>3. CASE \E c \in Clients :
             \/ \E n \in Messages : MarkCache(c, n)
             \/ MarkRow(c) \/ MarkRowRaises(c)
  BY <1>3 DEF MarkCache, MarkRow, MarkRowRaises
<1>4. CASE \E o \in Outgoing : PutOutgoing(o) \/ MarkDelivered(o)
  BY <1>4 DEF PutOutgoing, MarkDelivered
<1>5. CASE UNCHANGED storeVars
  BY <1>5 DEF storeVars
<1> QED
  BY <1>1, <1>2, <1>3, <1>4, <1>5 DEF StoreNext

LEMMA FreshStartStep ==
  ASSUME StoreTypeOK, FreshStart, LoadCovers, [StoreNext]_storeVars
  PROVE  FreshStart'
<1> USE DEF FreshStart, listVars
<1>1. CASE LoadSelect \/ LoadFinish \/ LoadRaises \/ RotateSelect \/ RotateDelete
  BY <1>1 DEF LoadSelect, LoadFinish, LoadRaises, RotateSelect, RotateDelete
<1>2. CASE Restart
  BY <1>2 DEF Restart, IdleAcceptor
<1>3. ASSUME NEW a \in Acceptors,
             \/ \E n \in Messages : PutCache(a, n)
             \/ PutRow(a) \/ PutRowRaises(a) \/ ReplyRaises(a) \/ Accept(a)
      PROVE  FreshStart'
  BY <1>3 DEF PutCache, PutRow, PutRowRaises, ReplyRaises, Accept, StoreTypeOK
<1>4. ASSUME NEW c \in Clients,
             \/ \E n \in Messages : MarkCache(c, n)
             \/ MarkRow(c) \/ MarkRowRaises(c)
      PROVE  FreshStart'
  BY <1>4 DEF MarkCache, MarkRow, MarkRowRaises
<1>5. CASE \E o \in Outgoing : PutOutgoing(o) \/ MarkDelivered(o)
  BY <1>5 DEF PutOutgoing, MarkDelivered
<1>6. CASE UNCHANGED storeVars
  BY <1>6 DEF storeVars
<1> QED
  BY <1>1, <1>2, <1>3, <1>4, <1>5, <1>6 DEF StoreNext

LEMMA ListFirstStep ==
  ASSUME StoreTypeOK, ListFirst, [StoreNext]_storeVars
  PROVE  ListFirst'
<1> USE DEF ListFirst
<1>1. marked \subseteq marked'
  BY HistoryGrows
<1>2. CASE LoadSelect \/ LoadFinish \/ LoadRaises \/ RotateSelect \/ RotateDelete \/ Restart
  BY <1>1, <1>2 DEF LoadSelect, LoadFinish, LoadRaises, RotateSelect, RotateDelete, Restart
<1>3. CASE \E a \in Acceptors :
             \/ \E n \in Messages : PutCache(a, n)
             \/ PutRow(a) \/ PutRowRaises(a) \/ ReplyRaises(a) \/ Accept(a)
  BY <1>1, <1>3 DEF PutCache, PutRow, PutRowRaises, ReplyRaises, Accept
<1>4. ASSUME NEW c \in Clients,
             \/ \E n \in Messages : MarkCache(c, n)
             \/ MarkRow(c) \/ MarkRowRaises(c)
      PROVE  ListFirst'
  BY <1>1, <1>4 DEF MarkCache, MarkRow, MarkRowRaises, StoreTypeOK
<1>5. CASE \E o \in Outgoing : PutOutgoing(o) \/ MarkDelivered(o)
  BY <1>1, <1>5 DEF PutOutgoing, MarkDelivered
<1>6. CASE UNCHANGED storeVars
  BY <1>6 DEF storeVars
<1> QED
  BY <1>2, <1>3, <1>4, <1>5, <1>6 DEF StoreNext

(* While the list is being loaded the unhandled rows can only become fewer. *)
LEMMA LoadCoversStep ==
  ASSUME StoreTypeOK, FreshStart, ListFirst, LoadCovers, [StoreNext]_storeVars
  PROVE  LoadCovers'
<1> SUFFICES ASSUME loading'.on
             PROVE  /\ ~loaded'
                    /\ UnhandledRows' \subseteq loading'.rows
                    /\ \A r \in loading'.rows : r.msg \in marked' \cup trimmed' \/ IsPending(r.msg)'
  BY DEF LoadCovers
<1>1. CASE LoadSelect
  <2>1. UnhandledRows' = UnhandledRows
    BY <1>1 DEF LoadSelect, tableVars, UnhandledRows
  <2> QED
    BY <1>1, <2>1 DEF LoadSelect, IsPending
<1>2. CASE loading' = loading /\ loaded' = loaded /\ ~loaded
  <2>1. UnhandledRows' \subseteq UnhandledRows
    <3>1. CASE RotateSelect \/ RotateDelete
      BY <3>1 DEF RotateSelect, RotateDelete, tableVars, UnhandledRows
    <3>2. CASE \E a \in Acceptors :
                 \/ \E n \in Messages : PutCache(a, n)
                 \/ PutRow(a) \/ PutRowRaises(a) \/ ReplyRaises(a) \/ Accept(a)
      BY <1>2, <3>2 DEF PutCache, PutRow, PutRowRaises, ReplyRaises, Accept, FreshStart
    <3>3. CASE \E c \in Clients :
                 \/ \E n \in Messages : MarkCache(c, n)
                 \/ MarkRow(c) \/ MarkRowRaises(c)
      BY <1>2, <3>3 DEF MarkCache, MarkRow, MarkRowRaises, FreshStart
    <3>4. ASSUME NEW o \in Outgoing, PutOutgoing(o)
          PROVE  UnhandledRows' \subseteq UnhandledRows
      BY <3>4 DEF PutOutgoing, NewRow, UnhandledRows
    <3>5. ASSUME NEW o \in Outgoing, MarkDelivered(o)
          PROVE  UnhandledRows' \subseteq UnhandledRows
      <4>1. ASSUME NEW q \in table
            PROVE  [q EXCEPT !.done = TRUE].done = TRUE
        BY DEF StoreTypeOK, Row, InRow, OutRow
      <4> QED
        BY <3>5, <4>1 DEF MarkDelivered, Delivered, UnhandledRows
    <3>6. CASE LoadSelect \/ LoadFinish \/ LoadRaises \/ Restart
      BY <3>6 DEF LoadSelect, LoadFinish, LoadRaises, Restart, tableVars, UnhandledRows
    <3>7. CASE UNCHANGED storeVars
      BY <3>7 DEF storeVars, UnhandledRows
    <3> QED
      BY <3>1, <3>2, <3>3, <3>4, <3>5, <3>6, <3>7 DEF StoreNext
  <2>2. ASSUME NEW r \in loading.rows, r.msg \notin marked' \cup trimmed'
        PROVE  IsPending(r.msg)'
    <3>1. r.msg \in Messages
      BY DEF StoreTypeOK, InRow
    <3>2. IsPending(r.msg)
      BY <1>2, <2>2, HistoryGrows DEF LoadCovers
    <3> QED
      BY <2>2, <3>1, <3>2, PendingKept
  <2> QED
    BY <1>2, <2>1, <2>2 DEF LoadCovers
<1>3. CASE LoadFinish \/ LoadRaises \/ Restart
  BY <1>3 DEF LoadFinish, LoadRaises, Restart, NotLoading
<1>4. \/ LoadSelect \/ LoadFinish \/ LoadRaises \/ Restart
      \/ loading' = loading /\ loaded' = loaded
  BY DEF StoreNext, storeVars, listVars, PutCache, PutRow, PutRowRaises, ReplyRaises, Accept,
     MarkCache, MarkRow, MarkRowRaises, PutOutgoing, MarkDelivered, RotateSelect, RotateDelete
<1> QED
  BY <1>1, <1>2, <1>3, <1>4 DEF LoadCovers

LEMMA PutsHeldStep ==
  ASSUME StoreInv, [StoreNext]_storeVars
  PROVE  PutsHeld'
<1> USE DEF StoreInv
<1>1. loaded \/ \A a \in Acceptors : acceptor[a].pc = "idle"
  BY DEF FreshStart
<1>2. ASSUME NEW a \in Acceptors, acceptor'[a] = acceptor[a], loaded'
      PROVE  /\ (acceptor'[a].pc # "idle" /\ acceptor'[a].msg \notin marked')
                  => acceptor'[a].msg \in CachedIds'
             /\ (acceptor'[a].pc = "inserted" /\ acceptor'[a].msg \notin marked' \cup trimmed')
                  => IsPending(acceptor[a].msg)'
  <2> SUFFICES ASSUME acceptor[a].pc # "idle"
               PROVE  /\ acceptor'[a].msg \notin marked' => acceptor'[a].msg \in CachedIds'
                      /\ (acceptor'[a].pc = "inserted" /\ acceptor'[a].msg \notin marked' \cup trimmed')
                           => IsPending(acceptor[a].msg)'
    BY <1>2
  <2>1. PICK m \in Messages : m = acceptor[a].msg /\ m = acceptor'[a].msg
    BY <1>2 DEF StoreTypeOK
  <2>2. loaded
    BY <1>1
  <2>3. m \notin marked' => m \in CachedIds'
    BY <1>2, <2>1, <2>2, HistoryGrows, CachedKept DEF PutsHeld
  <2>4. (acceptor[a].pc = "inserted" /\ m \notin marked' \cup trimmed') => IsPending(m)
    BY <2>1, HistoryGrows DEF PutsHeld
  <2>5. (acceptor[a].pc = "inserted" /\ m \notin marked' \cup trimmed') => IsPending(m)'
    BY <2>4, PendingKept
  <2>6. IsPending(acceptor[a].msg)' <=> IsPending(m)'
    BY <2>1 DEF IsPending
  <2> QED
    BY <1>2, <2>1, <2>3, <2>5, <2>6
<1>3. CASE ~loaded'
  <2>1. \A a \in Acceptors : acceptor'[a].pc = "idle"
    BY <1>3, FreshStartStep DEF FreshStart
  <2> QED
    BY <2>1 DEF PutsHeld
<1>4. CASE loaded' /\ acceptor' = acceptor
  BY <1>2, <1>4 DEF PutsHeld
<1>5. ASSUME NEW b \in Acceptors, NEW m \in Messages, PutCache(b, m), loaded'
      PROVE  PutsHeld'
  <2>1. acceptor'[b] = [pc |-> "cached", msg |-> m] /\ m \in CachedIds'
    <3>1. [at |-> clock + 1, msg |-> m] \in cache'
      BY <1>5 DEF PutCache
    <3>2. acceptor'[b] = [pc |-> "cached", msg |-> m]
      BY <1>5 DEF PutCache, StoreTypeOK
    <3> QED
      BY <3>1, <3>2 DEF CachedIds
  <2>2. \A a \in Acceptors \ {b} : acceptor'[a] = acceptor[a]
    BY <1>5 DEF PutCache, StoreTypeOK
  <2> QED
    BY <1>2, <1>5, <2>1, <2>2 DEF PutsHeld
<1>6. ASSUME NEW b \in Acceptors, PutRow(b), loaded'
      PROVE  PutsHeld'
  <2>1. PICK m \in Messages : m = acceptor[b].msg
    BY <1>6 DEF PutRow, StoreTypeOK
  <2>2. acceptor'[b].pc = "inserted" /\ acceptor'[b].msg = m /\ acceptor[b].pc = "cached"
    BY <1>6, <2>1 DEF PutRow, StoreTypeOK
  <2>3. m \notin marked' => m \in CachedIds'
    BY <1>6, <2>1, <2>2 DEF PutRow, PutsHeld, CachedIds, listVars, history
  <2>4. IsPending(m)'
    <3>1. NewRow(m, "in") \in table'
      BY <1>6, <2>1 DEF PutRow
    <3>2. NewRow(m, "in").msg = m /\ NewRow(m, "in").dir = "in" /\ ~NewRow(m, "in").done
      BY DEF NewRow
    <3> QED
      BY <3>1, <3>2 DEF IsPending, UnhandledRows
  <2>5. \A a \in Acceptors \ {b} : acceptor'[a] = acceptor[a]
    BY <1>6 DEF PutRow, StoreTypeOK
  <2>6. IsPending(acceptor[b].msg)'
    BY <2>2, <2>4 DEF IsPending
  <2> QED
    BY <1>2, <1>6, <2>2, <2>3, <2>5, <2>6 DEF PutsHeld
<1>7. ASSUME NEW b \in Acceptors, PutRowRaises(b) \/ ReplyRaises(b) \/ Accept(b), loaded'
      PROVE  PutsHeld'
  <2>1. acceptor'[b].pc = "idle"
    BY <1>7 DEF PutRowRaises, ReplyRaises, Accept, IdleAcceptor, StoreTypeOK
  <2>2. \A a \in Acceptors \ {b} : acceptor'[a] = acceptor[a]
    BY <1>7 DEF PutRowRaises, ReplyRaises, Accept, StoreTypeOK
  <2> QED
    BY <1>2, <1>7, <2>1, <2>2 DEF PutsHeld
<1>8. \/ acceptor' = acceptor \/ ~loaded'
      \/ \E b \in Acceptors :
            \/ \E m \in Messages : PutCache(b, m)
            \/ PutRow(b) \/ PutRowRaises(b) \/ ReplyRaises(b) \/ Accept(b)
  BY DEF StoreNext, storeVars, LoadSelect, LoadFinish, LoadRaises, MarkCache, MarkRow,
     MarkRowRaises, PutOutgoing, MarkDelivered, RotateSelect, RotateDelete, Restart
<1> QED
  BY <1>3, <1>4, <1>5, <1>6, <1>7, <1>8

LEMMA NoAcceptedLossStep ==
  ASSUME StoreInv, [StoreNext]_storeVars
  PROVE  NoAcceptedLoss'
<1> USE DEF StoreInv
<1> SUFFICES ASSUME NEW m \in accepted', m \notin marked' \cup trimmed'
             PROVE  IsPending(m)' /\ (loaded' => m \in CachedIds')
  BY DEF NoAcceptedLoss
<1>1. m \in Messages
  BY TypeStep DEF StoreTypeOK
<1>2. m \notin marked \cup trimmed
  BY HistoryGrows
<1>3. CASE m \in accepted
  <2>1. IsPending(m) /\ (loaded => m \in CachedIds)
    BY <1>2, <1>3 DEF NoAcceptedLoss
  <2>2. IsPending(m)'
    BY <1>1, <2>1, PendingKept
  <2>3. CASE loaded
    BY <1>1, <2>1, <2>2, <2>3, CachedKept
  <2>4. CASE ~loaded /\ loaded'
    <3>1. LoadFinish
      BY <2>4, LoadedBy
    <3>2. PICK r \in loading.rows : r.msg = m
      BY <2>1, <3>1 DEF LoadFinish, LoadCovers, IsPending
    <3>3. [at |-> r.id, msg |-> r.msg] \in cache'
      BY <3>1 DEF LoadFinish
    <3> QED
      BY <2>2, <3>2, <3>3 DEF CachedIds
  <2> QED
    BY <2>2, <2>3, <2>4 DEF StoreTypeOK
<1>4. CASE m \notin accepted
  <2>1. PICK a \in Acceptors : Accept(a)
    BY <1>4 DEF StoreNext, storeVars, history, LoadSelect, LoadFinish, LoadRaises, PutCache,
       PutRow, PutRowRaises, ReplyRaises, MarkCache, MarkRow, MarkRowRaises, PutOutgoing,
       MarkDelivered, RotateSelect, RotateDelete, Restart
  <2>2. m = acceptor[a].msg /\ acceptor[a].pc = "inserted"
    BY <1>4, <2>1 DEF Accept
  <2>3. IsPending(m) /\ m \in CachedIds
    BY <1>2, <2>2 DEF PutsHeld
  <2> QED
    BY <2>1, <2>3 DEF Accept, IsPending, UnhandledRows, CachedIds, tableVars, listVars
<1> QED
  BY <1>3, <1>4

LEMMA PendingRecordedStep ==
  ASSUME StoreInv, [StoreNext]_storeVars
  PROVE  PendingRecorded'
<1> USE DEF StoreInv
<1> SUFFICES ASSUME NEW m \in CachedIds', m \notin marked' \cup trimmed' \cup unstored'
             PROVE  \/ IsPending(m)'
                    \/ \E a \in Acceptors : acceptor'[a] = [pc |-> "cached", msg |-> m]
  BY DEF PendingRecorded
<1>1. m \in Messages
  BY TypeStep DEF StoreTypeOK, CachedIds, Entry
<1>2. m \notin marked \cup trimmed \cup unstored
  BY HistoryGrows
<1>3. CASE IsPending(m)
  BY <1>1, <1>3, PendingKept
<1>4. CASE m \in CachedIds /\ ~IsPending(m)
  <2>1. PICK a \in Acceptors : acceptor[a] = [pc |-> "cached", msg |-> m]
    BY <1>2, <1>4 DEF PendingRecorded
  <2>2. CASE acceptor'[a] = acceptor[a]
    BY <2>1, <2>2
  <2>3. CASE PutRow(a)
    <3>1. NewRow(m, "in") \in table'
      BY <2>1, <2>3 DEF PutRow
    <3>2. NewRow(m, "in").msg = m /\ NewRow(m, "in").dir = "in" /\ ~NewRow(m, "in").done
      BY DEF NewRow
    <3> QED
      BY <3>1, <3>2 DEF IsPending, UnhandledRows
  <2>4. ~PutRowRaises(a)
    BY <2>1 DEF PutRowRaises
  <2>5. CASE ~loaded'
    BY <2>5, FreshStartStep DEF FreshStart, CachedIds
  <2>6. CASE loaded' /\ ~PutRow(a) /\ ~PutRowRaises(a)
    <3>1. \A n \in Messages : ~PutCache(a, n)
      BY <2>1 DEF PutCache
    <3>2. ~ReplyRaises(a) /\ ~Accept(a)
      BY <2>1 DEF ReplyRaises, Accept
    <3>3. ASSUME NEW b \in Acceptors, b # a,
                 \/ \E n \in Messages : PutCache(b, n)
                 \/ PutRow(b) \/ PutRowRaises(b) \/ ReplyRaises(b) \/ Accept(b)
          PROVE  acceptor'[a] = acceptor[a]
      BY <3>3 DEF PutCache, PutRow, PutRowRaises, ReplyRaises, Accept, StoreTypeOK
    <3>4. \/ acceptor' = acceptor
          \/ \E b \in Acceptors :
                \/ \E n \in Messages : PutCache(b, n)
                \/ PutRow(b) \/ PutRowRaises(b) \/ ReplyRaises(b) \/ Accept(b)
      BY <2>6 DEF StoreNext, storeVars, LoadSelect, LoadFinish, LoadRaises, MarkCache, MarkRow,
         MarkRowRaises, PutOutgoing, MarkDelivered, RotateSelect, RotateDelete, Restart
    <3> QED
      BY <2>2, <2>6, <3>1, <3>2, <3>3, <3>4
  <2> QED
    BY <2>3, <2>4, <2>5, <2>6
<1>5. CASE m \notin CachedIds /\ ~IsPending(m)
  <2>1. CASE LoadFinish
    <3>1. PICK r \in loading.rows : m = r.msg
      BY <2>1 DEF LoadFinish, CachedIds
    <3>2. IsPending(m)
      BY <1>2, <2>1, <3>1 DEF LoadFinish, LoadCovers
    <3> QED
      BY <1>5, <3>2
  <2>2. ASSUME NEW a \in Acceptors, NEW n \in Messages, PutCache(a, n)
        PROVE  \E b \in Acceptors : acceptor'[b] = [pc |-> "cached", msg |-> m]
    <3>1. m = n
      BY <1>5, <2>2 DEF PutCache, CachedIds
    <3> QED
      BY <2>2, <3>1 DEF PutCache, StoreTypeOK
  <2>3. CASE cache' \subseteq cache
    BY <1>5, <2>3 DEF CachedIds
  <2>4. \/ LoadFinish
        \/ \E a \in Acceptors, n \in Messages : PutCache(a, n)
        \/ cache' \subseteq cache
    BY DEF StoreNext, storeVars, listVars, LoadSelect, LoadRaises, PutRow, PutRowRaises,
       ReplyRaises, Accept, MarkCache, Without, MarkRow, MarkRowRaises, PutOutgoing,
       MarkDelivered, RotateSelect, RotateDelete, Restart
  <2> QED
    BY <2>1, <2>2, <2>3, <2>4
<1> QED
  BY <1>3, <1>4, <1>5

(* A table with more ids has at least as many newer than any given one. *)
LEMMA NewerMonotone ==
  ASSUME NEW S, NEW T, NEW i \in Nat, NEW j \in Nat, NEW n \in Nat,
         \A r \in T : r.id \in 1..n,
         Newer(S, i) \subseteq Newer(T, j)
  PROVE  Cardinality(Newer(S, i)) \in Nat /\ Cardinality(Newer(T, j)) \in Nat
         /\ Cardinality(Newer(S, i)) <= Cardinality(Newer(T, j))
<1>1. Newer(T, j) \subseteq 1..n
  BY DEF Newer
<1>2. IsFiniteSet(Newer(T, j))
  <2>1. IsFiniteSet(1..n)
    BY FS_Interval
  <2> QED
    BY <1>1, <2>1, FS_Subset
<1>3. IsFiniteSet(Newer(S, i)) /\ Cardinality(Newer(S, i)) <= Cardinality(Newer(T, j))
  BY <1>2, FS_Subset
<1> QED
  BY <1>2, <1>3, FS_CardinalityType

(* Only the DELETE of rotate takes a row id out of the table. *)
LEMMA IdsKept ==
  ASSUME StoreTypeOK, [StoreNext]_storeVars, ~RotateDelete, NEW r \in table
  PROVE  \E q \in table' : q.id = r.id
<1>1. ASSUME NEW q \in Row
      PROVE  [q EXCEPT !.done = TRUE].id = q.id
  BY DEF Row, InRow, OutRow
<1>2. r \in Row
  BY DEF StoreTypeOK
<1>3. ASSUME NEW c \in Clients, MarkRow(c)
      PROVE  \E q \in table' : q.id = r.id
  BY <1>1, <1>2, <1>3 DEF MarkRow, Handled
<1>4. ASSUME NEW o \in Outgoing, MarkDelivered(o)
      PROVE  \E q \in table' : q.id = r.id
  BY <1>1, <1>2, <1>4 DEF MarkDelivered, Delivered
<1>5. CASE table \subseteq table'
  BY <1>5
<1>6. \/ table \subseteq table'
      \/ \E c \in Clients : MarkRow(c)
      \/ \E o \in Outgoing : MarkDelivered(o)
  BY DEF StoreNext, storeVars, tableVars, LoadSelect, LoadFinish, LoadRaises, PutCache, PutRow,
     PutRowRaises, ReplyRaises, Accept, MarkCache, MarkRowRaises, PutOutgoing, RotateSelect, Restart
<1> QED
  BY <1>3, <1>4, <1>5, <1>6

LEMMA CutBehindTailStep ==
  ASSUME StoreTypeOK, CutBehindTail, [StoreNext]_storeVars
  PROVE  CutBehindTail'
<1> SUFFICES ASSUME rotator'.on
             PROVE  Cardinality(Newer(table', rotator'.cut)) >= TailLength
  BY DEF CutBehindTail
<1>1. CASE RotateSelect
  <2>1. PICK r \in table : /\ Cardinality(Newer(table, r.id)) = TailLength
                           /\ rotator' = [on |-> TRUE, cut |-> r.id]
    BY <1>1 DEF RotateSelect
  <2> QED
    BY <1>1, <2>1, StoreAssumption DEF RotateSelect, tableVars
<1>2. CASE RotateDelete \/ Restart
  BY <1>2 DEF RotateDelete, Restart, NotRotating
<1>3. CASE rotator' = rotator /\ ~RotateDelete
  <2>1. rotator.cut \in Nat /\ clock' \in Nat /\ \A r \in table' : r.id \in 1..clock'
    BY TypeStep DEF StoreTypeOK
  <2>2. Newer(table, rotator.cut) \subseteq Newer(table', rotator.cut)
    BY <1>3, IdsKept DEF Newer
  <2>3. /\ Cardinality(Newer(table, rotator.cut)) \in Nat
        /\ Cardinality(Newer(table', rotator.cut)) \in Nat
        /\ Cardinality(Newer(table, rotator.cut)) <= Cardinality(Newer(table', rotator.cut))
    BY <2>1, <2>2, NewerMonotone
  <2> QED
    BY <1>3, <2>3, StoreAssumption DEF CutBehindTail
<1>4. RotateSelect \/ RotateDelete \/ Restart \/ rotator' = rotator
  BY DEF StoreNext, storeVars, LoadSelect, LoadFinish, LoadRaises, PutCache, PutRow,
     PutRowRaises, ReplyRaises, Accept, MarkCache, MarkRow, MarkRowRaises, PutOutgoing,
     MarkDelivered
<1> QED
  BY <1>1, <1>2, <1>3, <1>4

(* List, table and the calls in progress always agree on what is pending. *)
THEOREM StoreInvariant == StoreSafety => []StoreInv
<1>1. StoreInit => StoreInv
  <2> SUFFICES ASSUME StoreInit
               PROVE  StoreInv
    OBVIOUS
  <2>1. StoreTypeOK
    BY InitTypeOK
  <2>2. FreshStart /\ LoadCovers /\ PutsHeld /\ ListFirst
    BY DEF StoreInit, FreshStart, LoadCovers, PutsHeld, ListFirst, IdleAcceptor, NotLoading
  <2>3. CutBehindTail /\ NoAcceptedLoss /\ PendingRecorded
    BY DEF StoreInit, CutBehindTail, NotRotating, NoAcceptedLoss, PendingRecorded, CachedIds
  <2> QED
    BY <2>1, <2>2, <2>3 DEF StoreInv
<1>2. StoreInv /\ [StoreNext]_storeVars => StoreInv'
  BY TypeStep, FreshStartStep, LoadCoversStep, PutsHeldStep, ListFirstStep,
     CutBehindTailStep, NoAcceptedLossStep, PendingRecordedStep DEF StoreInv
<1> QED
  BY <1>1, <1>2, PTL DEF StoreSafety

(* A message answered with 201 Created and not handled yet has an unhandled *)
(* row, across restarts, until rotation deletes it, and is on the list once *)
(* that is loaded.                                                          *)
THEOREM NoAcceptedLossHolds == StoreSafety => []NoAcceptedLoss
<1>1. StoreInv => NoAcceptedLoss
  BY DEF StoreInv
<1> QED
  BY <1>1, StoreInvariant, PTL

(* What is on the list and was never handled is on disk as well, but for an *)
(* INSERT that is under way or raised and a row that was rotated away.      *)
THEOREM PendingRecordedHolds == StoreSafety => []PendingRecorded
<1>1. StoreInv => PendingRecorded
  BY DEF StoreInv
<1> QED
  BY <1>1, StoreInvariant, PTL

(* A row leaves the table only with TailLength newer rows left. *)
THEOREM RotationKeepsTail == StoreSafety => RotateKeepsTail
<1>1. ASSUME StoreInv, [StoreNext]_storeVars
      PROVE  KeepsTail
  <2> SUFFICES ASSUME NEW r \in table, \A q \in table' : q.id # r.id
               PROVE  Cardinality(Newer(table', r.id)) >= TailLength
    BY DEF KeepsTail
  <2>1. RotateDelete
    BY <1>1, IdsKept DEF StoreInv
  <2>2. r.id \in Nat /\ r.id <= rotator.cut /\ rotator.cut \in Nat /\ rotator.on
    BY <1>1, <2>1 DEF RotateDelete, Expired, StoreInv, StoreTypeOK, Row, InRow, OutRow
  <2>3. clock' \in Nat /\ \A q \in table' : q.id \in 1..clock'
    BY <1>1, TypeStep DEF StoreInv, StoreTypeOK
  <2>4. Newer(table, rotator.cut) \subseteq Newer(table', r.id)
    <3> SUFFICES ASSUME NEW q \in table, q.id > rotator.cut
                 PROVE  q \in table' /\ q.id > r.id
      BY DEF Newer
    <3>1. q.id \in Nat
      BY <1>1 DEF StoreInv, StoreTypeOK, Row, InRow, OutRow
    <3> QED
      BY <2>1, <2>2, <3>1 DEF RotateDelete, Expired
  <2>5. /\ Cardinality(Newer(table, rotator.cut)) \in Nat
        /\ Cardinality(Newer(table', r.id)) \in Nat
        /\ Cardinality(Newer(table, rotator.cut)) <= Cardinality(Newer(table', r.id))
    BY <2>2, <2>3, <2>4, NewerMonotone
  <2> QED
    BY <1>1, <2>2, <2>5, StoreAssumption DEF StoreInv, CutBehindTail
<1> QED
  BY <1>1, StoreInvariant, PTL DEF StoreSafety, RotateKeepsTail
=============================================================================
