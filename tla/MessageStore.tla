---------------------------- MODULE MessageStore ----------------------------
(***************************************************************************)
(* The P2P message store of scalarizr (messaging/p2p/__init__.py): the     *)
(* sqlite table p2p_message, and the in-memory list _unhandled that is     *)
(* filled from the table on first use and is then read instead of it.      *)
(*                                                                         *)
(* Threads that share the store:                                           *)
(*   Acceptors  the HTTP threads of the message consumers (do_POST), which *)
(*              put ingoing messages;                                      *)
(*   Clients    the threads that call mark_as_handled;                     *)
(*   Senders    the threads that put outgoing messages and mark them       *)
(*              delivered;                                                 *)
(*   and the periodical executor, which rotates the table.                 *)
(* A step of the model is one section under _local_storage_lock or one     *)
(* SQL statement (the connection is in autocommit mode, and one thread     *)
(* executes the statements), so what one call does to the list and what it *)
(* does to the table are separate steps, and the process can die between.  *)
(***************************************************************************)
EXTENDS Integers, FiniteSets

CONSTANTS
  Messages,      \* ids of ingoing messages
  Replies,       \* the ingoing messages whose meta has a REQUEST_ID
  Outgoing,      \* ids of outgoing messages
  Acceptors,     \* HTTP server threads
  Clients,       \* threads that mark messages handled
  NoMsg,         \* no message
  TailLength,    \* _P2pMessageStore.TAIL_LENGTH
  MaxPuts,       \* bound: how many ingoing messages are put, redeliveries too
  MaxRestarts    \* bound: how often the process dies and is started again

ASSUME StoreAssumption ==
  /\ NoMsg \notin Messages
  /\ NoMsg \notin Outgoing
  /\ Messages \cap Outgoing = {}
  /\ Replies \subseteq Messages
  /\ TailLength \in Nat \ {0}
  /\ MaxPuts \in Nat
  /\ MaxRestarts \in Nat

VARIABLES
  table,      \* the rows of p2p_message
  loaded,     \* hasattr(self, '_unhandled')
  loading,    \* a thread is inside _get_unhandled_from_db, with these rows
  cache,      \* self._unhandled: list entries, each with its place in the list
  clock,      \* source of row ids and list places: only their order matters
  acceptor,   \* where each HTTP thread is in do_POST / put_ingoing
  marking,    \* the message each client has yet to mark in the table
  rotator,    \* rotate() between its SELECT and its DELETE
  seen,       \* messages this process has had in its list
  puts,       \* how many ingoing messages were put so far
  sent,       \* the outgoing messages put so far
  restarts,   \* how often the process died
  accepted,   \* history: messages answered with 201 Created
  marked,     \* history: messages taken off the list by mark_as_handled
  settled,    \* history: messages for which mark_as_handled has returned
  trimmed,    \* history: messages whose unhandled row was rotated away
  unstored    \* history: messages on the list whose INSERT raised

tableVars == <<table, clock>>
listVars  == <<loaded, loading, cache, seen>>
boundVars == <<puts, sent, restarts>>
history   == <<accepted, marked, settled, trimmed, unstored>>
storeVars == <<table, loaded, loading, cache, clock, acceptor, marking, rotator,
               seen, puts, sent, restarts, accepted, marked, settled, trimmed, unstored>>

InRow  == [id : Nat, msg : Messages, dir : {"in"}, done : BOOLEAN]
OutRow == [id : Nat, msg : Outgoing, dir : {"out"}, done : BOOLEAN]
Row    == InRow \cup OutRow
Entry  == [at : Nat, msg : Messages]

IdleAcceptor == [pc |-> "idle", msg |-> NoMsg]
NotLoading   == [on |-> FALSE, rows |-> {}]
NotRotating  == [on |-> FALSE, cut |-> 0]

(* Mutant: is_ingoing is not looked at. *)
UndoneRows == {r \in table : ~r.done}

(* SELECT ... WHERE is_ingoing = 1 AND in_is_handled = 0 *)
UnhandledRows == {r \in table : r.dir = "in" /\ ~r.done}

IsPending(m)  == \E r \in UnhandledRows : r.msg = m
CachedIds     == {e.msg : e \in cache}

(* The ids of the rows that are newer than row id n. *)
Newer(rows, n) == {i \in {r.id : r \in rows} : i > n}

StoreInit ==
  /\ table = {}
  /\ loaded = FALSE
  /\ loading = NotLoading
  /\ cache = {}
  /\ clock = 0
  /\ acceptor = [a \in Acceptors |-> IdleAcceptor]
  /\ marking = [c \in Clients |-> NoMsg]
  /\ rotator = NotRotating
  /\ seen = {}
  /\ puts = 0
  /\ sent = {}
  /\ restarts = 0
  /\ accepted = {}
  /\ marked = {}
  /\ settled = {}
  /\ trimmed = {}
  /\ unstored = {}

-----------------------------------------------------------------------------
(* Loading the list: the property _unhandled_messages, under the lock.      *)

(* The SELECT of _get_unhandled_from_db. *)
LoadSelect ==
  /\ ~loaded
  /\ ~loading.on
  /\ loading' = [on |-> TRUE, rows |-> UnhandledRows]
  /\ UNCHANGED <<tableVars, loaded, cache, seen, acceptor, marking, rotator,
                 boundVars, history>>

(* load(message_id) finds an ingoing row of every selected message. *)
Loadable == \A r \in loading.rows : \E q \in table : q.dir = "in" /\ q.msg = r.msg

(* The rows become the list, ORDER BY id. *)
LoadFinish ==
  /\ loading.on
  /\ Loadable
  /\ loaded' = TRUE
  /\ loading' = NotLoading
  /\ cache' = {[at |-> r.id, msg |-> r.msg] : r \in loading.rows}
  /\ seen' = {r.msg : r \in loading.rows}
  /\ UNCHANGED <<tableVars, acceptor, marking, rotator, boundVars, history>>

(* Mutant: the list is set before its messages are loaded. *)
LoadRaisesSet ==
  /\ loading.on
  /\ ~Loadable
  /\ loaded' = TRUE
  /\ loading' = NotLoading
  /\ UNCHANGED <<tableVars, cache, seen, acceptor, marking, rotator, boundVars, history>>

(* load raises MessagingError: a selected row has been rotated away.  The   *)
(* list stays unset, so that the next access selects again.                 *)
LoadRaises ==
  /\ loading.on
  /\ ~Loadable
  /\ loading' = NotLoading
  /\ UNCHANGED <<tableVars, loaded, cache, seen, acceptor, marking, rotator,
                 boundVars, history>>

-----------------------------------------------------------------------------
(* do_POST and put_ingoing, by HTTP thread a.                               *)

(* The message is decoded and appended to the list, under the lock. *)
PutCache(a, m) ==
  /\ loaded
  /\ acceptor[a].pc = "idle"
  /\ puts < MaxPuts
  /\ puts' = puts + 1
  /\ cache' = cache \cup {[at |-> clock + 1, msg |-> m]}
  /\ seen' = seen \cup {m}
  /\ clock' = clock + 1
  /\ acceptor' = [acceptor EXCEPT ![a] = [pc |-> "cached", msg |-> m]]
  /\ UNCHANGED <<table, loaded, loading, marking, rotator, sent, restarts, history>>

(* Mutant: in_is_handled = 1. *)
NewRowHandled(m, direction) == [id |-> clock + 1, msg |-> m, dir |-> direction, done |-> TRUE]

NewRow(m, direction) == [id |-> clock + 1, msg |-> m, dir |-> direction, done |-> FALSE]

(* The INSERT. *)
PutRow(a) ==
  /\ acceptor[a].pc = "cached"
  /\ table' = table \cup {NewRow(acceptor[a].msg, "in")}
  /\ clock' = clock + 1
  /\ acceptor' = [acceptor EXCEPT ![a].pc = "inserted"]
  /\ UNCHANGED <<listVars, marking, rotator, boundVars, history>>

(* The INSERT raises (a locked or full database): the answer is 500, and    *)
(* the message is on the list all the same.                                 *)
PutRowRaises(a) ==
  /\ acceptor[a].pc = "cached"
  /\ unstored' = unstored \cup {acceptor[a].msg}
  /\ acceptor' = [acceptor EXCEPT ![a] = IdleAcceptor]
  /\ UNCHANGED <<tableVars, listVars, marking, rotator, boundVars, accepted,
                 marked, settled, trimmed>>

(* A reply to an earlier request: the UPDATE of response_uuid, a column     *)
(* the table does not have, raises; the answer is 500 and the row stays.    *)
ReplyRaises(a) ==
  /\ acceptor[a].pc = "inserted"
  /\ acceptor[a].msg \in Replies
  /\ acceptor' = [acceptor EXCEPT ![a] = IdleAcceptor]
  /\ UNCHANGED <<tableVars, listVars, marking, rotator, boundVars, history>>

(* 201 Created. *)
Accept(a) ==
  /\ acceptor[a].pc = "inserted"
  /\ acceptor[a].msg \notin Replies
  /\ accepted' = accepted \cup {acceptor[a].msg}
  /\ acceptor' = [acceptor EXCEPT ![a] = IdleAcceptor]
  /\ UNCHANGED <<tableVars, listVars, marking, rotator, boundVars, marked,
                 settled, trimmed, unstored>>

-----------------------------------------------------------------------------
(* mark_as_handled(m), by client c.  A client only knows the messages that  *)
(* get_unhandled returned to it, which have been on this process' list.     *)

(* Mutant: the list is emptied. *)
WithoutAny(m) == {}

(* The entries of a message, all of them, are filtered out of the list. *)
Without(m) == {e \in cache : e.msg # m}

MarkCache(c, m) ==
  /\ loaded
  /\ marking[c] = NoMsg
  /\ m \in seen
  /\ cache' = Without(m)
  /\ marking' = [marking EXCEPT ![c] = m]
  /\ marked' = marked \cup {m}
  /\ UNCHANGED <<tableVars, loaded, loading, seen, acceptor, rotator, boundVars,
                 accepted, settled, trimmed, unstored>>

(* Mutant: message_id is not looked at. *)
HandledAny(m) == {IF r.dir = "in" THEN [r EXCEPT !.done = TRUE] ELSE r : r \in table}

(* UPDATE p2p_message SET in_is_handled = 1 WHERE message_id = m *)
Handled(m) == {IF r.dir = "in" /\ r.msg = m THEN [r EXCEPT !.done = TRUE] ELSE r : r \in table}

MarkRow(c) ==
  /\ marking[c] # NoMsg
  /\ table' = Handled(marking[c])
  /\ marking' = [marking EXCEPT ![c] = NoMsg]
  /\ settled' = settled \cup {marking[c]}
  /\ UNCHANGED <<clock, listVars, acceptor, rotator, boundVars, accepted, marked,
                 trimmed, unstored>>

(* The UPDATE raises. *)
MarkRowRaises(c) ==
  /\ marking[c] # NoMsg
  /\ marking' = [marking EXCEPT ![c] = NoMsg]
  /\ UNCHANGED <<tableVars, listVars, acceptor, rotator, boundVars, history>>

-----------------------------------------------------------------------------
(* Outgoing messages.                                                       *)

(* put_outgoing: a message id is generated once, so it is put once. *)
PutOutgoing(m) ==
  /\ m \notin sent
  /\ sent' = sent \cup {m}
  /\ table' = table \cup {NewRow(m, "out")}
  /\ clock' = clock + 1
  /\ UNCHANGED <<listVars, acceptor, marking, rotator, puts, restarts, history>>

Delivered(m) == {IF r.dir = "out" /\ r.msg = m THEN [r EXCEPT !.done = TRUE] ELSE r : r \in table}

(* mark_as_delivered *)
MarkDelivered(m) ==
  /\ table' = Delivered(m)
  /\ UNCHANGED <<clock, listVars, acceptor, marking, rotator, boundVars, history>>

-----------------------------------------------------------------------------
(* rotate, by the periodical executor.                                      *)

(* Mutant: LIMIT 49, 1. *)
RotateSelectEarly ==
  /\ ~rotator.on
  /\ \E r \in table :
       /\ Cardinality(Newer(table, r.id)) = TailLength - 1
       /\ rotator' = [on |-> TRUE, cut |-> r.id]
  /\ UNCHANGED <<tableVars, listVars, acceptor, marking, boundVars, history>>

(* SELECT ... ORDER BY id DESC LIMIT 50, 1: the row with 50 newer ones. *)
RotateSelect ==
  /\ ~rotator.on
  /\ \E r \in table :
       /\ Cardinality(Newer(table, r.id)) = TailLength
       /\ rotator' = [on |-> TRUE, cut |-> r.id]
  /\ UNCHANGED <<tableVars, listVars, acceptor, marking, boundVars, history>>

Expired == {r \in table : r.id <= rotator.cut}

(* DELETE ... WHERE id <= ?, whatever the rows' state *)
RotateDelete ==
  /\ rotator.on
  /\ table' = table \ Expired
  /\ trimmed' = trimmed \cup {r.msg : r \in Expired \cap UnhandledRows}
  /\ rotator' = NotRotating
  /\ UNCHANGED <<clock, listVars, acceptor, marking, boundVars, accepted, marked,
                 settled, unstored>>

-----------------------------------------------------------------------------
(* The process dies and is started again: the table is what is left. *)
Restart ==
  /\ restarts < MaxRestarts
  /\ restarts' = restarts + 1
  /\ loaded' = FALSE
  /\ loading' = NotLoading
  /\ cache' = {}
  /\ seen' = {}
  /\ acceptor' = [a \in Acceptors |-> IdleAcceptor]
  /\ marking' = [c \in Clients |-> NoMsg]
  /\ rotator' = NotRotating
  /\ UNCHANGED <<tableVars, puts, sent, history>>

StoreNext ==
  \/ LoadSelect \/ LoadFinish \/ LoadRaises
  \/ \E a \in Acceptors :
       \/ \E m \in Messages : PutCache(a, m)
       \/ PutRow(a) \/ PutRowRaises(a) \/ ReplyRaises(a) \/ Accept(a)
  \/ \E c \in Clients :
       \/ \E m \in Messages : MarkCache(c, m)
       \/ MarkRow(c) \/ MarkRowRaises(c)
  \/ \E m \in Outgoing : PutOutgoing(m) \/ MarkDelivered(m)
  \/ RotateSelect \/ RotateDelete
  \/ Restart

StoreSafety == StoreInit /\ [][StoreNext]_storeVars

-----------------------------------------------------------------------------
(* Fairness: the handler thread polls the list every 0.1 s, so it loads it, *)
(* and it takes the list message by message, so that none is passed over    *)
(* for ever (strong fairness: the thread is busy in between); an SQL        *)
(* statement returns or raises.                                             *)
Load == LoadSelect \/ LoadFinish \/ LoadRaises

HandleOne(m) == m \in CachedIds /\ \E c \in Clients : MarkCache(c, m)

StoreFairness ==
  /\ WF_storeVars(Load)
  /\ \A m \in Messages : SF_storeVars(HandleOne(m))
  /\ \A c \in Clients : WF_storeVars(MarkRow(c) \/ MarkRowRaises(c))

StoreSpec == StoreSafety /\ StoreFairness

-----------------------------------------------------------------------------
(* Type invariant: the shape of the store's state, and that nothing of the  *)
(* list outlives the process.                                               *)
StoreTypeOK ==
  /\ table \subseteq Row
  /\ \A r \in table : r.id \in 1..clock
  /\ loaded \in BOOLEAN
  /\ loading \in [on : BOOLEAN, rows : SUBSET InRow]
  /\ cache \subseteq Entry
  /\ clock \in Nat
  /\ acceptor \in [Acceptors -> [pc : {"idle", "cached", "inserted"}, msg : Messages \cup {NoMsg}]]
  /\ \A a \in Acceptors : acceptor[a].pc # "idle" => acceptor[a].msg \in Messages
  /\ marking \in [Clients -> Messages \cup {NoMsg}]
  /\ rotator \in [on : BOOLEAN, cut : Nat]
  /\ seen \subseteq Messages
  /\ puts \in 0..MaxPuts
  /\ sent \subseteq Outgoing
  /\ restarts \in 0..MaxRestarts
  /\ accepted \subseteq Messages
  /\ marked \subseteq Messages
  /\ settled \subseteq Messages
  /\ trimmed \subseteq Messages
  /\ unstored \subseteq Messages

(* No accepted message is lost: a message answered with 201 and not yet     *)
(* handled has an unhandled row, also while the process restarts, and is    *)
(* on the list once that is loaded; only rotation takes the row away.       *)
(* put_ingoing, mark_as_handled and _get_unhandled_from_db keep the list    *)
(* and the table in step for every interleaving of their halves.            *)
NoAcceptedLoss ==
  \A m \in accepted \ (marked \cup trimmed) :
    /\ IsPending(m)
    /\ loaded => m \in CachedIds

(* What the list holds is on disk: a message on the list that was never     *)
(* handled has an unhandled row, unless its INSERT is under way or raised,  *)
(* or rotation deleted the row.  So a restart re-reads what was pending.    *)
PendingRecorded ==
  \A m \in CachedIds \ (marked \cup trimmed \cup unstored) :
    \/ IsPending(m)
    \/ \E a \in Acceptors : acceptor[a] = [pc |-> "cached", msg |-> m]

-----------------------------------------------------------------------------
(* Why NoAcceptedLoss and PendingRecorded hold: the inductive invariant.    *)

(* Before the list is loaded no call that uses it is under way. *)
FreshStart ==
  ~loaded => /\ cache = {}
             /\ \A a \in Acceptors : acceptor[a].pc = "idle"
             /\ \A c \in Clients : marking[c] = NoMsg

(* A load has selected every unhandled row that there is, and what it       *)
(* selected is pending unless it was handled or rotated away since.         *)
LoadCovers ==
  loading.on => /\ ~loaded
                /\ UnhandledRows \subseteq loading.rows
                /\ \A r \in loading.rows : r.msg \in marked \cup trimmed \/ IsPending(r.msg)

(* A message being put is on the list, and pending from its INSERT on. *)
PutsHeld ==
  \A a \in Acceptors :
    /\ (acceptor[a].pc # "idle" /\ acceptor[a].msg \notin marked) => acceptor[a].msg \in CachedIds
    /\ (acceptor[a].pc = "inserted" /\ acceptor[a].msg \notin marked \cup trimmed)
         => IsPending(acceptor[a].msg)

(* A row is marked after its message was taken off the list. *)
ListFirst == \A c \in Clients : marking[c] # NoMsg => marking[c] \in marked

(* A row that rotate has selected keeps its TailLength newer rows. *)
CutBehindTail == rotator.on => Cardinality(Newer(table, rotator.cut)) >= TailLength

(* The inductive invariant of the store: list, table and the calls in       *)
(* progress agree on what is pending.                                       *)
StoreInv ==
  /\ StoreTypeOK
  /\ FreshStart
  /\ LoadCovers
  /\ PutsHeld
  /\ ListFirst
  /\ CutBehindTail
  /\ NoAcceptedLoss
  /\ PendingRecorded

(* rotate keeps the tail: a row leaves the table only with at least         *)
(* TailLength newer rows left, whatever was inserted between the SELECT     *)
(* and the DELETE of rotate.                                                *)
KeepsTail == \A r \in table : (\A q \in table' : q.id # r.id) =>
                                Cardinality(Newer(table', r.id)) >= TailLength
RotateKeepsTail == [][KeepsTail]_storeVars

(* Every accepted message is handled in the end, across restarts, unless    *)
(* rotation deletes its row.                                                *)
AcceptedIsHandled ==
  \A m \in Messages : m \in accepted ~> m \in marked \cup trimmed

(* _get_unhandled_from_db returns unhandled messages: when the list is      *)
(* loaded at a start, no message is on it for which mark_as_handled had     *)
(* returned before.  put_ingoing appends to the list before it inserts the  *)
(* row, so that a message can be handled and marked between the two.        *)
LoadsUnhandledOnly ==
  [][LoadFinish => \A r \in loading.rows : r.msg \notin settled]_storeVars
=============================================================================
