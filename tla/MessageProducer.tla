--------------------------- MODULE MessageProducer ---------------------------
(***************************************************************************)
(* The P2P message producer of scalarizr (messaging/p2p/producer.py) on    *)
(* top of the message store.  A sender is a thread that calls send of one  *)
(* producer: the retry state is thread-local.  The producer of Scalr's     *)
(* messages retries along retries_progression until the message is         *)
(* delivered; the producers of messages to other servers (NoRetry) raise.  *)
(* Scalr, or the other server, takes a message or not, and its answer can  *)
(* get lost.                                                               *)
(***************************************************************************)
EXTENDS MessageStore, Sequences

CONSTANTS
  Senders,       \* threads, each with the producer it calls
  NoRetry,       \* the senders whose producer has no retries_progression
  Progression,   \* retries_progression: minutes
  OldPython,     \* urllib2 raises HTTPError for 201 (Python < 2.6)
  DbRaises,      \* SQL statements may raise
  MaxCount       \* bound: the counters of the history stop here

ASSUME ProducerAssumption ==
  /\ NoRetry \subseteq Senders
  /\ Progression \in Seq(Nat)
  /\ Progression # <<>>
  /\ OldPython \in BOOLEAN
  /\ DbRaises \in BOOLEAN
  /\ MaxCount \in Nat
  /\ MaxCount >= Len(Progression)

VARIABLES
  sender,     \* where each sender is, and the message it sends
  interval,   \* self._local.interval in minutes, 0 for None
  nextIndex,  \* self._local.next_retry_index
  stop,       \* self._stop_delivery is set
  outcome,    \* what became of the call of send for each message
  copies,     \* history: copies of each message that the peer received
  doubts,     \* history: attempts that failed though the peer received it
  fails       \* history: failures of each sender since its last delivery

producerVars == <<sender, interval, nextIndex, stop, outcome, copies, doubts, fails>>
historyVars == <<copies, doubts, fails>>
prodVars == <<storeVars, producerVars>>

Capped(n) == IF n < MaxCount THEN n + 1 ELSE n

Idle == [pc |-> "idle", msg |-> NoMsg]

ProducerInit ==
  /\ StoreInit
  /\ sender = [s \in Senders |-> Idle]
  /\ interval = [s \in Senders |-> 0]
  /\ nextIndex = [s \in Senders |-> 0]
  /\ stop = FALSE
  /\ outcome = [m \in Outgoing |-> "none"]
  /\ copies = [m \in Outgoing |-> 0]
  /\ doubts = [m \in Outgoing |-> 0]
  /\ fails = [s \in Senders |-> 0]

-----------------------------------------------------------------------------
Goto(s, pc) == sender' = [sender EXCEPT ![s].pc = pc]

(* The call of send leaves, with a result. *)
Leave(s, result) ==
  /\ sender' = [sender EXCEPT ![s] = Idle]
  /\ outcome' = [outcome EXCEPT ![sender[s].msg] = result]

(* send(message): the id is new, so that a message is sent by one call. *)
Call(s, m) ==
  /\ sender[s].pc = "idle"
  /\ outcome[m] = "none"
  /\ sender' = [sender EXCEPT ![s] = [pc |-> "put", msg |-> m]]
  /\ outcome' = [outcome EXCEPT ![m] = "sending"]
  /\ UNCHANGED <<storeVars, interval, nextIndex, stop, historyVars>>

(* put_outgoing *)
Put(s) ==
  /\ sender[s].pc = "put"
  /\ PutOutgoing(sender[s].msg)
  /\ Goto(s, "try")
  /\ UNCHANGED <<interval, nextIndex, stop, outcome, historyVars>>

PutRaises(s) ==
  /\ DbRaises
  /\ sender[s].pc = "put"
  /\ Leave(s, "raised")
  /\ UNCHANGED <<storeVars, interval, nextIndex, stop, historyVars>>

(* An attempt: sleep self._local.interval and post.  The peer takes the     *)
(* message and answers 200, or 201, that an old urllib2 raises.             *)
Received(s) == copies' = [copies EXCEPT ![sender[s].msg] = Capped(@)]
InDoubt(s)  == doubts' = [doubts EXCEPT ![sender[s].msg] = Capped(@)]

Answered(s) ==
  /\ sender[s].pc = "try"
  /\ Received(s)
  /\ Goto(s, "mark") \/ (OldPython /\ Goto(s, "mark201"))
  /\ UNCHANGED <<storeVars, interval, nextIndex, stop, outcome, doubts, fails>>

(* _get_next_interval: retries_progression counts from 0 *)
NextInterval(s) == Progression[nextIndex[s] + 1]

(* Mutant: the index moves past the last interval. *)
BackOffUnbounded(s) ==
  /\ interval' = [interval EXCEPT ![s] = NextInterval(s)]
  /\ nextIndex' = [nextIndex EXCEPT ![s] = @ + 1]

(* Mutant: the interval is the producer's, not the thread's. *)
BackOffShared(s) ==
  /\ interval' = [t \in Senders |-> NextInterval(s)]
  /\ nextIndex' = [nextIndex EXCEPT ![s] = IF @ < Len(Progression) - 1 THEN @ + 1 ELSE @]

(* _undelivered_cb: the next interval, and the index moves up to the last. *)
BackOff(s) ==
  /\ interval' = [interval EXCEPT ![s] = NextInterval(s)]
  /\ nextIndex' = [nextIndex EXCEPT ![s] = IF @ < Len(Progression) - 1 THEN @ + 1 ELSE @]

(* Mutant: without retries, the exception is swallowed. *)
FailedQuietly(s) ==
  /\ fails' = [fails EXCEPT ![s] = Capped(@)]
  /\ \/ /\ s \notin NoRetry
        /\ BackOff(s)
        /\ Goto(s, "try")
        /\ UNCHANGED outcome
     \/ /\ s \in NoRetry
        /\ Leave(s, "returned")
        /\ UNCHANGED <<interval, nextIndex>>

(* What _send0 does with an exception: the loop goes on after a back-off,   *)
(* or the exception goes to the caller.                                     *)
Failed(s) ==
  /\ fails' = [fails EXCEPT ![s] = Capped(@)]
  /\ \/ /\ s \notin NoRetry
        /\ BackOff(s)
        /\ Goto(s, "try")
        /\ UNCHANGED outcome
     \/ /\ s \in NoRetry
        /\ Leave(s, "raised")
        /\ UNCHANGED <<interval, nextIndex>>

(* The peer cannot be reached or refuses. *)
Refused(s) ==
  /\ sender[s].pc = "try"
  /\ Failed(s)
  /\ UNCHANGED <<storeVars, stop, copies, doubts>>

(* The peer has the message, and its answer is lost or an error. *)
AnswerLost(s) ==
  /\ sender[s].pc = "try"
  /\ Received(s)
  /\ InDoubt(s)
  /\ Failed(s)
  /\ UNCHANGED <<storeVars, stop>>

(* Mutant: _delivered_cb does not set delivered. *)
SettleUndelivered(s) ==
  /\ sender[s].pc \in {"mark", "mark201"}
  /\ MarkDelivered(sender[s].msg)
  /\ interval' = [interval EXCEPT ![s] = 0]
  /\ nextIndex' = [nextIndex EXCEPT ![s] = 0]
  /\ fails' = [fails EXCEPT ![s] = 0]
  /\ Goto(s, "try")
  /\ UNCHANGED <<stop, outcome, copies, doubts>>

(* _message_delivered: mark_as_delivered, and _delivered_cb resets. *)
Settle(s) ==
  /\ sender[s].pc \in {"mark", "mark201"}
  /\ MarkDelivered(sender[s].msg)
  /\ interval' = [interval EXCEPT ![s] = 0]
  /\ nextIndex' = [nextIndex EXCEPT ![s] = 0]
  /\ fails' = [fails EXCEPT ![s] = 0]
  /\ Leave(s, "returned")
  /\ UNCHANGED <<stop, copies, doubts>>

(* mark_as_delivered raises inside the try: as if the message had not been  *)
(* delivered.                                                               *)
MarkRaises(s) ==
  /\ DbRaises
  /\ sender[s].pc = "mark"
  /\ InDoubt(s)
  /\ Failed(s)
  /\ UNCHANGED <<storeVars, stop, copies>>

(* It raises in the except clause of the 201: out of send, and the retry    *)
(* state stays as it is.                                                    *)
Mark201Raises(s) ==
  /\ DbRaises
  /\ sender[s].pc = "mark201"
  /\ InDoubt(s)
  /\ Leave(s, "raised")
  /\ UNCHANGED <<storeVars, interval, nextIndex, stop, copies, fails>>

(* shutdown sets an event that the loop does not look at. *)
Shutdown ==
  /\ stop' = TRUE
  /\ UNCHANGED <<storeVars, sender, interval, nextIndex, outcome, historyVars>>

(* The table is rotated beside. *)
Rotate ==
  /\ RotateSelect \/ RotateDelete
  /\ UNCHANGED producerVars

Mark(s) == Settle(s) \/ MarkRaises(s) \/ Mark201Raises(s)

ProducerNext ==
  \/ \E s \in Senders :
       \/ \E m \in Outgoing : Call(s, m)
       \/ Put(s) \/ PutRaises(s)
       \/ Answered(s) \/ Refused(s) \/ AnswerLost(s)
       \/ Mark(s)
  \/ Shutdown
  \/ Rotate

ProducerSafety == ProducerInit /\ [][ProducerNext]_prodVars

(* A sender goes on; a peer that is tried for ever takes a message some     *)
(* time, and a database that is tried for ever works some time.             *)
ProducerSpec ==
  /\ ProducerSafety
  /\ \A s \in Senders : /\ WF_prodVars(Put(s) \/ PutRaises(s))
                        /\ SF_prodVars(Answered(s))
                        /\ SF_prodVars(Settle(s))

-----------------------------------------------------------------------------
ProducerTypeOK ==
  /\ sender \in [Senders -> [pc : {"idle", "put", "try", "mark", "mark201"},
                             msg : Outgoing \cup {NoMsg}]]
  /\ \A s \in Senders : sender[s].pc # "idle" => sender[s].msg \in Outgoing
  /\ interval \in [Senders -> Nat]
  /\ nextIndex \in [Senders -> 0..(Len(Progression) - 1)]
  /\ stop \in BOOLEAN
  /\ outcome \in [Outgoing -> {"none", "sending", "returned", "raised"}]
  /\ copies \in [Outgoing -> 0..MaxCount]
  /\ doubts \in [Outgoing -> 0..MaxCount]
  /\ fails \in [Senders -> 0..MaxCount]

(* Each sender waits along the progression: after its n-th failure in a row *)
(* the interval is the n-th of the progression, or the last one, whatever   *)
(* the other senders of the producer meet; after a delivery it is none.     *)
Lesser(a, b) == IF a < b THEN a ELSE b

BackoffFollowsProgression ==
  \A s \in Senders \ NoRetry :
    /\ interval[s] = IF fails[s] = 0 THEN 0
                     ELSE Progression[Lesser(fails[s], Len(Progression))]
    /\ nextIndex[s] = Lesser(fails[s], Len(Progression) - 1)

(* The result of send is true: it returns only when the peer has the        *)
(* message, with the row marked delivered unless it was rotated away; it    *)
(* raises only when the peer does not have the message, or when it cannot   *)
(* know because an answer was lost or the mark raised.                      *)
ResultIsTrue ==
  \A m \in Outgoing :
    /\ outcome[m] = "returned" => /\ copies[m] > 0
                                  /\ \A r \in table : r.msg = m => r.done
    /\ outcome[m] = "raised" => copies[m] = 0 \/ doubts[m] > 0

(* The peer gets a second copy only after an attempt that failed on our     *)
(* side though the peer had the message.                                    *)
CopiesOnlyInDoubt ==
  \A m \in Outgoing : copies[m] <= doubts[m] + 1

(* The senders use the table as the store lets them. *)
UsesStore == StoreSafety

(* A send does not hang, whatever attempts fail, and its sender is free for *)
(* the next message: the loop of send, that only a delivery leaves.         *)
SendEnds == \A s \in Senders : sender[s].pc # "idle" ~> sender[s].pc = "idle"
=============================================================================
