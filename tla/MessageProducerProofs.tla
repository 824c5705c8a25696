------------------------ MODULE MessageProducerProofs ------------------------
(* Theorems about MessageProducer, for every progression of retries and any *)
(* number of senders.                                                       *)
EXTENDS MessageProducer, MessageStoreProofs

(* The retry state of the senders and its history are of their types. *)
RetryTypeOK ==
  /\ interval \in [Senders -> Nat]
  /\ nextIndex \in [Senders -> Nat]
  /\ fails \in [Senders -> Nat]

BackoffInv == RetryTypeOK /\ BackoffFollowsProgression

(* One failure moves a sender one place along the progression, and leaves   *)
(* the others where they are.                                               *)
LEMMA FailedStep ==
  ASSUME BackoffInv, NEW s \in Senders, Failed(s)
  PROVE  BackoffInv'
<1> USE ProducerAssumption DEF BackoffInv, RetryTypeOK
<1>1. Len(Progression) \in Nat /\ Len(Progression) > 0
  OBVIOUS
<1>2. \A i \in 1..Len(Progression) : Progression[i] \in Nat
  OBVIOUS
<1>3. CASE s \in NoRetry
  BY <1>3 DEF Failed, Capped, BackoffFollowsProgression
<1>4. CASE s \notin NoRetry
  <2>1. /\ interval' = [interval EXCEPT ![s] = Progression[nextIndex[s] + 1]]
        /\ nextIndex' = [nextIndex EXCEPT
                           ![s] = IF @ < Len(Progression) - 1 THEN @ + 1 ELSE @]
        /\ fails' = [fails EXCEPT ![s] = Capped(@)]
    BY <1>4 DEF Failed, BackOff, NextInterval
  <2>2. nextIndex[s] = Lesser(fails[s], Len(Progression) - 1)
    BY <1>4 DEF BackoffFollowsProgression
  <2>3. nextIndex[s] \in 0..(Len(Progression) - 1)
    BY <1>1, <2>2 DEF Lesser
  <2>4. RetryTypeOK'
    BY <1>1, <1>2, <2>1, <2>3 DEF Capped
  <2>5. fails'[s] > 0 /\ Lesser(fails'[s], Len(Progression)) = nextIndex[s] + 1
    BY <1>1, <2>1, <2>2 DEF Capped, Lesser
  <2>6. nextIndex'[s] = Lesser(fails'[s], Len(Progression) - 1)
    BY <1>1, <2>1, <2>2 DEF Capped, Lesser
  <2>7. BackoffFollowsProgression'
    BY <2>1, <2>5, <2>6 DEF BackoffFollowsProgression
  <2> QED
    BY <2>4, <2>7
<1> QED
  BY <1>3, <1>4

LEMMA BackoffStep ==
  ASSUME BackoffInv, [ProducerNext]_prodVars
  PROVE  BackoffInv'
<1> USE DEF BackoffInv
<1>1. ASSUME NEW s \in Senders, Refused(s) \/ AnswerLost(s) \/ MarkRaises(s)
      PROVE  BackoffInv'
  <2>1. Failed(s)
    BY <1>1 DEF Refused, AnswerLost, MarkRaises
  <2> QED
    BY <2>1, FailedStep
<1>2. ASSUME NEW s \in Senders, Settle(s)
      PROVE  BackoffInv'
  BY <1>2, ProducerAssumption DEF Settle, RetryTypeOK, BackoffFollowsProgression, Lesser
<1>3. CASE UNCHANGED <<interval, nextIndex, fails>>
  BY <1>3 DEF RetryTypeOK, BackoffFollowsProgression
<1>4. \/ UNCHANGED <<interval, nextIndex, fails>>
      \/ \E s \in Senders : Refused(s) \/ AnswerLost(s) \/ MarkRaises(s) \/ Settle(s)
  BY DEF ProducerNext, prodVars, producerVars, historyVars, Call, Put, PutRaises, Answered, Mark,
     Mark201Raises, Shutdown, Rotate
<1> QED
  BY <1>1, <1>2, <1>3, <1>4

(* Whatever the progression, the senders and the order of their failures:   *)
(* each sender waits the n-th interval after its n-th failure in a row.     *)
THEOREM BackoffCorrect == ProducerSafety => []BackoffFollowsProgression
<1>1. ProducerInit => BackoffInv
  <2> SUFFICES ASSUME ProducerInit PROVE BackoffInv
    OBVIOUS
  <2>1. Progression \in Seq(Nat) /\ Progression # <<>>
    BY ProducerAssumption
  <2>2. Len(Progression) \in Nat /\ Len(Progression) > 0
    BY <2>1
  <2>3. 0 \in 0..(Len(Progression) - 1) /\ Lesser(0, Len(Progression) - 1) = 0
    BY <2>2 DEF Lesser
  <2>4. MaxCount \in Nat
    BY ProducerAssumption
  <2> QED
    BY <2>3, <2>4 DEF ProducerInit, BackoffInv, RetryTypeOK, BackoffFollowsProgression
<1>2. BackoffInv /\ [ProducerNext]_prodVars => BackoffInv'
  BY BackoffStep
<1>3. BackoffInv => BackoffFollowsProgression
  BY DEF BackoffInv
<1> QED
  BY <1>1, <1>2, <1>3, PTL DEF ProducerSafety

(* A sender that is in a call has the message of the call. *)
SendersTypeOK ==
  /\ sender \in [Senders -> [pc : {"idle", "put", "try", "mark", "mark201"},
                             msg : Outgoing \cup {NoMsg}]]
  /\ \A s \in Senders : sender[s].pc # "idle" => sender[s].msg \in Outgoing

LEMMA SendersTypeStep ==
  ASSUME SendersTypeOK, [ProducerNext]_prodVars
  PROVE  SendersTypeOK'
<1> USE DEF SendersTypeOK, Idle
<1>1. ASSUME NEW s \in Senders, NEW m \in Outgoing, Call(s, m)
      PROVE  SendersTypeOK'
  BY <1>1 DEF Call
<1>2. ASSUME NEW s \in Senders, NEW result, Leave(s, result)
      PROVE  SendersTypeOK'
  BY <1>2 DEF Leave
<1>3. ASSUME NEW s \in Senders, sender[s].pc # "idle",
             Goto(s, "try") \/ Goto(s, "mark") \/ Goto(s, "mark201")
      PROVE  SendersTypeOK'
  BY <1>3 DEF Goto
<1>4. CASE sender' = sender
  BY <1>4
<1>5. \/ sender' = sender
      \/ \E s \in Senders :
           \/ \E m \in Outgoing : Call(s, m)
           \/ Leave(s, "raised") \/ Leave(s, "returned")
           \/ /\ sender[s].pc # "idle"
              /\ Goto(s, "try") \/ Goto(s, "mark") \/ Goto(s, "mark201")
  BY DEF ProducerNext, prodVars, producerVars, Put, PutRaises, Answered, Refused, AnswerLost,
     Failed, Mark, Settle, MarkRaises, Mark201Raises, Shutdown, Rotate
<1> QED
  BY <1>1, <1>2, <1>3, <1>4, <1>5

(* Every step of a sender is a step of the store or leaves it alone.        *)
THEOREM ProducerUsesStore == ProducerSafety => UsesStore
<1>1. ProducerInit => StoreInit
  BY DEF ProducerInit
<1>2. ASSUME SendersTypeOK, [ProducerNext]_prodVars
      PROVE  [StoreNext]_storeVars
  <2>1. ASSUME NEW s \in Senders, Put(s)
        PROVE  StoreNext
    <3>1. sender[s].msg \in Outgoing /\ PutOutgoing(sender[s].msg)
      BY <1>2, <2>1 DEF Put, SendersTypeOK
    <3> QED
      BY <3>1 DEF StoreNext
  <2>2. ASSUME NEW s \in Senders, Settle(s)
        PROVE  StoreNext
    <3>1. sender[s].msg \in Outgoing /\ MarkDelivered(sender[s].msg)
      BY <1>2, <2>2 DEF Settle, SendersTypeOK
    <3> QED
      BY <3>1 DEF StoreNext
  <2>3. CASE Rotate
    BY <2>3 DEF Rotate, StoreNext
  <2>4. \/ UNCHANGED storeVars \/ Rotate
        \/ \E s \in Senders : Put(s) \/ Settle(s)
    BY <1>2 DEF ProducerNext, prodVars, Call, PutRaises, Answered, Refused, AnswerLost, Mark,
       MarkRaises, Mark201Raises, Shutdown
  <2> QED
    BY <2>1, <2>2, <2>3, <2>4
<1>3. ProducerInit => SendersTypeOK
  BY DEF ProducerInit, SendersTypeOK, Idle
<1>4. SendersTypeOK /\ [ProducerNext]_prodVars => SendersTypeOK'
  BY SendersTypeStep
<1> QED
  BY <1>1, <1>2, <1>3, <1>4, PTL DEF ProducerSafety, UsesStore, StoreSafety
-----------------------------------------------------------------------------
(* What the peer has received of each message, and what send has answered.  *)

DeliveryTypeOK ==
  /\ SendersTypeOK
  /\ outcome \in [Outgoing -> {"none", "sending", "returned", "raised"}]
  /\ copies \in [Outgoing -> 0..MaxCount]
  /\ doubts \in [Outgoing -> 0..MaxCount]

(* A message is sent by one call of send, that is not over. *)
OneCall ==
  /\ \A s \in Senders : sender[s].pc # "idle" => outcome[sender[s].msg] = "sending"
  /\ \A s, t \in Senders : s # t /\ sender[s].pc # "idle" /\ sender[t].pc # "idle"
                             => sender[s].msg # sender[t].msg

Attempting(m) == \E s \in Senders : sender[s].pc \in {"put", "try"} /\ sender[s].msg = m
Marking(m) == \E s \in Senders : sender[s].pc \in {"mark", "mark201"} /\ sender[s].msg = m

(* Before an attempt every copy was in doubt; after it one may be certain.  *)
CopiesCounted ==
  \A m \in Outgoing :
    /\ copies[m] <= doubts[m] + 1
    /\ outcome[m] \in {"none", "raised"} \/ Attempting(m) => copies[m] <= doubts[m]
    /\ outcome[m] = "returned" \/ Marking(m) => copies[m] > 0

DeliveryInv == DeliveryTypeOK /\ OneCall /\ CopiesCounted

LEMMA CappedFacts ==
  ASSUME NEW n \in 0..MaxCount
  PROVE  /\ Capped(n) \in 0..MaxCount
         /\ Capped(n) > 0
         /\ n <= Capped(n)
         /\ Capped(n) <= n + 1
         /\ \A i \in 0..MaxCount : i <= n => Capped(i) <= Capped(n)
         /\ \A i \in 0..MaxCount : i <= n + 1 => i <= Capped(n)
<1>1. MaxCount \in Nat /\ MaxCount > 0
  <2>1. Progression \in Seq(Nat) /\ Progression # <<>>
    BY ProducerAssumption
  <2>2. Len(Progression) \in Nat /\ Len(Progression) > 0
    BY <2>1
  <2> QED
    BY <2>2, ProducerAssumption
<1> QED
  BY <1>1 DEF Capped

(* How a step of a sender moves it: it stays in the call, or leaves it. *)
Stays(s, pc) == Goto(s, pc) /\ outcome' = outcome

LEMMA SenderMoves ==
  ASSUME SendersTypeOK, [ProducerNext]_prodVars
  PROVE  \/ UNCHANGED <<sender, outcome, copies, doubts>>
         \/ \E s \in Senders, m \in Outgoing : Call(s, m)
         \/ \E s \in Senders :
              /\ sender[s].pc # "idle"
              /\ Put(s) \/ PutRaises(s) \/ Answered(s) \/ Refused(s) \/ AnswerLost(s) \/ Mark(s)
  BY DEF ProducerNext, prodVars, producerVars, historyVars, Shutdown, Rotate, Put, PutRaises,
     Answered, Refused, AnswerLost, Mark, Settle, MarkRaises, Mark201Raises

LEMMA InCallMoves ==
  ASSUME NEW s \in Senders,
         Put(s) \/ PutRaises(s) \/ Answered(s) \/ Refused(s) \/ AnswerLost(s) \/ Mark(s)
  PROVE  \/ Stays(s, "try") \/ Stays(s, "mark") \/ Stays(s, "mark201")
         \/ Leave(s, "raised") \/ Leave(s, "returned")
  BY DEF Stays, Put, PutRaises, Answered, Refused, AnswerLost, Mark, Settle, MarkRaises,
     Mark201Raises, Failed

LEMMA DeliveryTypeStep ==
  ASSUME DeliveryTypeOK, [ProducerNext]_prodVars
  PROVE  DeliveryTypeOK'
<1> USE DEF DeliveryTypeOK
<1>1. SendersTypeOK'
  BY SendersTypeStep
<1>2. CASE UNCHANGED <<sender, outcome, copies, doubts>>
  BY <1>1, <1>2
<1>3. ASSUME NEW s \in Senders, NEW m \in Outgoing, Call(s, m)
      PROVE  DeliveryTypeOK'
  BY <1>1, <1>3 DEF Call, historyVars
<1>4. ASSUME NEW s \in Senders, sender[s].pc # "idle",
             Put(s) \/ PutRaises(s) \/ Answered(s) \/ Refused(s) \/ AnswerLost(s) \/ Mark(s)
      PROVE  DeliveryTypeOK'
  <2>1. outcome' \in [Outgoing -> {"none", "sending", "returned", "raised"}]
    BY <1>4, InCallMoves DEF Stays, Leave
  <2>2. copies' = copies \/ Received(s)
    BY <1>4 DEF Put, PutRaises, Answered, Refused, AnswerLost, Mark, Settle, MarkRaises,
       Mark201Raises, historyVars
  <2>3. doubts' = doubts \/ InDoubt(s)
    BY <1>4 DEF Put, PutRaises, Answered, Refused, AnswerLost, Mark, Settle, MarkRaises,
       Mark201Raises, historyVars
  <2>4. copies' \in [Outgoing -> 0..MaxCount]
    BY <2>2, CappedFacts DEF Received
  <2>5. doubts' \in [Outgoing -> 0..MaxCount]
    BY <2>3, CappedFacts DEF InDoubt
  <2> QED
    BY <1>1, <2>1, <2>4, <2>5
<1> QED
  BY <1>2, <1>3, <1>4, SenderMoves

LEMMA OneCallStep ==
  ASSUME DeliveryTypeOK, OneCall, [ProducerNext]_prodVars
  PROVE  OneCall'
<1> USE DEF DeliveryTypeOK, SendersTypeOK, OneCall
<1>1. CASE UNCHANGED <<sender, outcome, copies, doubts>>
  BY <1>1
<1>2. ASSUME NEW s \in Senders, NEW m \in Outgoing, Call(s, m)
      PROVE  OneCall'
  BY <1>2 DEF Call
<1>3. ASSUME NEW s \in Senders, sender[s].pc # "idle", NEW pc, Stays(s, pc)
      PROVE  OneCall'
  BY <1>3 DEF Stays, Goto
<1>4. ASSUME NEW s \in Senders, sender[s].pc # "idle", NEW result, Leave(s, result)
      PROVE  OneCall'
  BY <1>4 DEF Leave, Idle
<1> QED
  BY <1>1, <1>2, <1>3, <1>4, SenderMoves, InCallMoves

(* A step of one sender does not touch the messages of the others. *)
LEMMA OthersKept ==
  ASSUME DeliveryTypeOK, NEW s \in Senders, sender[s].pc # "idle",
         Put(s) \/ PutRaises(s) \/ Answered(s) \/ Refused(s) \/ AnswerLost(s) \/ Mark(s),
         NEW m \in Outgoing, m # sender[s].msg
  PROVE  /\ outcome'[m] = outcome[m]
         /\ copies'[m] = copies[m]
         /\ doubts'[m] = doubts[m]
         /\ Attempting(m)' => Attempting(m)
         /\ Marking(m)' => Marking(m)
<1> USE DEF DeliveryTypeOK, SendersTypeOK
<1>1. outcome'[m] = outcome[m] /\ \A t \in Senders : sender'[t].pc # "idle" /\ sender'[t].msg = m
                                                       => sender'[t] = sender[t]
  <2>1. ASSUME NEW pc, Stays(s, pc)
        PROVE  /\ outcome'[m] = outcome[m]
               /\ sender'[s].msg # m
               /\ \A t \in Senders \ {s} : sender'[t] = sender[t]
    BY <2>1 DEF Stays, Goto
  <2>2. ASSUME NEW result, Leave(s, result)
        PROVE  /\ outcome'[m] = outcome[m]
               /\ sender'[s].pc = "idle"
               /\ \A t \in Senders \ {s} : sender'[t] = sender[t]
    BY <2>2 DEF Leave, Idle
  <2> QED
    BY <2>1, <2>2, InCallMoves
<1>2. copies'[m] = copies[m] /\ doubts'[m] = doubts[m]
  BY DEF Put, PutRaises, Answered, Refused, AnswerLost, Mark, Settle, MarkRaises,
     Mark201Raises, historyVars, Received, InDoubt
<1> QED
  BY <1>1, <1>2 DEF Attempting, Marking

(* After a step of sender s, that had message m: where m is.                *)
LEMMA OwnMessage ==
  ASSUME DeliveryTypeOK, OneCall, NEW s \in Senders, sender[s].pc # "idle",
         NEW m \in Outgoing, m = sender[s].msg
  PROVE  /\ \A pc : Stays(s, pc) => /\ outcome'[m] = "sending"
                                    /\ Attempting(m)' => pc \in {"put", "try"}
                                    /\ Marking(m)' => pc \in {"mark", "mark201"}
         /\ \A result : Leave(s, result) => /\ outcome'[m] = result
                                            /\ ~Attempting(m)'
                                            /\ ~Marking(m)'
<1> USE DEF DeliveryTypeOK, SendersTypeOK, OneCall
<1>1. ASSUME NEW pc, Stays(s, pc)
      PROVE  /\ outcome'[m] = "sending"
             /\ \A t \in Senders : sender'[t].pc # "idle" /\ sender'[t].msg = m
                                    => sender'[t].pc = pc
  BY <1>1 DEF Stays, Goto
<1>2. ASSUME NEW result, Leave(s, result)
      PROVE  /\ outcome'[m] = result
             /\ \A t \in Senders : sender'[t].pc = "idle" \/ sender'[t].msg # m
  BY <1>2 DEF Leave, Idle
<1> QED
  BY <1>1, <1>2 DEF Attempting, Marking

LEMMA CopiesCountedStep ==
  ASSUME DeliveryInv, [ProducerNext]_prodVars
  PROVE  CopiesCounted'
<1> USE DEF DeliveryInv
<1> SUFFICES ASSUME NEW m \in Outgoing
             PROVE  /\ copies'[m] <= doubts'[m] + 1
                    /\ outcome'[m] \in {"none", "raised"} \/ Attempting(m)' => copies'[m] <= doubts'[m]
                    /\ outcome'[m] = "returned" \/ Marking(m)' => copies'[m] > 0
  BY DEF CopiesCounted
<1>1. /\ copies[m] \in 0..MaxCount /\ doubts[m] \in 0..MaxCount /\ MaxCount \in Nat
      /\ copies[m] <= doubts[m] + 1
      /\ outcome[m] \in {"none", "raised"} \/ Attempting(m) => copies[m] <= doubts[m]
      /\ outcome[m] = "returned" \/ Marking(m) => copies[m] > 0
  BY ProducerAssumption DEF DeliveryTypeOK, CopiesCounted
<1>2. CASE UNCHANGED <<sender, outcome, copies, doubts>>
  BY <1>1, <1>2 DEF Attempting, Marking
<1>3. ASSUME NEW s \in Senders, NEW n \in Outgoing, Call(s, n)
      PROVE  /\ copies'[m] <= doubts'[m] + 1
             /\ outcome'[m] \in {"none", "raised"} \/ Attempting(m)' => copies'[m] <= doubts'[m]
             /\ outcome'[m] = "returned" \/ Marking(m)' => copies'[m] > 0
  <2>1. copies' = copies /\ doubts' = doubts
    BY <1>3 DEF Call, historyVars
  <2>2. CASE m = n
    <3>1. outcome[m] = "none" /\ outcome'[m] = "sending"
      BY <1>3, <2>2 DEF Call, DeliveryTypeOK
    <3>2. Marking(m)' => Marking(m)
      BY <1>3 DEF Call, DeliveryTypeOK, SendersTypeOK, Marking
    <3> QED
      BY <1>1, <2>1, <3>1, <3>2
  <2>3. CASE m # n
    <3>1. outcome'[m] = outcome[m]
      BY <1>3, <2>3 DEF Call, DeliveryTypeOK
    <3>2. (Marking(m)' => Marking(m)) /\ (Attempting(m)' => Attempting(m))
      BY <1>3, <2>3 DEF Call, DeliveryTypeOK, SendersTypeOK, Marking, Attempting
    <3> QED
      BY <1>1, <2>1, <3>1, <3>2
  <2> QED
    BY <2>2, <2>3
<1>4. ASSUME NEW s \in Senders, sender[s].pc # "idle",
             Put(s) \/ PutRaises(s) \/ Answered(s) \/ Refused(s) \/ AnswerLost(s) \/ Mark(s)
      PROVE  /\ copies'[m] <= doubts'[m] + 1
             /\ outcome'[m] \in {"none", "raised"} \/ Attempting(m)' => copies'[m] <= doubts'[m]
             /\ outcome'[m] = "returned" \/ Marking(m)' => copies'[m] > 0
  <2>1. CASE m # sender[s].msg
    BY <1>1, <1>4, <2>1, OthersKept
  <2>2. CASE m = sender[s].msg
    <3> USE <2>2
    <3>1. /\ sender[s].pc \in {"put", "try"} => copies[m] <= doubts[m]
          /\ sender[s].pc \in {"mark", "mark201"} => copies[m] > 0
      BY <1>1 DEF Attempting, Marking
    <3>2. /\ \A pc : Stays(s, pc) => /\ outcome'[m] = "sending"
                                     /\ Attempting(m)' => pc \in {"put", "try"}
                                     /\ Marking(m)' => pc \in {"mark", "mark201"}
          /\ \A result : Leave(s, result) => /\ outcome'[m] = result
                                             /\ ~Attempting(m)' /\ ~Marking(m)'
      BY <1>4, OwnMessage
    <3>3. CASE Put(s) \/ PutRaises(s) \/ Refused(s)
      <4>1. copies'[m] <= doubts'[m] /\ copies'[m] <= doubts'[m] + 1
        BY <1>1, <3>1, <3>3 DEF Put, PutRaises, Refused, historyVars
      <4>2. Stays(s, "try") \/ Leave(s, "raised")
        BY <3>3 DEF Put, PutRaises, Refused, Failed, Stays
      <4> QED
        BY <3>2, <4>1, <4>2
    <3>4. CASE Answered(s)
      <4>1. copies'[m] = Capped(copies[m]) /\ doubts'[m] = doubts[m] /\ copies[m] <= doubts[m]
        BY <3>1, <3>4 DEF Answered, Received, DeliveryTypeOK
      <4>2. copies'[m] <= doubts'[m] + 1 /\ copies'[m] > 0
        BY <1>1, <4>1, CappedFacts
      <4>3. Stays(s, "mark") \/ Stays(s, "mark201")
        BY <3>4 DEF Answered, Stays
      <4> QED
        BY <3>2, <4>2, <4>3
    <3>5. CASE AnswerLost(s)
      <4>1. /\ copies'[m] = Capped(copies[m]) /\ doubts'[m] = Capped(doubts[m])
            /\ copies[m] <= doubts[m]
        BY <3>1, <3>5 DEF AnswerLost, Received, InDoubt, DeliveryTypeOK
      <4>2. copies'[m] \in Nat /\ doubts'[m] \in Nat /\ copies'[m] <= doubts'[m]
        BY <1>1, <4>1, CappedFacts
      <4>3. Stays(s, "try") \/ Leave(s, "raised")
        BY <3>5 DEF AnswerLost, Failed, Stays
      <4> QED
        BY <3>2, <4>2, <4>3
    <3>6. CASE Settle(s)
      <4>1. copies' = copies /\ doubts' = doubts /\ copies[m] > 0 /\ Leave(s, "returned")
        BY <3>1, <3>6 DEF Settle
      <4> QED
        BY <1>1, <3>2, <4>1
    <3>7. CASE MarkRaises(s) \/ Mark201Raises(s)
      <4>1. copies' = copies /\ doubts'[m] = Capped(doubts[m])
        BY <3>7 DEF MarkRaises, Mark201Raises, InDoubt, DeliveryTypeOK
      <4>2. copies'[m] \in Nat /\ doubts'[m] \in Nat /\ copies'[m] <= doubts'[m]
        BY <1>1, <4>1, CappedFacts
      <4>3. Stays(s, "try") \/ Leave(s, "raised")
        BY <3>7 DEF MarkRaises, Mark201Raises, Failed, Stays
      <4> QED
        BY <3>2, <4>2, <4>3
    <3> QED
      BY <1>4, <3>3, <3>4, <3>5, <3>6, <3>7 DEF Mark
  <2> QED
    BY <2>1, <2>2
<1> QED
  BY <1>2, <1>3, <1>4, SenderMoves DEF DeliveryTypeOK

LEMMA DeliveryInvariant == ProducerSafety => []DeliveryInv
<1>1. ProducerInit => DeliveryInv
  <2> SUFFICES ASSUME ProducerInit PROVE DeliveryInv
    OBVIOUS
  <2>1. DeliveryTypeOK
    BY ProducerAssumption DEF ProducerInit, DeliveryTypeOK, SendersTypeOK, Idle
  <2>2. OneCall /\ CopiesCounted
    BY DEF ProducerInit, Idle, OneCall, CopiesCounted, Attempting, Marking
  <2> QED
    BY <2>1, <2>2 DEF DeliveryInv
<1>2. DeliveryInv /\ [ProducerNext]_prodVars => DeliveryInv'
  BY DeliveryTypeStep, OneCallStep, CopiesCountedStep DEF DeliveryInv
<1> QED
  BY <1>1, <1>2, PTL DEF ProducerSafety

(* The peer gets a second copy of a message only when an attempt that it    *)
(* had received failed on our side: for any number of senders, attempts,    *)
(* lost answers and raising statements.                                     *)
THEOREM CopiesOnlyInDoubtHolds == ProducerSafety => []CopiesOnlyInDoubt
<1>1. DeliveryInv => CopiesOnlyInDoubt
  BY DEF DeliveryInv, CopiesCounted, CopiesOnlyInDoubt
<1> QED
  BY <1>1, DeliveryInvariant, PTL

-----------------------------------------------------------------------------
(* No undelivered row of a message whose send has returned. *)
RowsTell == \A m \in Outgoing : outcome[m] = "returned" => \A r \in table : r.msg = m => r.done

LEMMA RowsTellStep ==
  ASSUME StoreTypeOK, DeliveryInv, RowsTell, [ProducerNext]_prodVars
  PROVE  RowsTell'
<1> USE DEF DeliveryInv, DeliveryTypeOK, SendersTypeOK
<1> SUFFICES ASSUME NEW m \in Outgoing, outcome'[m] = "returned",
                    NEW r \in table', r.msg = m
             PROVE  r.done
  BY DEF RowsTell
<1>1. ASSUME NEW s \in Senders, Settle(s)
      PROVE  r.done
  <2>1. PICK q \in table : r = IF q.dir = "out" /\ q.msg = sender[s].msg
                              THEN [q EXCEPT !.done = TRUE] ELSE q
    BY <1>1 DEF Settle, MarkDelivered, Delivered
  <2>2. q \in Row /\ q.msg = m
    BY <2>1 DEF StoreTypeOK, Row, InRow, OutRow
  <2>3. q.dir = "out"
    BY <2>2, StoreAssumption DEF Row, InRow, OutRow
  <2>4. CASE m = sender[s].msg
    BY <2>1, <2>2, <2>3, <2>4 DEF Row, InRow, OutRow
  <2>5. CASE m # sender[s].msg
    <3>1. outcome[m] = "returned"
      BY <1>1, <2>5 DEF Settle, Leave
    <3> QED
      BY <2>1, <2>2, <2>5, <3>1 DEF RowsTell
  <2> QED
    BY <2>4, <2>5
<1>2. ASSUME NEW s \in Senders, Put(s)
      PROVE  r.done
  <2>1. outcome[m] = "returned" /\ outcome[sender[s].msg] = "sending"
    BY <1>2 DEF Put, OneCall
  <2>2. r # NewRow(sender[s].msg, "out")
    BY <2>1 DEF NewRow
  <2> QED
    BY <1>2, <2>1, <2>2 DEF Put, PutOutgoing, RowsTell
<1>3. CASE Rotate
  BY <1>3 DEF Rotate, RotateSelect, RotateDelete, tableVars, producerVars, RowsTell
<1>4. CASE table' = table /\ outcome[m] = "returned"
  BY <1>4 DEF RowsTell
<1>5. ASSUME NEW s \in Senders, NEW n \in Outgoing, Call(s, n)
      PROVE  table' = table /\ outcome[m] = "returned"
  BY <1>5 DEF Call, storeVars
<1>6. ASSUME NEW s \in Senders, sender[s].pc # "idle",
             \/ PutRaises(s) \/ Answered(s) \/ Refused(s) \/ AnswerLost(s)
             \/ MarkRaises(s) \/ Mark201Raises(s)
      PROVE  table' = table /\ outcome[m] = "returned"
  <2>1. outcome' = outcome \/ Leave(s, "raised")
    BY <1>6 DEF PutRaises, Answered, Refused, AnswerLost, MarkRaises, Mark201Raises, Failed
  <2>2. table' = table
    BY <1>6 DEF PutRaises, Answered, Refused, AnswerLost, MarkRaises, Mark201Raises, storeVars
  <2> QED
    BY <2>1, <2>2 DEF Leave
<1>7. CASE UNCHANGED prodVars \/ Shutdown
  BY <1>4, <1>7 DEF Shutdown, prodVars, producerVars, storeVars
<1> QED
  BY <1>1, <1>2, <1>3, <1>4, <1>5, <1>6, <1>7 DEF ProducerNext, Mark, PutRaises, Answered,
     Refused, AnswerLost, MarkRaises, Mark201Raises

(* send tells the truth: it returns only when the peer has the message and  *)
(* no row says otherwise, and raises only when the peer has it not or an    *)
(* attempt is in doubt.                                                     *)
THEOREM ResultIsTrueHolds == ProducerSafety => []ResultIsTrue
<1>1. ProducerInit => RowsTell
  BY DEF ProducerInit, StoreInit, RowsTell
<1>2. StoreTypeOK /\ DeliveryInv /\ RowsTell /\ [ProducerNext]_prodVars => RowsTell'
  BY RowsTellStep
<1>3. DeliveryInv /\ RowsTell => ResultIsTrue
  <2> SUFFICES ASSUME DeliveryInv, RowsTell, NEW m \in Outgoing
               PROVE  /\ outcome[m] = "returned" => /\ copies[m] > 0
                                                    /\ \A r \in table : r.msg = m => r.done
                      /\ outcome[m] = "raised" => copies[m] = 0 \/ doubts[m] > 0
    BY DEF ResultIsTrue
  <2>1. copies[m] \in 0..MaxCount /\ doubts[m] \in 0..MaxCount /\ MaxCount \in Nat
    BY ProducerAssumption DEF DeliveryInv, DeliveryTypeOK
  <2> QED
    BY <2>1 DEF DeliveryInv, CopiesCounted, RowsTell
<1> QED
  BY <1>1, <1>2, <1>3, DeliveryInvariant, ProducerUsesStore, StoreTypeCorrect, PTL
     DEF ProducerSafety, UsesStore

-----------------------------------------------------------------------------
(* The retry state within its bounds: the index stays in the progression    *)
(* and the history below its cap.                                           *)
RetryBounded ==
  /\ interval \in [Senders -> Nat]
  /\ nextIndex \in [Senders -> 0..(Len(Progression) - 1)]
  /\ fails \in [Senders -> 0..MaxCount]
  /\ stop \in BOOLEAN

(* A failure keeps the index in the progression, whoever fails: next to the *)
(* last it stays where it is.                                               *)
LEMMA FailedBounded ==
  ASSUME RetryBounded, NEW s \in Senders, Failed(s), UNCHANGED stop
  PROVE  RetryBounded'
<1> USE DEF RetryBounded
<1>1. Len(Progression) \in Nat /\ Len(Progression) > 0
  BY ProducerAssumption
<1>2. fails' \in [Senders -> 0..MaxCount]
  BY CappedFacts DEF Failed
<1>3. CASE s \in NoRetry
  BY <1>2, <1>3 DEF Failed
<1>4. CASE s \notin NoRetry
  <2>1. nextIndex[s] + 1 \in 1..Len(Progression)
    BY <1>1
  <2>2. Progression[nextIndex[s] + 1] \in Nat
    BY <2>1, ProducerAssumption
  <2>3. interval' \in [Senders -> Nat]
    BY <1>4, <2>2 DEF Failed, BackOff, NextInterval
  <2>4. (IF nextIndex[s] < Len(Progression) - 1 THEN nextIndex[s] + 1 ELSE nextIndex[s])
          \in 0..(Len(Progression) - 1)
    BY <1>1
  <2>5. nextIndex' \in [Senders -> 0..(Len(Progression) - 1)]
    BY <1>4, <2>4 DEF Failed, BackOff
  <2> QED
    BY <1>2, <2>3, <2>5
<1> QED
  BY <1>3, <1>4

LEMMA RetryBoundedStep ==
  ASSUME RetryBounded, [ProducerNext]_prodVars
  PROVE  RetryBounded'
<1>1. ASSUME NEW s \in Senders, Refused(s) \/ AnswerLost(s) \/ MarkRaises(s)
      PROVE  RetryBounded'
  <2>1. Failed(s) /\ UNCHANGED stop
    BY <1>1 DEF Refused, AnswerLost, MarkRaises
  <2> QED
    BY <2>1, FailedBounded
<1>2. ASSUME NEW s \in Senders, Settle(s)
      PROVE  RetryBounded'
  <2>1. 0 \in 0..(Len(Progression) - 1) /\ 0 \in 0..MaxCount
    BY ProducerAssumption
  <2> QED
    BY <1>2, <2>1 DEF Settle, RetryBounded
<1>3. CASE UNCHANGED <<interval, nextIndex, fails>> /\ (stop' = stop \/ stop' = TRUE)
  BY <1>3 DEF RetryBounded
<1>4. \/ UNCHANGED <<interval, nextIndex, fails>> /\ (stop' = stop \/ stop' = TRUE)
      \/ \E s \in Senders : Refused(s) \/ AnswerLost(s) \/ MarkRaises(s) \/ Settle(s)
  BY DEF ProducerNext, prodVars, producerVars, historyVars, Call, Put, PutRaises, Answered, Mark,
     Mark201Raises, Shutdown, Rotate
<1> QED
  BY <1>1, <1>2, <1>3, <1>4

(* The type invariant of the producer holds of every reachable state: the   *)
(* index of a sender, for one, never leaves the progression, so that        *)
(* _get_next_interval does not raise, whatever fails.                       *)
THEOREM ProducerTypeCorrect == ProducerSafety => []ProducerTypeOK
<1>1. ProducerInit => RetryBounded
  <2> SUFFICES ASSUME ProducerInit PROVE RetryBounded
    OBVIOUS
  <2>1. Len(Progression) \in Nat /\ Len(Progression) > 0
    BY ProducerAssumption
  <2>2. 0 \in 0..(Len(Progression) - 1) /\ 0 \in 0..MaxCount
    BY <2>1, ProducerAssumption
  <2> QED
    BY <2>2 DEF ProducerInit, RetryBounded
<1>2. RetryBounded /\ [ProducerNext]_prodVars => RetryBounded'
  BY RetryBoundedStep
<1>3. DeliveryInv /\ RetryBounded => ProducerTypeOK
  BY DEF DeliveryInv, DeliveryTypeOK, SendersTypeOK, RetryBounded, ProducerTypeOK
<1> QED
  BY <1>1, <1>2, <1>3, DeliveryInvariant, PTL DEF ProducerSafety
=============================================================================
