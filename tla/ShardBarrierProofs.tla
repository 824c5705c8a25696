------------------------- MODULE ShardBarrierProofs -------------------------
(* Theorems about ShardBarrier, for any number of shards and of failures. *)
EXTENDS ShardBarrier, SequenceTheorems, TLAPS

(* What is said of a node is true of it. *)
WordsTrue ==
  \A i \in Shards :
    /\ phase[i] = "barrier" => i \in entered
    /\ ints[i] \subseteq entered
    /\ phase[i] \in {"listed", "barrier"} =>
         \A k \in Others(i) : table[i][k].ready => k \in entered

ReplicasAfterAll == replicas # {} => entered = Shards

BarrierInv ==
  /\ BarrierTypeOK
  /\ WordsTrue
  /\ EveryoneEntered
  /\ ReplicasAfterAll

-----------------------------------------------------------------------------
LEMMA StatusType ==
  ASSUME NEW a \in BOOLEAN, NEW b \in BOOLEAN, NEW n \in 0..MaxBoots
  PROVE  Status(a, b, n) \in Statuses /\ Status(a, b, n).ready = a
BY DEF Status, Statuses

LEMMA InitBarrierInv ==
  ASSUME BarrierInit
  PROVE  BarrierInv
<1> USE ShardAssumption DEF BarrierInit
<1>1. BarrierTypeOK
  <2>1. sent \in [Shards -> Seq(HostMessages)]
    BY EmptySeq
  <2> QED
    BY <2>1 DEF BarrierTypeOK, NoAddress
<1>2. WordsTrue /\ EveryoneEntered /\ ReplicasAfterAll
  BY DEF WordsTrue, EveryoneEntered, ReplicasAfterAll, Past
<1> QED
  BY <1>1, <1>2 DEF BarrierInv

(* The steps after which the loop of every node stands where it stood.      *)
LEMMA OutsideTypes ==
  ASSUME BarrierTypeOK, NEW i \in Shards,
         Boot(i) \/ ReplicaUp(i) \/ Arrive(i) \/ HandleEarly(i) \/ ConfigServerRuns(i)
           \/ HostUp(i) \/ HandleLate(i)
  PROVE  BarrierTypeOK'
<1> USE ShardAssumption DEF BarrierTypeOK, loopVars, mailVars
<1>1. CASE Boot(i)
  <2>1. [name |-> "HostInit", of |-> i, ip |-> ip[i] + 1] \in HostMessages
    BY <1>1 DEF Boot, HostMessages
  <2>2. sent' \in [Shards -> Seq(HostMessages)]
    BY <1>1, <2>1, AppendProperties DEF Boot, Broadcast
  <2>3. spared' \in [Shards -> SUBSET Shards]
    BY <1>1 DEF Boot, Past
  <2>4. ip' \in [Shards -> 0..MaxBoots]
    BY <1>1 DEF Boot
  <2>5. \A k \in Shards : phase'[k] \in {"listed", "barrier"} => phase[k] = phase'[k]
    BY <1>1 DEF Boot
  <2> QED
    BY <1>1, <2>2, <2>3, <2>4, <2>5 DEF Boot
<1>2. CASE ReplicaUp(i)
  BY <1>2 DEF ReplicaUp
<1>3. CASE Arrive(i)
  <2>1. Head(sent[i]) \in HostMessages /\ Tail(sent[i]) \in Seq(HostMessages)
    BY <1>3, HeadTailProperties DEF Arrive
  <2>2. Append(hosts[i], Head(sent[i])) \in Seq(HostMessages)
    BY <2>1, AppendProperties
  <2> QED
    BY <1>3, <2>1, <2>2 DEF Arrive
<1>4. CASE HandleEarly(i)
  <2>1. Tail(hosts[i]) \in Seq(HostMessages)
    BY <1>4, HeadTailProperties DEF HandleEarly
  <2> QED
    BY <1>4, <2>1 DEF HandleEarly
<1>5. CASE ConfigServerRuns(i) \/ HostUp(i)
  BY <1>5 DEF ConfigServerRuns, HostUp
<1>6. CASE HandleLate(i)
  BY <1>6, EmptySeq DEF HandleLate
<1> QED
  BY <1>1, <1>2, <1>3, <1>4, <1>5, <1>6

LEMMA FailTypes ==
  ASSUME BarrierTypeOK, NEW i \in Shards, Fail(i)
  PROVE  BarrierTypeOK'
<1> USE ShardAssumption DEF BarrierTypeOK, Fail
<1>1. PICK down \in HostMessages : down = [name |-> "HostDown", of |-> i, ip |-> ip[i]]
  BY DEF HostMessages
<1>2. sent' \in [Shards -> Seq(HostMessages)]
  <2>1. \A k \in Shards : Append(sent[k], down) \in Seq(HostMessages)
    BY AppendProperties
  <2>2. sent' = [k \in Shards |-> IF k = i THEN <<>>
                                  ELSE IF phase[k] # "off" THEN Append(sent[k], down) ELSE sent[k]]
    BY <1>1
  <2>3. <<>> \in Seq(HostMessages)
    BY EmptySeq
  <2>4. \A k \in Shards : sent[k] \in Seq(HostMessages)
    OBVIOUS
  <2> HIDE DEF BarrierTypeOK, Fail
  <2> QED
    BY <2>1, <2>2, <2>3, <2>4
<1>3. hosts' \in [Shards -> Seq(HostMessages)]
  BY EmptySeq
<1>4. spared' \in [Shards -> SUBSET Shards]
  OBVIOUS
<1>5. \A k \in Shards : phase'[k] \in {"listed", "barrier"} =>
        phase[k] = phase'[k] /\ table'[k] = table[k]
  OBVIOUS
<1> QED
  BY <1>2, <1>3, <1>4, <1>5

LEMMA LoopTypes ==
  ASSUME BarrierTypeOK, NEW i \in Shards,
         ListHosts(i) \/ Enter(i) \/ LoopStep(i) \/ \E k \in Others(i) : InformRaises(i, k)
  PROVE  BarrierTypeOK'
<1> USE ShardAssumption DEF BarrierTypeOK, loopVars, mailVars
<1>1. CASE ListHosts(i)
  <2>1. table'[i] \in [Others(i) -> Statuses]
    <3>1. ASSUME NEW k \in Others(i)
          PROVE  Status(FALSE, FALSE, IF k \in Listed(i) THEN ip[k] ELSE NoAddress) \in Statuses
      <4>1. (IF k \in Listed(i) THEN ip[k] ELSE NoAddress) \in 0..MaxBoots
        <5>1. ip[k] \in 0..MaxBoots
          BY DEF Others
        <5>2. NoAddress \in 0..MaxBoots
          BY DEF NoAddress
        <5> QED
          BY <5>1, <5>2
      <4> QED
        BY <4>1, StatusType
    <3> QED
      BY <1>1, <3>1 DEF ListHosts
  <2>2. spared' \in [Shards -> SUBSET Shards]
    BY <1>1 DEF ListHosts
  <2>3. \A k \in Shards \ {i} : phase'[k] = phase[k] /\ table'[k] = table[k]
    BY <1>1 DEF ListHosts
  <2>4. phase' \in [Shards -> {"off", "booted", "listed", "barrier", "config", "router", "up"}]
    BY <1>1 DEF ListHosts
  <2>5. DOMAIN table' = Shards /\ UNCHANGED <<ip, replicas, step, todo, mailVars, entered>>
    BY <1>1 DEF ListHosts
  <2>6. \A k \in Shards : phase'[k] \in {"listed", "barrier"} => table'[k] \in [Others(k) -> Statuses]
    BY <2>1, <2>3
  <2> QED
    BY <2>2, <2>4, <2>5, <2>6
<1>2. CASE Enter(i)
  <2>1. Uninformed(i, table[i]) \subseteq Shards /\ i \notin Uninformed(i, table[i])
    BY DEF Uninformed, Others
  <2> QED
    BY <1>2, <2>1 DEF Enter
<1>3. CASE Informed(i)
  BY <1>3 DEF Informed
<1>4. CASE HandleHosts(i)
  <2>1. table[i] \in [Others(i) -> Statuses]
    BY <1>4 DEF HandleHosts
  <2>2. ASSUME NEW k \in Others(i), Latest(i, k) # {}
        PROVE  StatusOf(hosts[i][CHOOSE n \in Latest(i, k) : TRUE]) \in Statuses
    <3>1. (CHOOSE n \in Latest(i, k) : TRUE) \in DOMAIN hosts[i]
      BY <2>2 DEF Latest, About
    <3>2. hosts[i][CHOOSE n \in Latest(i, k) : TRUE] \in HostMessages
      BY <3>1, ElementOfSeq, LenProperties
    <3>3. ASSUME NEW m \in HostMessages PROVE StatusOf(m) \in Statuses
      <4>1. (IF m.name = "HostInit" THEN m.ip ELSE NoAddress) \in 0..MaxBoots
        BY DEF HostMessages, NoAddress
      <4> QED
        BY <4>1, StatusType DEF StatusOf
    <3> QED
      BY <3>2, <3>3
  <2>3. table'[i] \in [Others(i) -> Statuses]
    BY <1>4, <2>1, <2>2 DEF HandleHosts
  <2>4. spared' \in [Shards -> SUBSET Shards] /\ hosts' \in [Shards -> Seq(HostMessages)]
    BY <1>4, EmptySeq DEF HandleHosts, Others
  <2> QED
    BY <1>4, <2>3, <2>4 DEF HandleHosts
<1>5. CASE HandleInts(i)
  <2>1. table[i] \in [Others(i) -> Statuses]
    BY <1>5 DEF HandleInts
  <2>2. Heard(i) \in [Others(i) -> Statuses]
    BY <2>1, StatusType DEF Heard, Statuses
  <2>3. Uninformed(i, Heard(i)) \subseteq Shards /\ i \notin Uninformed(i, Heard(i))
    BY DEF Uninformed, Others
  <2>4. spared' \in [Shards -> SUBSET Shards]
    BY <1>5 DEF HandleInts
  <2>5. \A k \in Shards \ {i} : phase'[k] = phase[k] /\ table'[k] = table[k]
    BY <1>5 DEF HandleInts
  <2>6. phase' \in [Shards -> {"off", "booted", "listed", "barrier", "config", "router", "up"}]
    BY <1>5 DEF HandleInts
  <2>7. /\ todo' \in [Shards -> SUBSET Shards] /\ \A k \in Shards : k \notin todo'[k]
        /\ step' \in [Shards -> {"notify", "hosts", "ints"}]
        /\ ints' \in [Shards -> SUBSET Shards]
        /\ DOMAIN table' = Shards /\ table'[i] = Heard(i)
        /\ UNCHANGED <<ip, replicas, sent, hosts, entered>>
    BY <1>5, <2>3 DEF HandleInts
  <2> QED
    BY <2>2, <2>4, <2>5, <2>6, <2>7
<1>6. ASSUME NEW k \in Others(i), Inform(i, k)
      PROVE  BarrierTypeOK'
  <2>1. table[i] \in [Others(i) -> Statuses]
    BY <1>6 DEF Inform
  <2>2. [table[i][k] EXCEPT !.notified = TRUE] \in Statuses
    BY <2>1 DEF Statuses
  <2>3. table' = [table EXCEPT ![i] = [table[i] EXCEPT ![k] = [table[i][k] EXCEPT !.notified = TRUE]]]
    BY <1>6 DEF Inform
  <2>4. table'[i] \in [Others(i) -> Statuses]
    BY <2>1, <2>2, <2>3
  <2>5. \A n \in Shards \ {i} : table'[n] = table[n]
    BY <2>3
  <2>6. DOMAIN table' = Shards
    BY <2>3
  <2>7. /\ todo' \in [Shards -> SUBSET Shards] /\ \A n \in Shards : n \notin todo'[n]
        /\ ints' \in [Shards -> SUBSET Shards]
        /\ UNCHANGED <<phase, ip, replicas, step, sent, hosts, entered, spared>>
    BY <1>6 DEF Inform, Others
  <2> QED
    BY <2>4, <2>5, <2>6, <2>7
<1>7. ASSUME NEW k \in Others(i), InformRaises(i, k)
      PROVE  BarrierTypeOK'
  <2>1. todo' \in [Shards -> SUBSET Shards] /\ \A n \in Shards : n \notin todo'[n]
    BY <1>7 DEF InformRaises
  <2>2. ints' \in [Shards -> SUBSET Shards]
    <3>1. ints' = ints \/ ints' = [ints EXCEPT ![k] = @ \cup {i}]
      BY <1>7 DEF InformRaises
    <3>2. [ints EXCEPT ![k] = @ \cup {i}] \in [Shards -> SUBSET Shards]
      BY DEF Others
    <3> QED
      BY <3>1, <3>2
  <2>3. UNCHANGED <<phase, ip, replicas, step, table, sent, hosts, entered, spared>>
    BY <1>7 DEF InformRaises
  <2> QED
    BY <2>1, <2>2, <2>3
<1> QED
  BY <1>1, <1>2, <1>3, <1>4, <1>5, <1>6, <1>7 DEF LoopStep

-----------------------------------------------------------------------------
(* A node gets to the router by a barrier that all were in, or by a host    *)
(* that is Running.                                                         *)
LEMMA RunningAfterAll ==
  ASSUME BarrierInv, Running # {} \/ phase[0] = "up"
  PROVE  entered = Shards
BY ShardAssumption DEF BarrierInv, Running, EveryoneEntered, ReplicasAfterAll, Past

LEMMA OutsideWords ==
  ASSUME BarrierInv, NEW i \in Shards,
         Boot(i) \/ Fail(i) \/ ReplicaUp(i) \/ Arrive(i) \/ HandleEarly(i)
           \/ ConfigServerRuns(i) \/ HostUp(i) \/ HandleLate(i)
  PROVE  WordsTrue' /\ EveryoneEntered' /\ ReplicasAfterAll'
<1> USE DEF BarrierInv
<1>1. /\ entered' = entered
      /\ \A k \in Shards : phase'[k] \in {"listed", "barrier"} =>
           phase'[k] = phase[k] /\ table'[k] = table[k]
      /\ \A k \in Shards : ints'[k] \subseteq ints[k]
  BY DEF BarrierTypeOK, Boot, Fail, ReplicaUp, Arrive, HandleEarly, ConfigServerRuns, HostUp,
       HandleLate, loopVars, mailVars
<1>2. WordsTrue'
  BY <1>1 DEF WordsTrue
<1>3. Past' \subseteq Past
  BY DEF Past, BarrierTypeOK, Boot, Fail, ReplicaUp, Arrive, HandleEarly, ConfigServerRuns,
       HostUp, HandleLate, loopVars, mailVars
<1>4. EveryoneEntered'
  BY <1>1, <1>3 DEF EveryoneEntered
<1>5. replicas' = replicas \/ phase[0] = "up"
  BY DEF Boot, Fail, ReplicaUp, Arrive, HandleEarly, ConfigServerRuns, HostUp, HandleLate
<1>6. ReplicasAfterAll'
  BY <1>1, <1>5, RunningAfterAll DEF ReplicasAfterAll
<1> QED
  BY <1>2, <1>4, <1>6

LEMMA LoopWords ==
  ASSUME BarrierInv, NEW i \in Shards,
         ListHosts(i) \/ Enter(i) \/ LoopStep(i) \/ \E k \in Others(i) : InformRaises(i, k)
  PROVE  WordsTrue' /\ EveryoneEntered' /\ ReplicasAfterAll'
<1> USE DEF BarrierInv
<1>0. replicas' = replicas /\ entered \subseteq entered' /\ entered' \subseteq Shards
  BY DEF BarrierTypeOK, ListHosts, Enter, LoopStep, Inform, InformRaises, Informed, HandleHosts,
       HandleInts
<1>1. ReplicasAfterAll'
  BY <1>0 DEF ReplicasAfterAll
<1>2. CASE ListHosts(i)
  <2>1. /\ entered' = entered /\ ints' = ints
        /\ \A k \in Shards \ {i} : phase'[k] = phase[k] /\ table'[k] = table[k]
        /\ phase'[i] # "barrier"
        /\ phase'[i] # "listed" => Running # {} \/ phase[0] = "up"
    BY <1>2 DEF BarrierTypeOK, ListHosts, mailVars
  <2>2. \A k \in Others(i) : table'[i][k].ready = FALSE
    BY <1>2 DEF BarrierTypeOK, ListHosts, Status
  <2>3. WordsTrue'
    BY <2>1, <2>2 DEF WordsTrue
  <2>4. Past' \subseteq Past \/ entered = Shards
    BY <2>1, RunningAfterAll DEF Past
  <2> QED
    BY <1>1, <2>1, <2>3, <2>4 DEF EveryoneEntered
<1>3. CASE Enter(i)
  <2>1. /\ entered' = entered \cup {i} /\ ints' = ints /\ table' = table
        /\ phase' = [phase EXCEPT ![i] = "barrier"] /\ phase[i] = "listed"
    BY <1>3 DEF Enter, mailVars
  <2>2. WordsTrue'
    BY <2>1 DEF WordsTrue, BarrierTypeOK
  <2>3. Past' \subseteq Past
    BY <2>1 DEF Past, BarrierTypeOK
  <2> QED
    BY <1>0, <1>1, <2>2, <2>3 DEF EveryoneEntered
<1>4. CASE Informed(i)
  BY <1>1, <1>4 DEF Informed, WordsTrue, EveryoneEntered, Past, mailVars
<1>5. CASE HandleHosts(i)
  <2>1. /\ UNCHANGED <<phase, ints, entered>>
        /\ \A k \in Shards \ {i} : table'[k] = table[k]
    BY <1>5 DEF HandleHosts, BarrierTypeOK
  <2>2. \A k \in Others(i) : table'[i][k].ready => table[i][k].ready
    <3>1. \A m : ~StatusOf(m).ready
      BY DEF StatusOf, Status
    <3> QED
      BY <1>5, <3>1 DEF HandleHosts, BarrierTypeOK
  <2>3. phase[i] = "barrier"
    BY <1>5 DEF HandleHosts
  <2> QED
    BY <1>1, <2>1, <2>2, <2>3 DEF WordsTrue, EveryoneEntered, Past
<1>6. CASE HandleInts(i)
  <2>1. /\ entered' = entered /\ phase[i] = "barrier"
        /\ phase' = [phase EXCEPT ![i] = IF Ready(i) THEN "router" ELSE @]
        /\ \A k \in Shards \ {i} : table'[k] = table[k]
        /\ table'[i] = Heard(i)
        /\ \A k \in Shards : ints'[k] \subseteq ints[k]
    BY <1>6 DEF HandleInts, BarrierTypeOK
  <2>2. \A k \in Others(i) : Heard(i)[k].ready => k \in entered
    BY <2>1 DEF Heard, WordsTrue, Status
  <2>3. WordsTrue'
    <3>1. \A k \in Shards : phase'[k] \in {"listed", "barrier"} => phase'[k] = phase[k]
      BY <2>1 DEF BarrierTypeOK
    <3> QED
      BY <2>1, <2>2, <3>1 DEF WordsTrue
  <2>4. Ready(i) => entered = Shards
    <3>1. i \in entered
      BY <2>1 DEF WordsTrue
    <3> QED
      BY <2>2, <3>1 DEF Ready, Others, BarrierTypeOK
  <2>5. Past' \subseteq Past \/ entered = Shards
    BY <2>1, <2>4 DEF Past, BarrierTypeOK
  <2> QED
    BY <1>1, <2>1, <2>3, <2>5 DEF EveryoneEntered
<1>7. ASSUME NEW k \in Others(i), Inform(i, k) \/ InformRaises(i, k)
      PROVE  WordsTrue' /\ EveryoneEntered' /\ ReplicasAfterAll'
  <2>1. phase' = phase /\ entered' = entered /\ phase[i] = "barrier"
    BY <1>7 DEF Inform, InformRaises
  <2>2. \A n \in Shards : ints'[n] \subseteq ints[n] \cup {i}
    <3>1. ints' = ints \/ ints' = [ints EXCEPT ![k] = @ \cup {i}]
      BY <1>7 DEF Inform, InformRaises
    <3> QED
      BY <3>1 DEF BarrierTypeOK
  <2>3. \A n \in Shards \ {i} : table'[n] = table[n]
    BY <1>7 DEF Inform, InformRaises, BarrierTypeOK
  <2>4. \A n \in Others(i) : table'[i][n].ready = table[i][n].ready
    <3>1. CASE Inform(i, k)
      <4>1. table[i] \in [Others(i) -> Statuses]
        BY <2>1 DEF BarrierTypeOK
      <4>2. table'[i] = [table[i] EXCEPT ![k] = [table[i][k] EXCEPT !.notified = TRUE]]
        BY <3>1 DEF Inform, BarrierTypeOK
      <4>3. [table[i][k] EXCEPT !.notified = TRUE].ready = table[i][k].ready
        BY <4>1 DEF Statuses
      <4> QED
        BY <4>1, <4>2, <4>3
    <3>2. CASE InformRaises(i, k)
      BY <3>2 DEF InformRaises
    <3> QED
      BY <1>7, <3>1, <3>2
  <2>5. WordsTrue'
    BY <2>1, <2>2, <2>3, <2>4 DEF WordsTrue
  <2> QED
    BY <1>1, <2>1, <2>5 DEF EveryoneEntered, Past
<1> QED
  BY <1>2, <1>3, <1>4, <1>5, <1>6, <1>7 DEF LoopStep

-----------------------------------------------------------------------------
LEMMA StutterBarrierInv ==
  ASSUME BarrierInv, UNCHANGED barrierVars
  PROVE  BarrierInv'
BY DEF BarrierInv, barrierVars, loopVars, mailVars, BarrierTypeOK, WordsTrue, EveryoneEntered,
     ReplicasAfterAll, Past

(* The types of the barrier with what makes it one. *)
THEOREM BarrierInvariant == BarrierSpec => []BarrierInv
<1>1. BarrierInit => BarrierInv
  BY InitBarrierInv
<1>2. BarrierInv /\ [BarrierNext]_barrierVars => BarrierInv'
  <2> SUFFICES ASSUME BarrierInv, [BarrierNext]_barrierVars
               PROVE  BarrierInv'
    OBVIOUS
  <2>1. CASE UNCHANGED barrierVars
    BY <2>1, StutterBarrierInv
  <2>2. ASSUME NEW i \in Shards,
               Boot(i) \/ Fail(i) \/ ReplicaUp(i) \/ Arrive(i) \/ HandleEarly(i)
                 \/ ConfigServerRuns(i) \/ HostUp(i) \/ HandleLate(i)
        PROVE  BarrierInv'
    BY <2>2, OutsideTypes, FailTypes, OutsideWords DEF BarrierInv
  <2>3. ASSUME NEW i \in Shards,
               ListHosts(i) \/ Enter(i) \/ LoopStep(i) \/ \E k \in Others(i) : InformRaises(i, k)
        PROVE  BarrierInv'
    BY <2>3, LoopTypes, LoopWords DEF BarrierInv
  <2> QED
    BY <2>1, <2>2, <2>3 DEF BarrierNext, NodeStep
<1> QED
  BY <1>1, <1>2, PTL DEF BarrierSpec

(* The types of a node's way from HostInit to HostUp, for any shards: the   *)
(* status table of a node that waits has the other shards, and no more.     *)
THEOREM BarrierTypes == BarrierSpec => []BarrierTypeOK
<1>1. BarrierInv => BarrierTypeOK
  BY DEF BarrierInv
<1> QED
  BY <1>1, BarrierInvariant, PTL

(* In on_before_host_up no node goes on before the node of every shard has  *)
(* been in the barrier, for any number of shards and failures.              *)
THEOREM BarrierHolds == BarrierSpec => []EveryoneEntered
<1>1. BarrierInv => EveryoneEntered
  BY DEF BarrierInv
<1> QED
  BY <1>1, BarrierInvariant, PTL

-----------------------------------------------------------------------------
(* What a node in the barrier waits for is on its way, or will be. *)

Word(i, addr) == [name |-> "HostInit", of |-> i, ip |-> addr]
Silent(s, i) == \A n \in DOMAIN s : s[n].of # i

(* The last word of s about node i is that it has booted at addr.            *)
EndsWith(s, i, addr) ==
  \E n \in DOMAIN s :
    s[n] = Word(i, addr) /\ \A n2 \in DOMAIN s : n2 > n => s[n2].of # i

OnTheWay == {"booted", "listed", "barrier"}
HasTable(k) == phase[k] \in {"listed", "barrier"}

(* Node i has k's message, or has had it.                                    *)
HasWord(i, k) == k \in ints[i] \/ (HasTable(i) /\ table[i][k].ready)

(* Node k will send its message to the instance of i that waits: it has its  *)
(* address and has not informed it, or the address is the last it will hear. *)
WillTell(k, i) ==
  \/ EndsWith(sent[k], i, ip[i])
  \/ Silent(sent[k], i) /\ EndsWith(hosts[k], i, ip[i])
  \/ /\ Silent(sent[k], i) /\ Silent(hosts[k], i)
     /\ table[k][i].ip = ip[i] /\ ~table[k][i].notified

(* A node in the barrier has the word of every other; or that one has yet to *)
(* list its hosts, or will tell it; or is known to spare it.                 *)
WordOwed ==
  \A i \in Shards : \A k \in Others(i) :
    phase[i] = "barrier" /\ k \notin spared[i] =>
      \/ HasWord(i, k)
      \/ phase[k] \in {"off", "booted"}
      \/ HasTable(k) /\ WillTell(k, i)

(* No message of s is of an instance later than the one f names.             *)
AtMost(s, f) == \A n \in DOMAIN s : s[n].ip <= f[s[n].of]

(* Who is off gets no messages, and nothing names an instance to come.       *)
NoLaterAddress ==
  \A k \in Shards :
    /\ phase[k] = "off" => sent[k] = <<>> /\ hosts[k] = <<>>
    /\ AtMost(sent[k], ip) /\ AtMost(hosts[k], ip)
    /\ HasTable(k) => \A i \in Others(k) : table[k][i].ip <= ip[i]

(* The last that a node hears of one that is on is its address.              *)
KnowsAddress(k, i) ==
  \/ EndsWith(sent[k], i, ip[i])
  \/ Silent(sent[k], i) /\ EndsWith(hosts[k], i, ip[i])
  \/ /\ Silent(sent[k], i) /\ Silent(hosts[k], i)
     /\ HasTable(k) => table[k][i].ip = ip[i]

AddressKnown ==
  \A k \in Shards : \A i \in Others(k) :
    phase[k] \in OnTheWay /\ phase[i] # "off" => KnowsAddress(k, i)

(* Nobody is informed before the barrier, and who is ready is informed.      *)
ReadyIsNotified ==
  \A k \in Shards : \A i \in Others(k) :
    /\ phase[k] = "listed" => ~table[k][i].notified
    /\ HasTable(k) /\ table[k][i].ready => table[k][i].notified

(* Who was informed, by a node that it does not know to spare it, knows.     *)
NotifiedKnows ==
  \A i \in Shards : \A k \in Others(i) :
    /\ phase[i] \in OnTheWay /\ k \notin spared[i]
    /\ HasTable(k) /\ table[k][i].ip = ip[i] /\ table[k][i].notified
    => HasWord(i, k)

(* Who has left the barrier has told those that it does not spare.           *)
PastHasTold ==
  \A i \in Shards : \A k \in Others(i) :
    phase[i] \in OnTheWay /\ k \notin spared[i] /\ k \in Past => HasWord(i, k)

OwedInv == NoLaterAddress /\ AddressKnown /\ ReadyIsNotified /\ NotifiedKnows /\ PastHasTold

LEMMA InitOwedInv ==
  ASSUME BarrierInit
  PROVE  OwedInv
<1>1. \A i \in Shards : phase[i] = "off" /\ sent[i] = <<>> /\ hosts[i] = <<>>
  BY DEF BarrierInit
<1>2. NoLaterAddress
  BY <1>1 DEF NoLaterAddress, HasTable, AtMost
<1>3. AddressKnown
  BY <1>1 DEF AddressKnown, Others
<1>4. ReadyIsNotified
  BY <1>1 DEF ReadyIsNotified, HasTable
<1>5. NotifiedKnows /\ PastHasTold
  BY <1>1 DEF NotifiedKnows, PastHasTold, OnTheWay
<1> QED
  BY <1>2, <1>3, <1>4, <1>5 DEF OwedInv

(* Messages to the nodes: what Append and Tail do to the last word.          *)
LEMMA AppendedWord ==
  ASSUME NEW s \in Seq(HostMessages), NEW m \in HostMessages, NEW i \in Shards,
         NEW addr \in 0..MaxBoots
  PROVE  /\ m = Word(i, addr) => EndsWith(Append(s, m), i, addr)
         /\ m.of # i /\ EndsWith(s, i, addr) => EndsWith(Append(s, m), i, addr)
         /\ m.of # i /\ Silent(s, i) => Silent(Append(s, m), i)
<1> DEFINE t == Append(s, m)
<1>1. /\ DOMAIN s = 1..Len(s) /\ Len(s) \in Nat
      /\ DOMAIN t = 1..(Len(s) + 1)
      /\ \A n \in DOMAIN s : t[n] = s[n]
      /\ t[Len(s) + 1] = m
  BY AppendProperties, LenProperties
<1> HIDE DEF t
<1>2. ASSUME m = Word(i, addr) PROVE EndsWith(t, i, addr)
  BY <1>1, <1>2 DEF EndsWith
<1>3. ASSUME m.of # i, EndsWith(s, i, addr) PROVE EndsWith(t, i, addr)
  <2>1. PICK n \in DOMAIN s : s[n] = Word(i, addr) /\ \A n2 \in DOMAIN s : n2 > n => s[n2].of # i
    BY <1>3 DEF EndsWith
  <2>2. n \in DOMAIN t /\ t[n] = Word(i, addr)
    BY <1>1, <2>1
  <2>3. ASSUME NEW n2 \in DOMAIN t, n2 > n PROVE t[n2].of # i
    BY <1>1, <1>3, <2>1, <2>3
  <2> QED
    BY <2>2, <2>3 DEF EndsWith
<1>4. ASSUME m.of # i, Silent(s, i) PROVE Silent(t, i)
  BY <1>1, <1>4 DEF Silent
<1> QED
  BY <1>2, <1>3, <1>4 DEF t

LEMMA TailedWord ==
  ASSUME NEW s \in Seq(HostMessages), s # <<>>, NEW i \in Shards, NEW addr \in 0..MaxBoots
  PROVE  /\ Head(s) \in HostMessages /\ Tail(s) \in Seq(HostMessages)
         /\ EndsWith(s, i, addr) =>
              \/ EndsWith(Tail(s), i, addr)
              \/ Head(s) = Word(i, addr) /\ Silent(Tail(s), i)
         /\ Silent(s, i) => Head(s).of # i /\ Silent(Tail(s), i)
<1> DEFINE t == Tail(s)
<1>1. /\ DOMAIN s = 1..Len(s) /\ Len(s) \in Nat /\ Len(s) # 0
      /\ t \in Seq(HostMessages) /\ Len(t) = Len(s) - 1
      /\ Head(s) \in HostMessages /\ Head(s) = s[1]
      /\ \A n \in 1..Len(t) : t[n] = s[n + 1]
  BY HeadTailProperties, LenProperties, EmptySeq
<1>2. DOMAIN t = 1..(Len(s) - 1)
  BY <1>1, LenProperties
<1> HIDE DEF t
<1>3. ASSUME EndsWith(s, i, addr)
      PROVE  EndsWith(t, i, addr) \/ (Head(s) = Word(i, addr) /\ Silent(t, i))
  <2>1. PICK n \in DOMAIN s : s[n] = Word(i, addr) /\ \A n2 \in DOMAIN s : n2 > n => s[n2].of # i
    BY <1>3 DEF EndsWith
  <2>2. CASE n = 1
    <3>1. \A n2 \in DOMAIN t : n2 + 1 \in DOMAIN s /\ n2 + 1 > n /\ t[n2] = s[n2 + 1]
      BY <1>1, <1>2, <2>2
    <3> QED
      BY <1>1, <2>1, <2>2, <3>1 DEF Silent
  <2>3. CASE n # 1
    <3>1. n - 1 \in DOMAIN t /\ t[n - 1] = s[n]
      BY <1>1, <1>2, <2>3
    <3>2. \A n2 \in DOMAIN t : n2 > n - 1 => n2 + 1 \in DOMAIN s /\ n2 + 1 > n /\ t[n2] = s[n2 + 1]
      BY <1>1, <1>2, <2>3
    <3> QED
      BY <2>1, <3>1, <3>2 DEF EndsWith
  <2> QED
    BY <2>2, <2>3
<1>4. ASSUME Silent(s, i) PROVE Head(s).of # i /\ Silent(t, i)
  <2>1. \A n \in DOMAIN t : n + 1 \in DOMAIN s /\ t[n] = s[n + 1]
    BY <1>1, <1>2
  <2>2. 1 \in DOMAIN s
    BY <1>1
  <2> QED
    BY <1>1, <1>4, <2>1, <2>2 DEF Silent
<1> QED
  BY <1>1, <1>3, <1>4 DEF t

(* What HandleHosts makes of the last word, or of none.                      *)
LEMMA LatestWord ==
  ASSUME NEW i \in Shards, NEW k \in Shards, hosts[i] \in Seq(HostMessages),
         NEW addr \in 0..MaxBoots
  PROVE  /\ Silent(hosts[i], k) => Latest(i, k) = {}
         /\ EndsWith(hosts[i], k, addr) =>
              /\ Latest(i, k) # {}
              /\ StatusOf(hosts[i][CHOOSE n \in Latest(i, k) : TRUE]) = Status(FALSE, FALSE, addr)
<1>1. ASSUME Silent(hosts[i], k) PROVE Latest(i, k) = {}
  BY <1>1 DEF Silent, Latest, About
<1>2. ASSUME EndsWith(hosts[i], k, addr)
      PROVE  /\ Latest(i, k) # {}
             /\ StatusOf(hosts[i][CHOOSE n \in Latest(i, k) : TRUE]) = Status(FALSE, FALSE, addr)
  <2>1. PICK n \in DOMAIN hosts[i] :
               /\ hosts[i][n] = Word(k, addr)
               /\ \A n2 \in DOMAIN hosts[i] : n2 > n => hosts[i][n2].of # k
    BY <1>2 DEF EndsWith
  <2>2. DOMAIN hosts[i] = 1..Len(hosts[i]) /\ Len(hosts[i]) \in Nat
    BY LenProperties
  <2>3. n \in About(i, k)
    BY <2>1 DEF About, Word
  <2>4. \A n2 \in About(i, k) : n2 <= n
    BY <2>1, <2>2 DEF About
  <2>5. n \in Latest(i, k)
    BY <2>3, <2>4 DEF Latest
  <2>6. \A n2 \in Latest(i, k) : n2 = n
    <3>1. \A n2 \in Latest(i, k) : n <= n2 /\ n2 <= n /\ n2 \in DOMAIN hosts[i]
      BY <2>3, <2>4 DEF Latest, About
    <3> QED
      BY <2>2, <3>1
  <2>7. (CHOOSE n2 \in Latest(i, k) : TRUE) = n
    BY <2>5, <2>6
  <2>8. StatusOf(Word(k, addr)) = Status(FALSE, FALSE, addr)
    BY DEF StatusOf, Word
  <2>9. Latest(i, k) # {}
    BY <2>5
  <2>10. hosts[i][CHOOSE n2 \in Latest(i, k) : TRUE] = Word(k, addr)
    BY <2>1, <2>7
  <2> QED
    BY <2>8, <2>9, <2>10
<1> QED
  BY <1>1, <1>2

-----------------------------------------------------------------------------
(* A step of node j, or of Scalr and the network about it.                   *)
StepOf(j) ==
  \/ Boot(j) \/ Fail(j) \/ ReplicaUp(j) \/ Arrive(j) \/ NodeStep(j) \/ LoopStep(j)
  \/ \E k \in Others(j) : InformRaises(j, k)

(* It leaves the others as they are, but for messages they get.              *)
LEMMA Bystanders ==
  ASSUME BarrierTypeOK, NEW j \in Shards, StepOf(j)
  PROVE  /\ \A n \in Shards \ {j} :
              /\ phase'[n] = phase[n] /\ ip'[n] = ip[n] /\ table'[n] = table[n]
              /\ hosts'[n] = hosts[n] /\ ints[n] \subseteq ints'[n]
         /\ \A n \in Shards : ip[n] \in Nat /\ ip'[n] \in Nat /\ ip[n] <= ip'[n]
<1> DEFINE Kept(n) == /\ phase'[n] = phase[n] /\ ip'[n] = ip[n] /\ table'[n] = table[n]
                      /\ hosts'[n] = hosts[n] /\ ints[n] \subseteq ints'[n]
<1>0. /\ \A n \in Shards : ip[n] \in Nat
      /\ DOMAIN phase = Shards /\ DOMAIN ip = Shards /\ DOMAIN table = Shards
      /\ DOMAIN hosts = Shards /\ DOMAIN ints = Shards
  BY ShardAssumption DEF BarrierTypeOK
<1> USE DEF loopVars, mailVars
<1>1. CASE Boot(j)
  <2>1. \A n \in Shards \ {j} : Kept(n)
    BY <1>0, <1>1 DEF Boot
  <2>2. \A n \in Shards : ip'[n] = ip[n] \/ ip'[n] = ip[n] + 1
    BY <1>0, <1>1 DEF Boot
  <2>3. \A n \in Shards : ip[n] \in Nat /\ ip'[n] \in Nat /\ ip[n] <= ip'[n]
    BY <1>0, <2>2
  <2> QED
    BY <2>1, <2>3
<1>2. ASSUME ip' = ip, \A n \in Shards \ {j} : Kept(n)
      PROVE  \A n \in Shards : ip[n] \in Nat /\ ip'[n] \in Nat /\ ip[n] <= ip'[n]
  BY <1>0, <1>2
<1>3. CASE Fail(j)
  <2>1. ip' = ip /\ \A n \in Shards \ {j} : Kept(n)
    BY <1>0, <1>3 DEF Fail
  <2> QED
    BY <1>2, <2>1
<1>4. CASE ReplicaUp(j) \/ Arrive(j) \/ HandleEarly(j) \/ ConfigServerRuns(j) \/ HostUp(j)
             \/ HandleLate(j)
  <2>1. ip' = ip /\ \A n \in Shards \ {j} : Kept(n)
    BY <1>0, <1>4 DEF ReplicaUp, Arrive, HandleEarly, ConfigServerRuns, HostUp, HandleLate
  <2> QED
    BY <1>2, <2>1
<1>5. CASE ListHosts(j) \/ Enter(j)
  <2>1. ip' = ip /\ hosts' = hosts /\ ints' = ints
    BY <1>5 DEF ListHosts, Enter
  <2>2. \A n \in Shards \ {j} : phase'[n] = phase[n] /\ table'[n] = table[n]
    BY <1>0, <1>5 DEF ListHosts, Enter
  <2> QED
    BY <1>2, <2>1, <2>2
<1>6. CASE Informed(j) \/ HandleHosts(j) \/ HandleInts(j)
  <2>1. ip' = ip /\ \A n \in Shards \ {j} : Kept(n)
    BY <1>0, <1>6 DEF Informed, HandleHosts, HandleInts
  <2> QED
    BY <1>2, <2>1
<1>7. ASSUME NEW k \in Others(j), Inform(j, k) \/ InformRaises(j, k)
      PROVE  ip' = ip /\ \A n \in Shards \ {j} : Kept(n)
  <2>1. /\ UNCHANGED <<phase, ip, hosts>>
        /\ \A n \in Shards \ {j} : table'[n] = table[n]
    BY <1>0, <1>7 DEF Inform, InformRaises
  <2>2. ints' = ints \/ ints' = [ints EXCEPT ![k] = ints[k] \cup {j}]
    BY <1>7 DEF Inform, InformRaises
  <2>3. \A n \in Shards : ints[n] \subseteq ints'[n]
    BY <1>0, <2>2 DEF Others
  <2> QED
    BY <2>1, <2>3
<1>8. CASE \E k \in Others(j) : Inform(j, k) \/ InformRaises(j, k)
  <2>1. ip' = ip /\ \A n \in Shards \ {j} : Kept(n)
    BY <1>7, <1>8
  <2> QED
    BY <1>2, <2>1
<1>9. \/ Boot(j) \/ Fail(j) \/ ReplicaUp(j) \/ Arrive(j) \/ HandleEarly(j) \/ ConfigServerRuns(j)
      \/ HostUp(j) \/ HandleLate(j) \/ ListHosts(j) \/ Enter(j) \/ Informed(j) \/ HandleHosts(j)
      \/ HandleInts(j) \/ \E k \in Others(j) : Inform(j, k) \/ InformRaises(j, k)
  BY DEF StepOf, NodeStep, LoopStep
<1> QED
  BY <1>1, <1>3, <1>4, <1>5, <1>6, <1>8, <1>9

(* Who is off, and the messages, but for those of Boot, Fail and Arrive.     *)
LEMMA MailKept ==
  ASSUME BarrierTypeOK, NEW j \in Shards, StepOf(j), ~Boot(j), ~Fail(j), ~Arrive(j)
  PROVE  /\ sent' = sent /\ ip' = ip
         /\ \A n \in Shards : phase'[n] = "off" <=> phase[n] = "off"
<1> USE DEF BarrierTypeOK, loopVars, mailVars
<1>1. CASE ReplicaUp(j) \/ HandleEarly(j) \/ ConfigServerRuns(j) \/ HostUp(j)
             \/ HandleLate(j)
  BY <1>1 DEF ReplicaUp, HandleEarly, ConfigServerRuns, HostUp, HandleLate
<1>2. CASE ListHosts(j) \/ Enter(j)
  BY <1>2 DEF ListHosts, Enter
<1>3. CASE Informed(j) \/ HandleHosts(j) \/ HandleInts(j)
  BY <1>3 DEF Informed, HandleHosts, HandleInts
<1>4. CASE \E k \in Others(j) : Inform(j, k) \/ InformRaises(j, k)
  BY <1>4 DEF Inform, InformRaises
<1> QED
  BY <1>1, <1>2, <1>3, <1>4 DEF StepOf, NodeStep, LoopStep

(* What becomes of the status that node j has of node i.                     *)
LEMMA StatusStep ==
  ASSUME BarrierTypeOK, NEW j \in Shards, StepOf(j), HasTable(j)', NEW i \in Others(j)
  PROVE  \/ /\ ListHosts(j) /\ phase'[j] = "listed"
            /\ table'[j][i] = Status(FALSE, FALSE, IF i \in Listed(j) THEN ip[i] ELSE NoAddress)
         \/ /\ HandleHosts(j) /\ HasTable(j) /\ phase'[j] = phase[j] /\ Latest(j, i) # {}
            /\ table'[j][i] = StatusOf(hosts[j][CHOOSE n \in Latest(j, i) : TRUE])
         \/ /\ HandleInts(j) /\ HasTable(j) /\ phase'[j] = phase[j] /\ i \in ints[j]
            /\ table'[j][i] = Status(TRUE, TRUE, table[j][i].ip)
         \/ /\ Inform(j, i) /\ HasTable(j) /\ phase'[j] = phase[j]
            /\ table'[j][i] = [table[j][i] EXCEPT !.notified = TRUE]
         \/ HasTable(j) /\ table'[j][i] = table[j][i]
            /\ (phase'[j] = "listed" => phase[j] = "listed")
<1> USE DEF BarrierTypeOK, loopVars, mailVars, HasTable
<1>1. CASE Boot(j) \/ Fail(j)
  BY <1>1 DEF Boot, Fail
<1>2. CASE ReplicaUp(j) \/ Arrive(j) \/ HandleEarly(j) \/ ConfigServerRuns(j) \/ HostUp(j)
             \/ HandleLate(j)
  BY <1>2 DEF ReplicaUp, Arrive, HandleEarly, ConfigServerRuns, HostUp, HandleLate
<1>3. CASE ListHosts(j)
  <2>1. table'[j] = [k \in Others(j) |->
                       Status(FALSE, FALSE, IF k \in Listed(j) THEN ip[k] ELSE NoAddress)]
    BY <1>3 DEF ListHosts
  <2>2. phase'[j] \notin {"barrier"}
    BY <1>3 DEF ListHosts
  <2> QED
    BY <1>3, <2>1, <2>2
<1>4. CASE Enter(j)
  BY <1>4 DEF Enter
<1>5. CASE Informed(j)
  BY <1>5 DEF Informed
<1>6. CASE HandleHosts(j)
  <2>1. table'[j] = [k \in Others(j) |->
                       IF Latest(j, k) = {} THEN table[j][k]
                       ELSE StatusOf(hosts[j][CHOOSE n \in Latest(j, k) : TRUE])]
    BY <1>6 DEF HandleHosts
  <2>2. phase' = phase
    BY <1>6 DEF HandleHosts
  <2> QED
    BY <1>6, <2>1, <2>2
<1>7. CASE HandleInts(j)
  <2>1. table'[j] = Heard(j)
    BY <1>7 DEF HandleInts
  <2>2. phase'[j] = phase[j] /\ HasTable(j)
    BY <1>7 DEF HandleInts
  <2> QED
    BY <1>7, <2>1, <2>2 DEF Heard
<1>8. ASSUME NEW k \in Others(j), Inform(j, k)
      PROVE  \/ /\ Inform(j, i) /\ HasTable(j) /\ phase'[j] = phase[j]
                /\ table'[j][i] = [table[j][i] EXCEPT !.notified = TRUE]
             \/ HasTable(j) /\ table'[j][i] = table[j][i] /\ phase'[j] = phase[j]
  <2>1. phase' = phase /\ HasTable(j)
    BY <1>8 DEF Inform
  <2>2. table' = [table EXCEPT ![j] =
                    [table[j] EXCEPT ![k] = [table[j][k] EXCEPT !.notified = TRUE]]]
    BY <1>8 DEF Inform
  <2>3. table'[j] = [table[j] EXCEPT ![k] = [table[j][k] EXCEPT !.notified = TRUE]]
    BY <2>2
  <2>4. table[j] \in [Others(j) -> Statuses]
    BY <2>1
  <2>5. CASE i = k
    BY <1>8, <2>1, <2>3, <2>4, <2>5
  <2>6. CASE i # k
    BY <2>1, <2>3, <2>4, <2>6
  <2> QED
    BY <2>5, <2>6
<1>9. CASE \E k \in Others(j) : InformRaises(j, k)
  BY <1>9 DEF InformRaises
<1> QED
  BY <1>1, <1>2, <1>3, <1>4, <1>5, <1>6, <1>7, <1>8, <1>9 DEF StepOf, NodeStep, LoopStep

-----------------------------------------------------------------------------
(* Append and Tail bring in no messages but the one that is appended.        *)
LEMMA Elements ==
  ASSUME NEW s \in Seq(HostMessages)
  PROVE  /\ s # <<>> => /\ \A n \in DOMAIN Tail(s) : \E n2 \in DOMAIN s : Tail(s)[n] = s[n2]
                        /\ \E n2 \in DOMAIN s : Head(s) = s[n2]
         /\ \A m \in HostMessages : \A n \in DOMAIN Append(s, m) :
              Append(s, m)[n] = m \/ \E n2 \in DOMAIN s : Append(s, m)[n] = s[n2]
<1>1. ASSUME s # <<>>
      PROVE  /\ \A n \in DOMAIN Tail(s) : \E n2 \in DOMAIN s : Tail(s)[n] = s[n2]
             /\ \E n2 \in DOMAIN s : Head(s) = s[n2]
  <2> DEFINE t == Tail(s)
  <2>1. /\ DOMAIN s = 1..Len(s) /\ Len(s) \in Nat /\ Len(s) # 0
        /\ t \in Seq(HostMessages) /\ Len(t) = Len(s) - 1
        /\ Head(s) = s[1]
        /\ \A n \in 1..Len(t) : t[n] = s[n + 1]
    BY <1>1, HeadTailProperties, LenProperties, EmptySeq
  <2>2. DOMAIN t = 1..(Len(s) - 1)
    BY <2>1, LenProperties
  <2> HIDE DEF t
  <2>3. \A n \in DOMAIN t : n + 1 \in DOMAIN s /\ t[n] = s[n + 1]
    BY <2>1, <2>2
  <2>4. 1 \in DOMAIN s
    BY <2>1
  <2>5. (\A n \in DOMAIN t : \E n2 \in DOMAIN s : t[n] = s[n2])
        /\ \E n2 \in DOMAIN s : Head(s) = s[n2]
    BY <2>1, <2>3, <2>4
  <2> QED
    BY <2>5 DEF t
<1>2. ASSUME NEW m \in HostMessages
      PROVE  \A n \in DOMAIN Append(s, m) :
               Append(s, m)[n] = m \/ \E n2 \in DOMAIN s : Append(s, m)[n] = s[n2]
  <2> DEFINE t == Append(s, m)
  <2>1. /\ DOMAIN s = 1..Len(s) /\ Len(s) \in Nat
        /\ DOMAIN t = 1..(Len(s) + 1)
        /\ \A n \in DOMAIN s : t[n] = s[n]
        /\ t[Len(s) + 1] = m
    BY AppendProperties, LenProperties
  <2> HIDE DEF t
  <2>2. \A n \in DOMAIN t : n \in DOMAIN s \/ n = Len(s) + 1
    BY <2>1
  <2>3. \A n \in DOMAIN t : t[n] = m \/ \E n2 \in DOMAIN s : t[n] = s[n2]
    BY <2>1, <2>2
  <2> QED
    BY <2>3 DEF t
<1> QED
  BY <1>1, <1>2

LEMMA AtMostKept ==
  ASSUME NEW s \in Seq(HostMessages), NEW f, NEW g, AtMost(s, f),
         \A n \in Shards : f[n] \in Nat /\ g[n] \in Nat /\ f[n] <= g[n]
  PROVE  /\ AtMost(s, g)
         /\ s # <<>> => AtMost(Tail(s), g) /\ Head(s).ip <= g[Head(s).of]
         /\ \A m \in HostMessages : m.ip <= g[m.of] => AtMost(Append(s, m), g)
<1>1. \A n \in DOMAIN s : s[n] \in HostMessages
  BY ElementOfSeq, LenProperties
<1>2. \A m \in HostMessages : m.of \in Shards /\ m.ip \in Nat
  BY ShardAssumption DEF HostMessages
<1>3. AtMost(s, g)
  <2>1. ASSUME NEW n \in DOMAIN s PROVE s[n].ip <= g[s[n].of]
    BY <1>1, <1>2, <2>1 DEF AtMost
  <2> QED
    BY <2>1 DEF AtMost
<1>4. ASSUME s # <<>> PROVE AtMost(Tail(s), g) /\ Head(s).ip <= g[Head(s).of]
  BY <1>3, <1>4, Elements DEF AtMost
<1>5. ASSUME NEW m \in HostMessages, m.ip <= g[m.of] PROVE AtMost(Append(s, m), g)
  <2>1. \A n \in DOMAIN Append(s, m) :
          Append(s, m)[n] = m \/ \E n2 \in DOMAIN s : Append(s, m)[n] = s[n2]
    BY Elements
  <2> QED
    BY <1>3, <1>5, <2>1 DEF AtMost
<1> QED
  BY <1>3, <1>4, <1>5

(* The messages that are on their way to a node, and those that it has.      *)
LEMMA MailStep ==
  ASSUME BarrierTypeOK, NEW j \in Shards, StepOf(j), NEW k \in Shards
  PROVE  /\ \/ sent'[k] = sent[k]
            \/ Fail(j) /\ k = j /\ sent'[k] = <<>>
            \/ Arrive(j) /\ k = j /\ sent[k] # <<>> /\ sent'[k] = Tail(sent[k])
            \/ Boot(j) /\ k # j /\ phase[k] # "off" /\ sent'[k] = Append(sent[k], Word(j, ip'[j]))
            \/ /\ Fail(j) /\ k # j /\ phase[k] # "off"
               /\ sent'[k] = Append(sent[k], [name |-> "HostDown", of |-> j, ip |-> ip[j]])
         /\ \/ hosts'[k] = hosts[k]
            \/ hosts'[k] = <<>>
            \/ Arrive(j) /\ k = j /\ sent[k] # <<>> /\ hosts'[k] = Append(hosts[k], Head(sent[k]))
            \/ HandleEarly(j) /\ k = j /\ hosts[k] # <<>> /\ hosts'[k] = Tail(hosts[k])
<1>0. DOMAIN ip = Shards /\ DOMAIN sent = Shards /\ DOMAIN hosts = Shards
  BY DEF BarrierTypeOK
<1> USE DEF mailVars
<1>1. CASE Boot(j)
  <2>1. ip'[j] = ip[j] + 1 /\ hosts' = hosts
    BY <1>0, <1>1 DEF Boot
  <2>2. sent' = [n \in Shards |->
                   IF n # j /\ phase[n] # "off" THEN Append(sent[n], Word(j, ip'[j])) ELSE sent[n]]
    BY <1>1, <2>1 DEF Boot, Broadcast, Word
  <2>3. sent'[k] = IF k # j /\ phase[k] # "off" THEN Append(sent[k], Word(j, ip'[j])) ELSE sent[k]
    BY <2>2
  <2> QED
    BY <1>1, <2>1, <2>3
<1>2. CASE Fail(j)
  <2>1. sent'[k] = IF k = j THEN <<>>
                   ELSE IF phase[k] # "off"
                        THEN Append(sent[k], [name |-> "HostDown", of |-> j, ip |-> ip[j]])
                        ELSE sent[k]
    BY <1>2 DEF Fail
  <2>2. hosts'[k] = IF k = j THEN <<>> ELSE hosts[k]
    BY <1>0, <1>2 DEF Fail
  <2> QED
    BY <1>2, <2>1, <2>2
<1>3. CASE Arrive(j)
  BY <1>0, <1>3 DEF Arrive
<1>4. CASE HandleEarly(j)
  BY <1>0, <1>4 DEF HandleEarly
<1>5. CASE ReplicaUp(j) \/ ConfigServerRuns(j) \/ HostUp(j) \/ HandleLate(j)
  BY <1>0, <1>5 DEF ReplicaUp, ConfigServerRuns, HostUp, HandleLate
<1>6. CASE ListHosts(j) \/ Enter(j) \/ Informed(j) \/ HandleHosts(j) \/ HandleInts(j)
  BY <1>0, <1>6 DEF ListHosts, Enter, Informed, HandleHosts, HandleInts
<1>7. CASE \E n \in Others(j) : Inform(j, n) \/ InformRaises(j, n)
  BY <1>7 DEF Inform, InformRaises
<1>8. \/ Boot(j) \/ Fail(j) \/ ReplicaUp(j) \/ Arrive(j) \/ HandleEarly(j) \/ ConfigServerRuns(j)
      \/ HostUp(j) \/ HandleLate(j) \/ ListHosts(j) \/ Enter(j) \/ Informed(j) \/ HandleHosts(j)
      \/ HandleInts(j) \/ \E n \in Others(j) : Inform(j, n) \/ InformRaises(j, n)
  BY DEF StepOf, NodeStep, LoopStep
<1> QED
  BY <1>1, <1>2, <1>3, <1>4, <1>5, <1>6, <1>7, <1>8

LEMMA NoLaterStep ==
  ASSUME BarrierTypeOK, NoLaterAddress, NEW j \in Shards, StepOf(j)
  PROVE  NoLaterAddress'
<1>0. \A n \in Shards : ip[n] \in Nat /\ ip'[n] \in Nat /\ ip[n] <= ip'[n]
  BY Bystanders
<1>1. ASSUME NEW k \in Shards, phase'[k] = "off"
      PROVE  sent'[k] = <<>> /\ hosts'[k] = <<>>
  <2>1. CASE Fail(j) /\ k = j
    BY <2>1 DEF Fail, BarrierTypeOK
  <2>2. CASE ~(Fail(j) /\ k = j)
    <3>1. phase[k] = "off"
      <4>1. CASE k # j
        BY <1>1, <4>1, Bystanders
      <4>2. CASE k = j /\ Boot(j)
        BY <1>1, <4>2 DEF Boot, BarrierTypeOK
      <4>3. CASE k = j /\ Arrive(j)
        BY <1>1, <4>3 DEF Arrive
      <4>4. CASE k = j /\ ~Boot(j) /\ ~Arrive(j)
        BY <1>1, <2>2, <4>4, MailKept
      <4> QED
        BY <4>1, <4>2, <4>3, <4>4
    <3>2. sent[k] = <<>> /\ hosts[k] = <<>>
      BY <3>1 DEF NoLaterAddress
    <3> QED
      BY <2>2, <3>1, <3>2, MailStep
  <2> QED
    BY <2>1, <2>2
<1>2. ASSUME NEW k \in Shards
      PROVE  AtMost(sent'[k], ip') /\ AtMost(hosts'[k], ip')
  <2>1. /\ sent[k] \in Seq(HostMessages) /\ hosts[k] \in Seq(HostMessages)
        /\ AtMost(sent[k], ip) /\ AtMost(hosts[k], ip)
    BY DEF BarrierTypeOK, NoLaterAddress
  <2>2. /\ AtMost(sent[k], ip')
        /\ sent[k] # <<>> => AtMost(Tail(sent[k]), ip') /\ Head(sent[k]).ip <= ip'[Head(sent[k]).of]
        /\ \A m \in HostMessages : m.ip <= ip'[m.of] => AtMost(Append(sent[k], m), ip')
    BY <1>0, <2>1, AtMostKept
  <2>3. /\ AtMost(hosts[k], ip')
        /\ hosts[k] # <<>> => AtMost(Tail(hosts[k]), ip')
        /\ \A m \in HostMessages : m.ip <= ip'[m.of] => AtMost(Append(hosts[k], m), ip')
    BY <1>0, <2>1, AtMostKept
  <2>4. ASSUME NEW a \in 0..MaxBoots, a <= ip'[j]
        PROVE  /\ AtMost(Append(sent[k], Word(j, a)), ip')
               /\ AtMost(Append(sent[k], [name |-> "HostDown", of |-> j, ip |-> a]), ip')
    <3>1. /\ Word(j, a) \in HostMessages /\ Word(j, a).ip <= ip'[Word(j, a).of]
          /\ [name |-> "HostDown", of |-> j, ip |-> a] \in HostMessages
      BY <2>4 DEF Word, HostMessages
    <3>2. ASSUME NEW m \in HostMessages, m.ip = a, m.of = j
          PROVE  AtMost(Append(sent[k], m), ip')
      BY <2>2, <2>4, <3>2
    <3> QED
      BY <3>1, <3>2 DEF Word
  <2>5. ip[j] \in 0..MaxBoots /\ (Boot(j) => ip'[j] \in 0..MaxBoots)
    <3>1. ip[j] \in 0..MaxBoots /\ DOMAIN ip = Shards
      BY DEF BarrierTypeOK
    <3>2. Boot(j) => ip'[j] = ip[j] + 1 /\ ip[j] < MaxBoots
      BY <3>1 DEF Boot
    <3> QED
      BY <3>1, <3>2, ShardAssumption
  <2>6. AtMost(<<>>, ip')
    BY DEF AtMost
  <2>7. sent[k] # <<>> => Head(sent[k]) \in HostMessages
    BY <2>1, HeadTailProperties
  <2>8. AtMost(sent'[k], ip')
    <3>1. \/ sent'[k] = sent[k]
          \/ sent'[k] = <<>>
          \/ sent[k] # <<>> /\ sent'[k] = Tail(sent[k])
          \/ Boot(j) /\ sent'[k] = Append(sent[k], Word(j, ip'[j]))
          \/ sent'[k] = Append(sent[k], [name |-> "HostDown", of |-> j, ip |-> ip[j]])
      BY MailStep
    <3>2. Boot(j) => AtMost(Append(sent[k], Word(j, ip'[j])), ip')
      <4>1. Boot(j) => ip'[j] \in 0..MaxBoots /\ ip'[j] <= ip'[j]
        BY <1>0, <2>5
      <4> QED
        BY <2>4, <4>1, Zenon
    <3>3. AtMost(Append(sent[k], [name |-> "HostDown", of |-> j, ip |-> ip[j]]), ip')
      BY <1>0, <2>4, <2>5
    <3> QED
      BY <2>2, <2>6, <3>1, <3>2, <3>3
  <2>9. AtMost(hosts'[k], ip')
    BY <2>2, <2>3, <2>6, <2>7, MailStep
  <2> QED
    BY <2>8, <2>9
<1>3. ASSUME NEW k \in Shards, HasTable(k)', NEW i \in Others(k)
      PROVE  table'[k][i].ip <= ip'[i]
  <2>0. i \in Shards
    BY DEF Others
  <2>1. CASE k # j
    <3>1. HasTable(k) /\ table'[k] = table[k]
      BY <1>3, <2>1, Bystanders DEF HasTable
    <3>2. table[k][i] \in Statuses
      BY <3>1 DEF BarrierTypeOK, HasTable
    <3>3. table[k][i].ip \in Nat
      BY <3>2, ShardAssumption DEF Statuses
    <3>4. table[k][i].ip <= ip[i]
      BY <3>1 DEF NoLaterAddress
    <3> QED
      BY <1>0, <2>0, <3>1, <3>3, <3>4
  <2>2. CASE k = j
    <3>1. \/ table'[k][i] = Status(FALSE, FALSE, IF i \in Listed(k) THEN ip[i] ELSE NoAddress)
          \/ /\ Latest(k, i) # {}
             /\ table'[k][i] = StatusOf(hosts[k][CHOOSE n \in Latest(k, i) : TRUE])
          \/ HasTable(k) /\ table'[k][i] = Status(TRUE, TRUE, table[k][i].ip)
          \/ HasTable(k) /\ table'[k][i] = [table[k][i] EXCEPT !.notified = TRUE]
          \/ HasTable(k) /\ table'[k][i] = table[k][i]
      BY <1>3, <2>2, StatusStep
    <3>2. CASE table'[k][i] = Status(FALSE, FALSE, IF i \in Listed(k) THEN ip[i] ELSE NoAddress)
      <4>1. table'[k][i].ip \in {ip[i], 0}
        BY <3>2 DEF Status, NoAddress
      <4> QED
        BY <1>0, <2>0, <4>1
    <3>3. CASE /\ Latest(k, i) # {}
               /\ table'[k][i] = StatusOf(hosts[k][CHOOSE n \in Latest(k, i) : TRUE])
      <4>1. PICK n \in DOMAIN hosts[k] :
              hosts[k][n].of = i /\ table'[k][i] = StatusOf(hosts[k][n])
        BY <3>3 DEF Latest, About
      <4>2. hosts[k][n].ip <= ip[i]
        BY <4>1 DEF NoLaterAddress, AtMost
      <4>3. table'[k][i].ip \in {hosts[k][n].ip, 0}
        BY <4>1 DEF StatusOf, Status, NoAddress
      <4>4. hosts[k][n].ip \in Nat
        <5>1. hosts[k][n] \in HostMessages
          BY ElementOfSeq, LenProperties DEF BarrierTypeOK
        <5> QED
          BY <5>1, ShardAssumption DEF HostMessages
      <4> QED
        BY <1>0, <2>0, <4>2, <4>3, <4>4
    <3>4. CASE /\ HasTable(k)
               /\ \/ table'[k][i] = Status(TRUE, TRUE, table[k][i].ip)
                  \/ table'[k][i] = [table[k][i] EXCEPT !.notified = TRUE]
                  \/ table'[k][i] = table[k][i]
      <4>1. table[k][i] \in Statuses
        BY <3>4 DEF BarrierTypeOK, HasTable
      <4>2. table'[k][i].ip = table[k][i].ip
        BY <3>4, <4>1 DEF Status, Statuses
      <4>3. table[k][i].ip \in Nat /\ table[k][i].ip <= ip[i]
        BY <3>4, <4>1, ShardAssumption DEF Statuses, NoLaterAddress
      <4> QED
        BY <1>0, <2>0, <4>2, <4>3
    <3> QED
      BY <3>1, <3>2, <3>3, <3>4
  <2> QED
    BY <2>1, <2>2
<1> QED
  BY <1>1, <1>2, <1>3 DEF NoLaterAddress

-----------------------------------------------------------------------------
(* Only Boot puts a node on its way.                                         *)
LEMMA OnTheWayBefore ==
  ASSUME BarrierTypeOK, NEW j \in Shards, StepOf(j), NEW n \in Shards, phase'[n] \in OnTheWay,
         ~(Boot(j) /\ n = j)
  PROVE  phase[n] \in OnTheWay
<1>0. DOMAIN phase = Shards
  BY DEF BarrierTypeOK
<1>1. CASE n # j
  BY <1>1, Bystanders
<1>2. CASE n = j /\ (Fail(j) \/ ListHosts(j) \/ ConfigServerRuns(j) \/ HostUp(j))
  BY <1>0, <1>2 DEF Fail, ListHosts, ConfigServerRuns, HostUp, OnTheWay
<1>3. CASE n = j /\ (ReplicaUp(j) \/ Arrive(j) \/ HandleEarly(j) \/ HandleLate(j))
  BY <1>3 DEF ReplicaUp, Arrive, HandleEarly, HandleLate
<1>4. CASE n = j /\ (Enter(j) \/ Informed(j) \/ HandleHosts(j) \/ HandleInts(j))
  BY <1>4 DEF Enter, Informed, HandleHosts, HandleInts, OnTheWay
<1>5. CASE n = j /\ \E k \in Others(j) : Inform(j, k) \/ InformRaises(j, k)
  BY <1>5 DEF Inform, InformRaises
<1> QED
  BY <1>1, <1>2, <1>3, <1>4, <1>5 DEF StepOf, NodeStep, LoopStep

LEMMA AddressStep ==
  ASSUME BarrierTypeOK, NoLaterAddress, AddressKnown, NEW j \in Shards, StepOf(j)
  PROVE  AddressKnown'
<1> SUFFICES ASSUME NEW k \in Shards, NEW i \in Others(k),
                    phase'[k] \in OnTheWay, phase'[i] # "off"
             PROVE  KnowsAddress(k, i)'
  BY DEF AddressKnown
<1>0. /\ i \in Shards /\ i # k
      /\ sent[k] \in Seq(HostMessages) /\ hosts[k] \in Seq(HostMessages)
      /\ ip[i] \in 0..MaxBoots
      /\ DOMAIN phase = Shards /\ DOMAIN ip = Shards /\ DOMAIN sent = Shards
      /\ DOMAIN hosts = Shards
  BY DEF BarrierTypeOK, Others
<1>1. CASE Boot(j)
  <2>1. ip'[j] = ip[j] + 1 /\ hosts' = hosts /\ phase'[j] = "booted" /\ phase[j] = "off"
    BY <1>0, <1>1 DEF Boot
  <2>2. sent' = [n \in Shards |->
                   IF n # j /\ phase[n] # "off" THEN Append(sent[n], Word(j, ip'[j])) ELSE sent[n]]
    BY <1>1, <2>1 DEF Boot, Broadcast, Word
  <2>3. Word(j, ip'[j]) \in HostMessages /\ Word(j, ip'[j]).of = j /\ ip'[j] \in 0..MaxBoots
    <3>1. ip[j] \in 0..MaxBoots /\ ip[j] < MaxBoots
      BY <1>1 DEF Boot, BarrierTypeOK
    <3>2. ip'[j] \in 0..MaxBoots
      BY <2>1, <3>1, ShardAssumption
    <3> QED
      BY <3>2 DEF Word, HostMessages
  <2>4. CASE k = j
    <3>1. sent'[k] = <<>> /\ hosts'[k] = <<>> /\ ~HasTable(k)'
      BY <2>1, <2>2, <2>4 DEF NoLaterAddress, HasTable
    <3> QED
      BY <3>1 DEF KnowsAddress, Silent
  <2>5. CASE i = j
    <3>1. phase[k] # "off"
      BY <1>0, <2>5, <1>1, Bystanders DEF OnTheWay
    <3>2. sent'[k] = Append(sent[k], Word(i, ip'[i]))
      BY <1>0, <2>2, <2>5, <3>1
    <3>3. EndsWith(sent'[k], i, ip'[i])
      BY <1>0, <2>3, <2>5, <3>2, AppendedWord
    <3> QED
      BY <3>3 DEF KnowsAddress
  <2>6. CASE k # j /\ i # j
    <3>1. /\ phase'[k] = phase[k] /\ phase'[i] = phase[i] /\ ip'[i] = ip[i]
          /\ table'[k] = table[k] /\ hosts'[k] = hosts[k]
      BY <1>0, <2>6, Bystanders
    <3>2. KnowsAddress(k, i)
      BY <3>1 DEF AddressKnown
    <3>3. sent'[k] = sent[k] \/ sent'[k] = Append(sent[k], Word(j, ip'[j]))
      BY <2>2
    <3>4. /\ EndsWith(sent[k], i, ip[i]) => EndsWith(sent'[k], i, ip[i])
          /\ Silent(sent[k], i) => Silent(sent'[k], i)
      BY <1>0, <2>3, <2>6, <3>3, AppendedWord
    <3> QED
      BY <3>1, <3>2, <3>4 DEF KnowsAddress, HasTable
  <2> QED
    BY <2>4, <2>5, <2>6
<1>2. CASE Fail(j)
  <2>1. k # j /\ i # j
    BY <1>0, <1>2 DEF Fail, OnTheWay
  <2>2. /\ phase'[k] = phase[k] /\ phase'[i] = phase[i] /\ ip'[i] = ip[i]
        /\ table'[k] = table[k] /\ hosts'[k] = hosts[k]
    BY <1>0, <2>1, Bystanders
  <2>3. KnowsAddress(k, i)
    BY <2>2 DEF AddressKnown
  <2>4. PICK m \in HostMessages : m = [name |-> "HostDown", of |-> j, ip |-> ip[j]]
    BY DEF HostMessages, BarrierTypeOK
  <2>5. m.of # i
    BY <2>1, <2>4
  <2>6. sent'[k] = sent[k] \/ sent'[k] = Append(sent[k], m)
    BY <1>2, <2>1, <2>4 DEF Fail
  <2>7. /\ EndsWith(sent[k], i, ip[i]) => EndsWith(sent'[k], i, ip[i])
        /\ Silent(sent[k], i) => Silent(sent'[k], i)
    BY <1>0, <2>5, <2>6, AppendedWord
  <2> QED
    BY <2>2, <2>3, <2>7 DEF KnowsAddress, HasTable
<1>3. CASE Arrive(j)
  <2>1. phase' = phase /\ ip' = ip /\ table' = table
    BY <1>3 DEF Arrive, loopVars
  <2>2. KnowsAddress(k, i)
    BY <2>1 DEF AddressKnown
  <2>3. CASE k # j
    <3>1. sent'[k] = sent[k] /\ hosts'[k] = hosts[k]
      BY <1>0, <1>3, <2>3 DEF Arrive
    <3> QED
      BY <2>1, <2>2, <3>1 DEF KnowsAddress, HasTable
  <2>4. CASE k = j
    <3>1. /\ sent[k] # <<>>
          /\ sent'[k] = Tail(sent[k]) /\ hosts'[k] = Append(hosts[k], Head(sent[k]))
      BY <1>0, <1>3, <2>4 DEF Arrive
    <3>2. /\ Head(sent[k]) \in HostMessages
          /\ EndsWith(sent[k], i, ip[i]) =>
               \/ EndsWith(sent'[k], i, ip[i])
               \/ Head(sent[k]) = Word(i, ip[i]) /\ Silent(sent'[k], i)
          /\ Silent(sent[k], i) => Head(sent[k]).of # i /\ Silent(sent'[k], i)
      BY <1>0, <3>1, TailedWord
    <3>3. /\ Head(sent[k]) = Word(i, ip[i]) => EndsWith(hosts'[k], i, ip[i])
          /\ Head(sent[k]).of # i /\ EndsWith(hosts[k], i, ip[i]) => EndsWith(hosts'[k], i, ip[i])
          /\ Head(sent[k]).of # i /\ Silent(hosts[k], i) => Silent(hosts'[k], i)
      BY <1>0, <3>1, <3>2, AppendedWord
    <3> QED
      BY <2>1, <2>2, <3>2, <3>3 DEF KnowsAddress, HasTable
  <2> QED
    BY <2>3, <2>4
<1>4. CASE ~Boot(j) /\ ~Fail(j) /\ ~Arrive(j)
  <2>1. sent' = sent /\ ip' = ip /\ phase[i] # "off" /\ phase[k] \in OnTheWay
    BY <1>0, <1>4, MailKept, OnTheWayBefore
  <2>2. KnowsAddress(k, i)
    BY <2>1 DEF AddressKnown
  <2>3. CASE k # j
    <3>1. phase'[k] = phase[k] /\ table'[k] = table[k] /\ hosts'[k] = hosts[k]
      BY <2>3, Bystanders
    <3> QED
      BY <2>1, <2>2, <3>1 DEF KnowsAddress, HasTable
  <2>4. CASE k = j /\ HandleHosts(j)
    <3>1. hosts'[k] = <<>> /\ phase' = phase /\ phase[k] = "barrier"
      BY <1>0, <2>4 DEF HandleHosts
    <3>2. table'[k][i] = IF Latest(k, i) = {} THEN table[k][i]
                         ELSE StatusOf(hosts[k][CHOOSE n \in Latest(k, i) : TRUE])
      BY <2>4 DEF HandleHosts, BarrierTypeOK
    <3>3. Silent(hosts'[k], i)
      BY <3>1 DEF Silent
    <3>4. CASE EndsWith(sent[k], i, ip[i])
      BY <2>1, <3>4 DEF KnowsAddress
    <3>5. CASE Silent(sent[k], i) /\ EndsWith(hosts[k], i, ip[i])
      <4>1. table'[k][i] = Status(FALSE, FALSE, ip[i])
        BY <1>0, <3>2, <3>5, LatestWord
      <4>2. table'[k][i].ip = ip[i]
        BY <4>1 DEF Status
      <4> QED
        BY <2>1, <3>3, <3>5, <4>2 DEF KnowsAddress
    <3>6. CASE Silent(sent[k], i) /\ Silent(hosts[k], i) /\ table[k][i].ip = ip[i]
      <4>1. table'[k][i] = table[k][i]
        BY <1>0, <3>2, <3>6, LatestWord
      <4> QED
        BY <2>1, <3>3, <3>6, <4>1 DEF KnowsAddress
    <3> QED
      BY <2>2, <3>1, <3>4, <3>5, <3>6 DEF KnowsAddress, HasTable
  <2>5. CASE k = j /\ HandleEarly(j)
    <3>1. hosts[k] # <<>> /\ hosts'[k] = Tail(hosts[k]) /\ ~HasTable(k)'
      BY <1>0, <2>5 DEF HandleEarly, HasTable
    <3>2. /\ EndsWith(hosts[k], i, ip[i]) =>
               EndsWith(hosts'[k], i, ip[i]) \/ Silent(hosts'[k], i)
          /\ Silent(hosts[k], i) => Silent(hosts'[k], i)
      BY <1>0, <3>1, TailedWord
    <3> QED
      BY <2>1, <2>2, <3>1, <3>2 DEF KnowsAddress
  <2>6. CASE k = j /\ ~HandleHosts(j) /\ ~HandleEarly(j)
    <3>1. ~HandleLate(j)
      BY <2>1, <2>6 DEF HandleLate, Past, OnTheWay
    <3>2. hosts' = hosts
      BY <1>4, <2>6, <3>1 DEF StepOf, NodeStep, LoopStep, ReplicaUp, ListHosts, Enter,
         ConfigServerRuns, HostUp, Informed, HandleInts, Inform, InformRaises, mailVars
    <3>3. ASSUME HasTable(k)'
          PROVE  table'[k][i].ip = ip[i] \/ (HasTable(k) /\ table'[k][i].ip = table[k][i].ip)
      <4>1. \/ table'[k][i] = Status(FALSE, FALSE, IF i \in Listed(k) THEN ip[i] ELSE NoAddress)
            \/ HasTable(k) /\ table'[k][i] = Status(TRUE, TRUE, table[k][i].ip)
            \/ HasTable(k) /\ table'[k][i] = [table[k][i] EXCEPT !.notified = TRUE]
            \/ HasTable(k) /\ table'[k][i] = table[k][i]
        BY <2>6, <3>3, StatusStep
      <4>2. i \in Listed(k)
        BY <2>1 DEF Listed
      <4>3. HasTable(k) => table[k][i] \in Statuses
        BY DEF HasTable, BarrierTypeOK
      <4> QED
        BY <4>1, <4>2, <4>3 DEF Status, Statuses
    <3> QED
      BY <2>1, <2>2, <3>2, <3>3 DEF KnowsAddress
  <2> QED
    BY <2>3, <2>4, <2>5, <2>6
<1> QED
  BY <1>1, <1>2, <1>3, <1>4

LEMMA ReadyStep ==
  ASSUME BarrierTypeOK, ReadyIsNotified, NEW j \in Shards, StepOf(j)
  PROVE  ReadyIsNotified'
<1> SUFFICES ASSUME NEW k \in Shards, NEW i \in Others(k)
             PROVE  /\ phase'[k] = "listed" => ~table'[k][i].notified
                    /\ HasTable(k)' /\ table'[k][i].ready => table'[k][i].notified
  BY DEF ReadyIsNotified, HasTable
<1>1. CASE k # j
  <2>1. phase'[k] = phase[k] /\ table'[k] = table[k]
    BY <1>1, Bystanders
  <2> QED
    BY <2>1 DEF ReadyIsNotified, HasTable
<1>2. CASE k = j /\ HasTable(j)'
  <2>0. HasTable(k) => table[k][i] \in Statuses
    BY DEF HasTable, BarrierTypeOK
  <2>1. CASE ListHosts(j) /\ \E a : table'[k][i] = Status(FALSE, FALSE, a)
    BY <2>1 DEF Status
  <2>2. CASE HandleHosts(j) /\ \E m : table'[k][i] = StatusOf(m)
    BY <2>2 DEF StatusOf, Status
  <2>3. CASE HandleInts(j) /\ phase'[j] = phase[j] /\ \E a : table'[k][i] = Status(TRUE, TRUE, a)
    BY <1>2, <2>3 DEF HandleInts, Status
  <2>4. CASE /\ Inform(j, i) /\ HasTable(j) /\ phase'[j] = phase[j]
             /\ table'[k][i] = [table[k][i] EXCEPT !.notified = TRUE]
    BY <1>2, <2>0, <2>4 DEF Inform, Statuses
  <2>5. CASE /\ HasTable(j) /\ table'[k][i] = table[k][i]
             /\ phase'[j] = "listed" => phase[j] = "listed"
    BY <1>2, <2>5 DEF ReadyIsNotified
  <2> QED
    BY <1>2, <2>1, <2>2, <2>3, <2>4, <2>5, StatusStep
<1> QED
  BY <1>1, <1>2 DEF HasTable

-----------------------------------------------------------------------------
(* A word is kept, but by HandleHosts, which may reset a status.             *)
LEMMA HasWordKept ==
  ASSUME BarrierTypeOK, NEW j \in Shards, StepOf(j), NEW i \in Shards, NEW k \in Others(i),
         phase'[i] \in OnTheWay, HasWord(i, k), ~(Boot(j) /\ i = j),
         ~(HandleHosts(j) /\ i = j /\ k \notin ints[i] /\ Latest(i, k) # {})
  PROVE  HasWord(i, k)'
<1>0. phase[i] \in OnTheWay /\ DOMAIN phase = Shards /\ DOMAIN ints = Shards
  BY OnTheWayBefore DEF BarrierTypeOK
<1>1. CASE i # j
  <2>1. phase'[i] = phase[i] /\ table'[i] = table[i] /\ ints[i] \subseteq ints'[i]
    BY <1>1, Bystanders
  <2> QED
    BY <2>1 DEF HasWord, HasTable
<1>2. CASE i = j /\ HandleInts(j)
  <2>1. /\ table'[j] = Heard(j)
        /\ phase[j] = "barrier"
        /\ phase'[j] = IF Ready(j) THEN "router" ELSE phase[j]
    BY <1>0, <1>2 DEF HandleInts, BarrierTypeOK
  <2>2. HasTable(j)'
    BY <1>2, <2>1 DEF HasTable, OnTheWay
  <2>3. Heard(j)[k] = IF k \in ints[j] THEN Status(TRUE, TRUE, table[j][k].ip) ELSE table[j][k]
    BY <1>2 DEF Heard
  <2>4. Heard(j)[k].ready
    BY <1>2, <2>1, <2>3 DEF HasWord, Status
  <2> QED
    BY <1>2, <2>1, <2>2, <2>4 DEF HasWord
<1>3. CASE i = j /\ ~HandleInts(j)
  <2>1. ~HandleLate(j) /\ ~Fail(j)
    BY <1>0, <1>3 DEF HandleLate, Past, Fail, OnTheWay
  <2>2. ints'[j] = ints[j]
    <3>1. CASE \E n \in Others(j) : Inform(j, n) \/ InformRaises(j, n)
      <4>1. PICK n \in Others(j) : ints' = ints \/ ints' = [ints EXCEPT ![n] = @ \cup {j}]
        BY <3>1 DEF Inform, InformRaises
      <4> QED
        BY <1>0, <4>1 DEF Others
    <3>2. CASE ~\E n \in Others(j) : Inform(j, n) \/ InformRaises(j, n)
      BY <1>3, <2>1, <3>2
         DEF StepOf, NodeStep, LoopStep, Boot, ReplicaUp, Arrive, HandleEarly, ListHosts, Enter,
             ConfigServerRuns, HostUp, Informed, HandleHosts, mailVars
    <3> QED
      BY <3>1, <3>2
  <2>3. ASSUME HasTable(j), table[j][k].ready, k \notin ints[j]
        PROVE  HasTable(j)' /\ table'[j][k].ready
    <3>0. ~ListHosts(j) /\ table[j][k] \in Statuses
      BY <1>3, <2>3 DEF ListHosts, HasTable, BarrierTypeOK
    <3>1. HasTable(j)'
      <4>1. phase'[j] # "booted"
        BY <1>0, <1>3, <2>1, <2>3, <3>0
           DEF StepOf, NodeStep, LoopStep, ReplicaUp, Arrive, HandleEarly, Enter,
               ConfigServerRuns, HostUp, Informed, HandleHosts, Inform, InformRaises, HasTable
      <4> QED
        BY <1>3, <4>1 DEF HasTable, OnTheWay
    <3>2. table'[j][k] = table[j][k] \/ table'[j][k] = [table[j][k] EXCEPT !.notified = TRUE]
      BY <1>3, <2>3, <3>0, <3>1, StatusStep
    <3> QED
      BY <2>3, <3>0, <3>1, <3>2 DEF Statuses
  <2> QED
    BY <1>3, <2>2, <2>3 DEF HasWord
<1> QED
  BY <1>1, <1>2, <1>3

(* When a node is taken off the nodes that spare another.                    *)
LEMMA SparedStep ==
  ASSUME BarrierTypeOK, NEW j \in Shards, StepOf(j), NEW i \in Shards, NEW k \in Others(i),
         ~(Boot(j) /\ i = j), ~(Fail(j) /\ (k = j \/ i = j)), k \notin spared'[i]
  PROVE  /\ k \notin spared[i]
         /\ HandleHosts(j) /\ i = j => ~Forgotten(i, k)
         /\ HandleInts(j) /\ k = j =>
              ~Presumed(k, i) /\ (Ready(k) => table[k][i].ip = ip[i])
         /\ ListHosts(j) /\ k = j => Running = {}
<1>0. DOMAIN spared = Shards /\ k \in Shards /\ k # i
  BY DEF BarrierTypeOK, Others
<1>1. CASE Boot(j)
  BY <1>0, <1>1 DEF Boot, HandleHosts, HandleInts, ListHosts
<1>2. CASE Fail(j)
  BY <1>0, <1>2 DEF Fail, HandleHosts, HandleInts, ListHosts
<1>3. CASE HandleHosts(j)
  BY <1>0, <1>3 DEF HandleHosts, HandleInts, ListHosts
<1>4. CASE HandleInts(j)
  <2>1. ~HandleHosts(j) /\ ~ListHosts(j)
    BY <1>4 DEF HandleInts, HandleHosts, ListHosts
  <2>2. spared' = [n \in Shards |->
                     IF n # j /\ (Presumed(j, n) \/ (Ready(j) /\ table[j][n].ip # ip[n]))
                     THEN spared[n] \cup {j} ELSE spared[n]]
    BY <1>4 DEF HandleInts
  <2>3. spared'[i] = IF i # j /\ (Presumed(j, i) \/ (Ready(j) /\ table[j][i].ip # ip[i]))
                     THEN spared[i] \cup {j} ELSE spared[i]
    BY <2>2
  <2>4. k \notin spared[i]
    BY <2>3
  <2>5. ASSUME k = j
        PROVE  ~Presumed(k, i) /\ (Ready(k) => table[k][i].ip = ip[i])
    BY <1>0, <2>3, <2>5
  <2> QED
    BY <2>1, <2>4, <2>5
<1>5. CASE ListHosts(j)
  BY <1>0, <1>5 DEF ListHosts, HandleHosts, HandleInts
<1>6. CASE ~Boot(j) /\ ~Fail(j) /\ ~HandleHosts(j) /\ ~HandleInts(j) /\ ~ListHosts(j)
  BY <1>6 DEF StepOf, NodeStep, LoopStep, ReplicaUp, Arrive, HandleEarly, Enter,
              ConfigServerRuns, HostUp, HandleLate, Informed, Inform, InformRaises
<1> QED
  BY <1>1, <1>2, <1>3, <1>4, <1>5, <1>6

(* A ready status is reset only if its node is taken to spare from then on.  *)
LEMMA ResetIsSpared ==
  ASSUME BarrierTypeOK, ReadyIsNotified, NEW i \in Shards, NEW k \in Others(i),
         HasWord(i, k), ~Forgotten(i, k), Latest(i, k) # {}, k \notin ints[i],
         \/ k \in Past
         \/ HasTable(k) /\ table[k][i].notified /\ table[k][i].ip = ip[i]
  PROVE  FALSE
<1>1. table[i][k].ready
  BY DEF HasWord
<1>2. k \in Shards /\ i \in Others(k)
  BY DEF Others
<1>3. k \notin Past => phase[k] = "barrier"
  BY <1>2 DEF ReadyIsNotified, HasTable
<1> QED
  BY <1>1, <1>3 DEF Forgotten

LEMMA NotifiedStep ==
  ASSUME BarrierTypeOK, NoLaterAddress, ReadyIsNotified, NotifiedKnows, NEW j \in Shards, StepOf(j)
  PROVE  NotifiedKnows'
<1> SUFFICES ASSUME NEW i \in Shards, NEW k \in Others(i),
                    phase'[i] \in OnTheWay, k \notin spared'[i],
                    HasTable(k)', table'[k][i].ip = ip'[i], table'[k][i].notified
             PROVE  HasWord(i, k)'
  BY DEF NotifiedKnows
<1>0. k \in Shards /\ k # i /\ i \in Others(k)
  BY DEF Others
<1>1. ~(Boot(j) /\ i = j)
  <2> SUFFICES ASSUME Boot(j), i = j
               PROVE  FALSE
    OBVIOUS
  <2>1. HasTable(k) /\ table'[k] = table[k]
    BY <1>0, Bystanders DEF HasTable
  <2>2. table[k][i].ip <= ip[i]
    BY <1>0, <2>1 DEF NoLaterAddress
  <2>3. ip'[i] = ip[i] + 1 /\ ip[i] \in Nat
    BY Bystanders DEF Boot, BarrierTypeOK
  <2> QED
    BY <2>1, <2>2, <2>3
<1>2. ~(Fail(j) /\ (k = j \/ i = j))
  BY DEF Fail, OnTheWay, HasTable, BarrierTypeOK
<1>3. /\ k \notin spared[i] /\ phase[i] \in OnTheWay
      /\ HandleHosts(j) /\ i = j => ~Forgotten(i, k)
      /\ HandleInts(j) /\ k = j => ~Presumed(k, i)
  BY <1>1, <1>2, SparedStep, OnTheWayBefore
<1>4. CASE Inform(j, i) /\ k = j
  <2>1. k \in ints'[i]
    BY <1>4 DEF Inform, BarrierTypeOK
  <2> QED
    BY <2>1 DEF HasWord
<1>5. CASE ~(Inform(j, i) /\ k = j)
  <2>1. HasTable(k) /\ table[k][i].ip = ip[i] /\ table[k][i].notified
    <3>1. CASE k # j
      <4>1. HasTable(k) /\ table'[k] = table[k]
        BY <1>0, <3>1, Bystanders DEF HasTable
      <4>2. table[k][i].ip <= ip[i] /\ ip[i] <= ip'[i] /\ ip[i] \in Nat /\ ip'[i] \in Nat
        BY <1>0, <4>1, Bystanders DEF NoLaterAddress
      <4> QED
        BY <4>1, <4>2
    <3>2. CASE k = j
      <4>1. ip'[i] = ip[i]
        BY <1>0, <3>2, Bystanders
      <4>2. HasTable(k) => table[k][i] \in Statuses
        BY <1>0 DEF HasTable, BarrierTypeOK
      <4>3. CASE \/ \E a : table'[k][i] = Status(FALSE, FALSE, a)
                 \/ \E m : table'[k][i] = StatusOf(m)
        <5>1. \A a : ~Status(FALSE, FALSE, a).notified
          BY DEF Status
        <5>2. \A m : ~StatusOf(m).notified
          BY <5>1 DEF StatusOf
        <5> QED
          BY <4>3, <5>1, <5>2
      <4>4. CASE HandleInts(k) /\ HasTable(k) /\ i \in ints[k]
                 /\ table'[k][i] = Status(TRUE, TRUE, table[k][i].ip)
        BY <1>3, <3>2, <4>1, <4>4 DEF Status, Presumed
      <4>5. CASE HasTable(k) /\ table'[k][i] = table[k][i]
        BY <4>1, <4>5
      <4> QED
        BY <1>0, <1>5, <3>2, <4>3, <4>4, <4>5, StatusStep
    <3> QED
      BY <3>1, <3>2
  <2>2. HasWord(i, k)
    BY <1>3, <2>1 DEF NotifiedKnows
  <2>3. ~(HandleHosts(j) /\ i = j /\ k \notin ints[i] /\ Latest(i, k) # {})
    BY <1>3, <2>1, <2>2, ResetIsSpared
  <2> QED
    BY <1>1, <2>2, <2>3, HasWordKept
<1> QED
  BY <1>4, <1>5

LEMMA PastStep ==
  ASSUME BarrierTypeOK, ReadyIsNotified, NotifiedKnows, PastHasTold, NEW j \in Shards, StepOf(j)
  PROVE  PastHasTold'
<1> SUFFICES ASSUME NEW i \in Shards, NEW k \in Others(i),
                    phase'[i] \in OnTheWay, k \notin spared'[i],
                    phase'[k] \in {"config", "router", "up"}
             PROVE  HasWord(i, k)'
  BY DEF PastHasTold, Past
<1>0. k \in Shards /\ k # i /\ i \in Others(k) /\ DOMAIN phase = Shards /\ DOMAIN spared = Shards
  BY DEF Others, BarrierTypeOK
<1>1. ~(Boot(j) /\ i = j)
  <2> SUFFICES ASSUME Boot(j), i = j
               PROVE  FALSE
    OBVIOUS
  <2>1. phase'[k] = phase[k] /\ spared'[i] = Past
    BY <1>0, Bystanders DEF Boot
  <2> QED
    BY <1>0, <2>1 DEF Past
<1>2. ~(Fail(j) /\ (k = j \/ i = j))
  BY <1>0 DEF Fail, OnTheWay
<1>3. /\ k \notin spared[i] /\ phase[i] \in OnTheWay
      /\ HandleHosts(j) /\ i = j => ~Forgotten(i, k)
      /\ HandleInts(j) /\ k = j =>
           ~Presumed(k, i) /\ (Ready(k) => table[k][i].ip = ip[i])
      /\ ListHosts(j) /\ k = j => Running = {}
  BY <1>1, <1>2, SparedStep, OnTheWayBefore
<1>4. CASE k \in Past
  <2>1. HasWord(i, k)
    BY <1>3, <1>4 DEF PastHasTold
  <2>2. ~(HandleHosts(j) /\ i = j /\ k \notin ints[i] /\ Latest(i, k) # {})
    BY <1>3, <1>4, <2>1, ResetIsSpared
  <2> QED
    BY <1>1, <2>1, <2>2, HasWordKept
<1>5. CASE k \notin Past
  <2>1. k = j /\ phase'[k] # phase[k]
    BY <1>0, <1>5, Bystanders DEF Past
  <2>2. ListHosts(j) \/ HandleInts(j)
    BY <1>0, <1>5, <2>1
       DEF StepOf, NodeStep, LoopStep, Boot, Fail, ReplicaUp, Arrive, HandleEarly, Enter, HostUp,
           ConfigServerRuns, HandleLate, Informed, HandleHosts, Inform, InformRaises, Past
  <2>3. ~ListHosts(j)
    <3> SUFFICES ASSUME ListHosts(j)
                 PROVE  FALSE
      OBVIOUS
    <3>1. Running = {}
      BY <1>3, <2>1
    <3>2. phase[0] # "up"
      BY <3>1, ShardAssumption DEF Running
    <3>3. phase'[j] = "listed"
      BY <1>0, <3>1, <3>2 DEF ListHosts
    <3> QED
      BY <2>1, <3>3
  <2>4. HandleInts(j) /\ Ready(j) /\ phase[j] = "barrier"
    BY <1>0, <2>1, <2>2, <2>3 DEF HandleInts
  <2>5. Heard(k)[i].ready
    BY <1>0, <2>1, <2>4 DEF Ready
  <2>6. Heard(k)[i] = IF i \in ints[k] THEN Status(TRUE, TRUE, table[k][i].ip) ELSE table[k][i]
    BY <1>0 DEF Heard
  <2>7. table[k][i].notified
    <3>1. CASE i \in ints[k]
      BY <1>3, <2>1, <2>4, <3>1 DEF Presumed
    <3>2. CASE i \notin ints[k]
      BY <1>0, <2>1, <2>4, <2>5, <2>6, <3>2 DEF ReadyIsNotified, HasTable
    <3> QED
      BY <3>1, <3>2
  <2>8. HasWord(i, k)
    BY <1>0, <1>3, <2>1, <2>4, <2>7 DEF NotifiedKnows, HasTable
  <2>9. i # j
    BY <1>0, <2>1
  <2> QED
    BY <1>1, <2>8, <2>9, HasWordKept
<1> QED
  BY <1>4, <1>5

LEMMA StutterOwedInv ==
  ASSUME OwedInv, UNCHANGED barrierVars
  PROVE  OwedInv'
<1>1. NoLaterAddress'
  BY DEF OwedInv, NoLaterAddress, HasTable, barrierVars, loopVars, mailVars
<1>2. AddressKnown'
  BY DEF OwedInv, AddressKnown, KnowsAddress, HasTable, barrierVars, loopVars, mailVars
<1>3. ReadyIsNotified'
  BY DEF OwedInv, ReadyIsNotified, HasTable, barrierVars, loopVars
<1>4. NotifiedKnows'
  BY DEF OwedInv, NotifiedKnows, HasWord, HasTable, barrierVars, loopVars, mailVars
<1>5. PastHasTold'
  BY DEF OwedInv, PastHasTold, HasWord, HasTable, Past, barrierVars, loopVars, mailVars
<1> QED
  BY <1>1, <1>2, <1>3, <1>4, <1>5 DEF OwedInv

(* Addresses, statuses and words of the nodes agree with each other.         *)
THEOREM OwedInvariant == BarrierSpec => []OwedInv
<1>1. BarrierInit => OwedInv
  BY InitOwedInv
<1>2. BarrierInv /\ OwedInv /\ [BarrierNext]_barrierVars => OwedInv'
  <2> SUFFICES ASSUME BarrierTypeOK, OwedInv, [BarrierNext]_barrierVars
               PROVE  OwedInv'
    BY DEF BarrierInv
  <2>1. CASE UNCHANGED barrierVars
    BY <2>1, StutterOwedInv
  <2>2. ASSUME NEW j \in Shards, StepOf(j)
        PROVE  OwedInv'
    BY <2>2, NoLaterStep, AddressStep, ReadyStep, NotifiedStep, PastStep DEF OwedInv
  <2> QED
    BY <2>1, <2>2 DEF BarrierNext, StepOf
<1> QED
  BY <1>1, <1>2, BarrierInvariant, PTL DEF BarrierSpec

(* A node in the barrier never waits in vain for another that is on, unless  *)
(* that one spares it: it has been told, or the other has its address, or    *)
(* will hear it last, and is still to tell it.                               *)
THEOREM NobodyForgotten == BarrierSpec => []WordOwed
<1>1. ASSUME BarrierTypeOK, OwedInv
      PROVE  WordOwed
  <2> SUFFICES ASSUME NEW i \in Shards, NEW k \in Others(i),
                      phase[i] = "barrier", k \notin spared[i],
                      ~HasWord(i, k), phase[k] \notin {"off", "booted"}
               PROVE  HasTable(k) /\ WillTell(k, i)
    BY DEF WordOwed
  <2>0. k \in Shards /\ i \in Others(k)
    BY DEF Others
  <2>1. k \notin Past
    BY <1>1 DEF OwedInv, PastHasTold, OnTheWay
  <2>2. HasTable(k)
    BY <1>1, <2>0, <2>1 DEF BarrierTypeOK, Past, HasTable
  <2>3. KnowsAddress(k, i)
    BY <1>1, <2>0, <2>2 DEF OwedInv, AddressKnown, OnTheWay, HasTable
  <2>4. table[k][i].ip = ip[i] => ~table[k][i].notified
    BY <1>1, <2>2 DEF OwedInv, NotifiedKnows, OnTheWay
  <2> QED
    BY <2>2, <2>3, <2>4 DEF KnowsAddress, WillTell
<1> QED
  BY <1>1, OwedInvariant, BarrierInvariant, PTL DEF BarrierInv
=============================================================================
