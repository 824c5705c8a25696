---------------------------- MODULE ShardBarrier ----------------------------
(***************************************************************************)
(* The first nodes (replica set index 0) of the shards of a MongoDB        *)
(* cluster, from HostInit to HostUp (handlers/mongodb.py,                  *)
(* on_before_host_up).  A node waits in the rs-0 barrier until the node of *)
(* every other shard has told it that it waits there as well.  Nodes fail  *)
(* and are replaced; Scalr tells the others of both.                       *)
(***************************************************************************)
EXTENDS Naturals, Sequences

CONSTANTS
  Shards,   \* shard indexes; the config server is at shard 0
  MaxBoots  \* bound on the instances of a shard's node

ASSUME ShardAssumption == 0 \in Shards /\ MaxBoots \in Nat

VARIABLES
  phase,    \* off, booted, listed, barrier, config, router, up
  ip,       \* the address of the node's last instance
  replicas, \* the shards with a replica that is Running
  step,     \* where a node is in the barrier's loop: notify, hosts, ints
  todo,     \* nodes that are still to be informed, this time
  table,    \* status_table
  sent,     \* HostInits and HostDowns that are on their way to a node
  hosts,    \* ... and those in its store that it has not looked at
  ints,     \* unhandled IntBeforeHostUps in its store, as their senders
  entered,  \* history: the shards whose node has been in the barrier
  spared    \* history: the instances that will not inform a node's instance

loopVars == <<step, todo, table>>
mailVars == <<sent, hosts, ints>>
barrierVars == <<phase, ip, replicas, loopVars, mailVars, entered, spared>>

NoAddress == 0
Status(ready, notified, addr) == [ready |-> ready, notified |-> notified, ip |-> addr]
Statuses == [ready : BOOLEAN, notified : BOOLEAN, ip : 0..MaxBoots]
HostMessages == [name : {"HostInit", "HostDown"}, of : Shards, ip : 0..MaxBoots]

Others(i) == Shards \ {i}
Past == {i \in Shards : phase[i] \in {"config", "router", "up"}}

BarrierInit ==
  /\ phase = [i \in Shards |-> "off"]
  /\ ip = [i \in Shards |-> NoAddress]
  /\ replicas = {}
  /\ step = [i \in Shards |-> "notify"]
  /\ todo = [i \in Shards |-> {}]
  /\ table = [i \in Shards |-> <<>>]
  /\ sent = [i \in Shards |-> <<>>] /\ hosts = sent
  /\ ints = [i \in Shards |-> {}]
  /\ entered = {}
  /\ spared = [i \in Shards |-> {}]

-----------------------------------------------------------------------------
(* Scalr and the instances. *)

(* Scalr sends to the nodes that are on. *)
Broadcast(m) ==
  sent' = [k \in Shards |->
             IF k # m.of /\ phase[k] # "off" THEN Append(sent[k], m) ELSE sent[k]]

Boot(i) ==
  /\ phase[i] = "off"
  /\ ip[i] < MaxBoots
  /\ phase' = [phase EXCEPT ![i] = "booted"]
  /\ ip' = [ip EXCEPT ![i] = @ + 1]
  /\ Broadcast([name |-> "HostInit", of |-> i, ip |-> ip[i] + 1])
  /\ spared' = [spared EXCEPT ![i] = Past]
  /\ UNCHANGED <<replicas, loopVars, hosts, ints, entered>>

Fail(i) ==
  /\ phase[i] # "off"
  /\ ip[i] < MaxBoots
  /\ phase' = [phase EXCEPT ![i] = "off"]
  /\ LET down == [name |-> "HostDown", of |-> i, ip |-> ip[i]]
     IN  sent' = [k \in Shards |->
                    IF k = i THEN <<>>
                    ELSE IF phase[k] # "off" THEN Append(sent[k], down) ELSE sent[k]]
  /\ hosts' = [hosts EXCEPT ![i] = <<>>]
  /\ ints' = [ints EXCEPT ![i] = {}]
  /\ step' = [step EXCEPT ![i] = "notify"]
  /\ todo' = [todo EXCEPT ![i] = {}]
  /\ table' = [table EXCEPT ![i] = <<>>]
  /\ spared' = [k \in Shards |-> IF k = i THEN {} ELSE spared[k] \ {i}]
  /\ UNCHANGED <<ip, replicas, entered>>

(* A replica, which waits for the config server. *)
ReplicaUp(i) ==
  /\ phase[i] = "up" /\ phase[0] = "up"
  /\ replicas' = replicas \cup {i}
  /\ UNCHANGED <<phase, ip, loopVars, mailVars, entered, spared>>

Arrive(i) ==
  /\ sent[i] # <<>>
  /\ sent' = [sent EXCEPT ![i] = Tail(@)]
  /\ hosts' = [hosts EXCEPT ![i] = Append(@, Head(sent[i]))]
  /\ UNCHANGED <<phase, ip, replicas, loopVars, ints, entered, spared>>

-----------------------------------------------------------------------------
(* A node on its way to the barrier. *)

(* The message handler, until it is busy with HostInitResponse. *)
HandleEarly(i) ==
  /\ phase[i] = "booted"
  /\ hosts[i] # <<>>
  /\ hosts' = [hosts EXCEPT ![i] = Tail(@)]
  /\ UNCHANGED <<phase, ip, replicas, loopVars, sent, ints, entered, spared>>

(* list_roles(with_init=True).  The cluster is new unless a host is Running. *)
Listed(i) == {k \in Others(i) : phase[k] # "off"}
Running == {k \in Shards : phase[k] = "up"} \cup replicas

ListHosts(i) ==
  /\ phase[i] = "booted"
  /\ phase' = [phase EXCEPT ![i] =
                 IF phase[0] = "up" THEN "router"
                 ELSE IF Running = {} THEN "listed"
                 ELSE IF i # 0 THEN "config"
                 ELSE "router"]
  /\ table' = [table EXCEPT ![i] =
                 [k \in Others(i) |->
                    Status(FALSE, FALSE, IF k \in Listed(i) THEN ip[k] ELSE NoAddress)]]
  /\ spared' = IF Running = {} THEN spared
               ELSE [k \in Shards |-> IF k = i THEN spared[k] ELSE spared[k] \cup {i}]
  /\ UNCHANGED <<ip, replicas, step, todo, mailVars, entered>>

(* mongod has been initialized and restarted.                               *)
Uninformed(i, statuses) ==
  {k \in Others(i) : ~statuses[k].notified /\ statuses[k].ip # NoAddress}

Enter(i) ==
  /\ phase[i] = "listed"
  /\ phase' = [phase EXCEPT ![i] = "barrier"]
  /\ entered' = entered \cup {i}
  /\ todo' = [todo EXCEPT ![i] = Uninformed(i, table[i])]
  /\ UNCHANGED <<ip, replicas, step, table, mailVars, spared>>

-----------------------------------------------------------------------------
(* The loop of the barrier. *)

(* The internal consumer is started when HostInitResponse comes.            *)
Hears(k, addr) == ip[k] = addr /\ phase[k] \notin {"off", "booted"}

Inform(i, k) ==
  /\ phase[i] = "barrier" /\ step[i] = "notify"
  /\ k \in todo[i]
  /\ Hears(k, table[i][k].ip)
  /\ ints' = [ints EXCEPT ![k] = @ \cup {i}]
  /\ table' = [table EXCEPT ![i][k].notified = TRUE]
  /\ todo' = [todo EXCEPT ![i] = @ \ {k}]
  /\ UNCHANGED <<phase, ip, replicas, step, sent, hosts, entered, spared>>

(* Mutant: the status says notified though the message was not sent. *)
InformRaisesUnnoticed(i, k) ==
  /\ phase[i] = "barrier" /\ step[i] = "notify"
  /\ k \in todo[i]
  /\ todo' = [todo EXCEPT ![i] = @ \ {k}]
  /\ table' = [table EXCEPT ![i][k].notified = TRUE]
  /\ UNCHANGED <<phase, ip, replicas, step, ints, sent, hosts, entered, spared>>

(* Nobody listens there, or the connection breaks before or after the       *)
(* message is taken.                                                        *)
InformRaises(i, k) ==
  /\ phase[i] = "barrier" /\ step[i] = "notify"
  /\ k \in todo[i]
  /\ todo' = [todo EXCEPT ![i] = @ \ {k}]
  /\ \/ UNCHANGED ints
     \/ Hears(k, table[i][k].ip) /\ ints' = [ints EXCEPT ![k] = @ \cup {i}]
  /\ UNCHANGED <<phase, ip, replicas, step, table, sent, hosts, entered, spared>>

Informed(i) ==
  /\ phase[i] = "barrier" /\ step[i] = "notify"
  /\ todo[i] = {}
  /\ step' = [step EXCEPT ![i] = "hosts"]
  /\ UNCHANGED <<phase, ip, replicas, todo, table, mailVars, entered, spared>>

(* The last message about a shard counts.                                   *)
About(i, k) == {n \in DOMAIN hosts[i] : hosts[i][n].of = k}
Latest(i, k) == {n \in About(i, k) : \A n2 \in About(i, k) : n2 <= n}

StatusOf(m) == Status(FALSE, FALSE, IF m.name = "HostInit" THEN m.ip ELSE NoAddress)

(* A status is reset though its node has sent its message already.          *)
Forgotten(i, k) ==
  /\ Latest(i, k) # {}
  /\ table[i][k].ready
  /\ k \in Past \/ (phase[k] = "barrier" /\ table[k][i].notified /\ table[k][i].ip = ip[i])

(* They stay unhandled for the message handler, and are looked at once.     *)
(* Those of servers of other roles are left out: they have no mongodb part, *)
(* which would raise, out of the barrier (mongodb.py:485).                  *)
HandleHosts(i) ==
  /\ phase[i] = "barrier" /\ step[i] = "hosts"
  /\ table' = [table EXCEPT ![i] =
                 [k \in Others(i) |->
                    IF Latest(i, k) = {} THEN @[k]
                    ELSE StatusOf(hosts[i][CHOOSE n \in Latest(i, k) : TRUE])]]
  /\ hosts' = [hosts EXCEPT ![i] = <<>>]
  /\ step' = [step EXCEPT ![i] = "ints"]
  /\ spared' = [spared EXCEPT ![i] = @ \cup {k \in Others(i) : Forgotten(i, k)}]
  /\ UNCHANGED <<phase, ip, replicas, todo, sent, ints, entered>>

(* An instance that tells of itself is taken to have been informed.         *)
Presumed(i, k) == k \in ints[i] /\ ~table[i][k].notified

Heard(i) ==
  [k \in Others(i) |->
     IF k \in ints[i] THEN Status(TRUE, TRUE, table[i][k].ip) ELSE table[i][k]]

(* Mutant: all is ready when all of the hosts that are known are. *)
ReadyOfKnown(i) == \A k \in Others(i) : Heard(i)[k].ip # NoAddress => Heard(i)[k].ready

Ready(i) == \A k \in Others(i) : Heard(i)[k].ready

(* IntBeforeHostUps; then the node sleeps or leaves.                        *)
HandleInts(i) ==
  /\ phase[i] = "barrier" /\ step[i] = "ints"
  /\ table' = [table EXCEPT ![i] = Heard(i)]
  /\ ints' = [ints EXCEPT ![i] = {}]
  /\ step' = [step EXCEPT ![i] = "notify"]
  /\ phase' = [phase EXCEPT ![i] = IF Ready(i) THEN "router" ELSE @]
  /\ todo' = [todo EXCEPT ![i] =
                IF Ready(i) THEN {} ELSE Uninformed(i, Heard(i))]
  /\ spared' = [k \in Shards |->
                  IF k # i /\ (Presumed(i, k) \/ (Ready(i) /\ table[i][k].ip # ip[k]))
                  THEN spared[k] \cup {i} ELSE spared[k]]
  /\ UNCHANGED <<ip, replicas, sent, hosts, entered>>

-----------------------------------------------------------------------------
(* After the barrier. *)

(* list_roles() without with_init: hosts that are Running.                  *)
ConfigServerRuns(i) ==
  /\ phase[i] = "config"
  /\ phase[0] = "up"
  /\ phase' = [phase EXCEPT ![i] = "router"]
  /\ UNCHANGED <<ip, replicas, loopVars, mailVars, entered, spared>>

(* The router and the shard are set up, and HostUp is sent.                 *)
HostUp(i) ==
  /\ phase[i] = "router"
  /\ phase' = [phase EXCEPT ![i] = "up"]
  /\ UNCHANGED <<ip, replicas, loopVars, mailVars, entered, spared>>

(* The message handler takes what is left in the store.                     *)
HandleLate(i) ==
  /\ i \in Past
  /\ hosts[i] # <<>> \/ ints[i] # {}
  /\ hosts' = [hosts EXCEPT ![i] = <<>>]
  /\ ints' = [ints EXCEPT ![i] = {}]
  /\ UNCHANGED <<phase, ip, replicas, loopVars, sent, entered, spared>>

LoopStep(i) ==
  Informed(i) \/ HandleHosts(i) \/ HandleInts(i) \/ \E k \in Others(i) : Inform(i, k)

NodeStep(i) ==
  \/ HandleEarly(i) \/ ListHosts(i) \/ Enter(i) \/ ConfigServerRuns(i) \/ HostUp(i)
  \/ HandleLate(i)

BarrierNext ==
  \E i \in Shards :
    \/ Boot(i) \/ Fail(i) \/ ReplicaUp(i) \/ Arrive(i) \/ NodeStep(i) \/ LoopStep(i)
    \/ \E k \in Others(i) : InformRaises(i, k)

(* Scalr replaces a node and delivers its messages; threads run, and a send *)
(* ends; one of those to a node that listens arrives in the end.            *)
BarrierFairness ==
  \A i \in Shards :
    /\ WF_barrierVars(Boot(i)) /\ WF_barrierVars(Arrive(i))
    /\ WF_barrierVars(ListHosts(i)) /\ WF_barrierVars(Enter(i))
    /\ WF_barrierVars(ConfigServerRuns(i)) /\ WF_barrierVars(HostUp(i))
    /\ WF_barrierVars(Informed(i)) /\ WF_barrierVars(HandleHosts(i))
    /\ WF_barrierVars(HandleInts(i))
    /\ \A k \in Others(i) :
         WF_barrierVars(Inform(i, k) \/ InformRaises(i, k)) /\ SF_barrierVars(Inform(i, k))

BarrierSpec == BarrierInit /\ [][BarrierNext]_barrierVars /\ BarrierFairness

-----------------------------------------------------------------------------
BarrierTypeOK ==
  /\ phase \in [Shards -> {"off", "booted", "listed", "barrier", "config", "router", "up"}]
  /\ ip \in [Shards -> 0..MaxBoots]
  /\ replicas \subseteq Shards /\ entered \subseteq Shards
  /\ step \in [Shards -> {"notify", "hosts", "ints"}]
  /\ todo \in [Shards -> SUBSET Shards] /\ \A i \in Shards : i \notin todo[i]
  /\ DOMAIN table = Shards
  /\ \A i \in Shards : phase[i] \in {"listed", "barrier"} => table[i] \in [Others(i) -> Statuses]
  /\ sent \in [Shards -> Seq(HostMessages)] /\ hosts \in [Shards -> Seq(HostMessages)]
  /\ ints \in [Shards -> SUBSET Shards] /\ spared \in [Shards -> SUBSET Shards]

(* No node goes on to the router before the node of every shard has been in *)
(* the barrier.                                                             *)
EveryoneEntered == Past # {} => entered = Shards

(* A node leaves the barrier in the end, unless another will not send it    *)
(* the message: because it took the node for informed when it heard from    *)
(* it, had left the barrier before the node booted, joined a cluster that   *)
(* runs, or was heard before its HostInit came, which reset its status.     *)
BarrierEnds == \A i \in Shards : phase[i] = "barrier" ~> (phase[i] # "barrier" \/ spared[i] # {})
=============================================================================
