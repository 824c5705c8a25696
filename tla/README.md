# Scalarizr in TLA+

TLA+ specifications of the core of Scalarizr, the agent that runs on a cloud
server, talks to Scalr by messages and configures the server's roles. Paths are
relative to the repository; `P` stands for `src/scalarizr/messaging/p2p/`.

## 1. Inventory

| component | state it keeps | operations | what must be true of it |
|---|---|---|---|
| message store (`P/__init__.py`) | table `p2p_message`, list `_unhandled` | put and mark ingoing, put and mark outgoing, load, rotate | no accepted message is lost, none is handled twice, the tail stays |
| message consumer (`P/consumer.py`) | `running`, `handler_locked`, `handler_status`, `handing_message_id`, `message_to_ack`, `return_on_ack`, `ack_event`, two threads | `do_POST`, `message_handler`, `wait_acknowledge`, `wait_subhandler`, `shutdown` | waits end, for the right message; no double handling; shutdown leaves nothing at work |
| message producer (`P/producer.py`) | thread-local `interval`, `next_retry_index`, `delivered`; `_stop_delivery` | `send`, callbacks, `shutdown` | back-off, no silent loss, copies only in doubt |
| message format and security (`messaging/__init__.py`, `P/security.py`) | none | encode, decode, sign, verify | a pure function of a message |
| lifecycle and handler base (`handlers/lifecycle.py`, `handlers/__init__.py`) | state file, crypto keys, `bus.initialization_op` | `_start_init`, `on_HostInitResponse`, reboot, halt, operations | the state only moves forward; HostUp once, after BeforeHostUp |
| main program (`scalarizr/__init__.py`) | `_running`, `_pid`, `_snmp_pid`, `_snmp_scheduled_start_time`, pid file | start, services, SIGCHLD, SIGHUP, SIGTERM, main loop | one SNMP child; a signal ends or reloads the process |
| SQLite server (`util/sqlite_server.py`) | task queue, `_clients`, one `result`/`error`/`result_available` per proxy | `_call`, `serve_forever` | a caller gets the result of its own call |
| script executor (`handlers/script_executor.py`) | `in_progress`, `STATE['script_executor.in_progress']` | execute, wait, save at shutdown, restore at start | a script is reported once, over a restart |
| log messaging (`util/log.py`) | `entries`, sender thread, three flags | `emit`, `_sender`, `on_shutdown` | entries are sent once and none before the key is known |
| cloud file transfer (`storage2/cloudfs/__init__.py`) | retries queue, `_completed`, `_failed`, `_stop_all`; manifest, chunk events, `_killed`, tmpfs | workers, splitter, restorer, `kill` | every job completes or fails; a result is true; a killed upload leaves no chunk; transfers end |
| periodical executor, utilities (`util/__init__.py`) | tasks with `last_exec_time` | add, remove, execute, shutdown | a task runs once an interval |
| configuration, state, node (`config.py`, `node.py`) | ini files, `.state`, table `state` | bootstrap, update, get and set state | see lifecycle |
| service presets (`service.py`, `handlers/__init__.py`) | current, default and last successful preset | apply, restart, roll back | a preset that failed is never the last successful one |
| volumes and snapshots (`storage2/`, `storage/`) | volume configuration, cloud and device state | ensure, snapshot, detach, destroy | mostly external calls |
| role handlers (`handlers/*.py`) | per-role flags, DbMsr master and slave state; MongoDB's `status_table` | promotion, bundles, configuration, the rs-0 barrier | one master; nobody goes on before all are there |
| API and RPC, platforms, queryenv, linux, bus, command line, SNMP agent | little | request/response, wrappers | - |

Vendored code (`externals/`), packaging, init scripts and tests are left aside.

**How they interact.** `main` starts the consumer's HTTP thread, which starts the
`MessageHandler` thread, and fires `start` on the bus, on which the lifecycle runs
`_start_init` on the main thread. HTTP threads put messages into the store; the
handler thread polls the store every 0.1 s and calls the listeners, which fire bus
events synchronously, send messages (the producer, in the caller's thread) and may
start a subhandler thread. On mongodb and rabbitmq roles a second consumer, without
a handler, puts messages into the same store. All SQL goes through the single
thread of the SQLite server, in autocommit mode. The periodical executor rotates
the table. SIGTERM shuts everything down on the main thread.

**What is hard.** Two copies of the same data (list and table) that are updated in
two steps by several threads; waits that are set up statement by statement in
fields two threads share; retries after attempts that may have succeeded;
restarts between any two steps, while scripts outlive the process; signals on the
main thread; answers that come after their timeout; threads that wait for each other and have to be woken by a kill;
nodes that fail while others wait for them. `PROJECT.json` lists
the hazards one by one, with their lines.

## 2. Modules

| module | models | state |
|---|---|---|
| `MessageStore` | `_P2pMessageStore`, and `do_POST` as far as the answer goes | `table`, `cache` (the list, each entry with its place), `loaded`, `loading`, and where each thread is between its steps (`acceptor`, `marking`, `rotator`) |
| `MessageConsumer` | `P2pMessageConsumer` and its two waiting callers, composed with `MessageStore` | one variable per field; `thread` and `main` are program counters |
| `MessageProducer` | `P2pMessageProducer` composed with `MessageStore` | `sender` is a program counter, `interval` and `nextIndex` the thread-local state |
| `Mailbox` | what the store promises: a box of messages that outlives crashes | `box`, `promised`, `taken`, `dropped` |
| `MessageStoreRefinement` | the refinement mapping from `MessageStore` to `Mailbox` (`Offered`) | |
| `FileTransfer` | the worker pool of a transfer with its queue of retries | `worker` holds a thread's place and job, `retries`, `completed`, `failed`, `stopAll` are the fields |
| `LargeTransfer` | a chunked upload or download on top of `FileTransfer` | `disk` is the tmpfs, `downloaded` and `processed` the chunks' events, `restorer` and `task` program counters |
| `SqliteServer` | the database thread, its queue and the proxies | `proxy` has what is at each address, `clients`, `queue`, `serving` |
| `ScriptExecutor` | scripts in progress over stops, reloads, kills and restarts | `thread` and `proc` per execution, `saved` the entry in `STATE`, `stop` how far a shutdown is |
| `ShardBarrier` | the MongoDB nodes in `on_before_host_up`, Scalr and failures | `table` is `status_table`, `hosts` and `ints` the messages in a node's store |
| `MessageStoreProofs`, `MessageStoreRefinementProofs`, `MessageConsumerProofs`, `MessageProducerProofs`, `LargeTransferProofs`, `SqliteServerProofs`, `ScriptExecutorProofs`, `ShardBarrierProofs` | the theorems | |
| `MCMessageStore`, `MCMessageConsumer`, `MCMessageProducer`, `MCLargeTransfer`, `MCSqliteServer`, `MCScriptExecutor`, `MCShardBarrier` | the instances for TLC | |

A step of a model is what the code does without another thread being able to see
the middle of it: one section under `_local_storage_lock`, one SQL statement, or
one statement on a shared field. So `put_ingoing` is `PutCache`, then `PutRow`,
`PutRowRaises` or `ReplyRaises`; `mark_as_handled` is `MarkCache`, then `MarkRow` or
`MarkRowRaises`; `rotate` is `RotateSelect`, then `RotateDelete`. `Restart` can
come between any two of them: it keeps the table and forgets everything else.

The consumer and the producer are compositions: each of their actions is a
conjunction of an action of the store, or `UNCHANGED storeVars`, with their own
part. `MessageConsumer` leaves out rotation, outgoing rows, redeliveries and restarts, which
touch none of its variables; `MessageStore` has them.

**The mailbox.** Users of the store need not know that it is a list and a table
with threads half-way between them. `Mailbox` has five actions: a message is
deposited, promised (201), taken, dropped, and a crash keeps all that is promised and neither
taken nor dropped, and adds nothing that was never there. `Offered` says what the
store offers: the list once it is loaded; the rows a load in progress has read;
else the unhandled rows. Under it `PutCache` is `Deposit`, `Accept` is `Promise`, the
first half of `mark_as_handled` is `Take` (the UPDATE is invisible), rotation
and a load that raises are `Drop`, `Restart` is `Crash`, and every other step is a stutter,
both halves of a successful load among them. A taken message may come back
by a crash: that is all `Mailbox` can say, see finding 1.

**Transfers.** `LargeTransfer` is a composition too: its listeners run in the
workers' threads and its generator under the source's lock, so each worker's step is
one of `FileTransfer`'s with the listener's or generator's effect. A file is its
chunks, which with the manifest are the jobs; the upload's manifest is the last job, the
download's the first, and the source waits there until `wait_manifest` sets the event.
`Retry` and `GiveUp` are the `except` clause: a driver that raises, a listener
that raises, or an event that `kill` interrupts. The restorer is a thread that takes
the chunks in order.

**The database thread.** A proxy has the hash of its address. `NewProxy` may use an
address again as soon as `Forget` has freed it, and calls of the proxy before may
still be queued. The job that makes a cursor known refers to its proxy
(`Referred`), which is what keeps the two apart. Answers and errors take the same way, so an answer is
the call that it answers.

**Scripts.** Each execution is a script with its number; `Save` is `on_shutdown`, `Mark` and
`Mute` the shutdown of messaging, `Exit` the end of the process, which waits for its
threads. A reload is the same without an exit; then `start` is not fired again, so
what was saved is not restored. It makes a new `ScriptExecutor`, and the old one goes on with what it had (`older`):
at the next stop both save, under one key, and the newer one's list overwrites the other's, so `Save` is
of what is in progress and not `older`. An exception on the main thread ends `on_start`'s loop (`Unwind`), with
the rest of its list; on any other thread `wait` swallows it and an empty result is sent. While the main thread is in a signal handler
(`InSignal`), the synchronous script that it is restoring stands still.

**The barrier.** A node's loop is `Inform` or `InformRaises` for each node in `todo`,
`Informed`, `HandleHosts`, `HandleInts`. HostInits and HostDowns come from Scalr, in order and
late; IntBeforeHostUps from the other nodes, at any time from when the
internal consumer is started. `spared` records every way in which an instance came
not to be told by another, for `BarrierEnds`.

**Abstractions.** A message is its id; its name, server id and body only matter to
`Acknowledges`, in which `ForeignHostInit` has the name of `HostInit` and another
server id. What a listener does is not modelled beyond returning, raising, or being
`on_HostInitResponse`. Row ids and list places come from one `clock`, of which only
the order matters. `MaySend` and `Received` stand for Scalr, which is not in the repository.
Operators under a comment "Mutant:" are deliberate defects of the definition
that follows them; no specification uses them. They show that the properties can fail.

**Histories.** `accepted`, `marked`, `settled`, `trimmed`, `unstored` (store), `asked`,
`hostInit`, `hostUp`, `overlapped`, `missed`, `raised` (consumer), `copies`, `doubts`, `fails`, `outcome` (producer), `rejected` (transfer), a
proxy's `number`, `calls`, `last`, `late` (SQLite), `killed`, `late`, `kept`, `lost` (scripts), `entered`,
`spared` (barrier) record what happened for the properties; only `asked` guards an action,
Scalr's, and `number`, `calls` and `raised` bound the state.

## 3. Runs

| run | question | bounds |
|---|---|---|
| `store` | do list and table stay in step, is the store a `Mailbox`, and is every accepted message handled? | 2 HTTP threads, 1 handler, 2 messages of which one is a reply, 2 puts, 1 outgoing, tail of 1, 1 restart |
| `store_reload` (violated) | does a load return only what is unhandled? | 1 message, 1 restart |
| `consumer` | lost acknowledges, double handling, waits, shutdown, with raising SQL | any 3 of 4 messages: HostInit of this and of another server, HostInitResponse, BeforeHostUp; 1 raised mark |
| `consumer_live` | do the waits end and are messages handled? | the 3 messages of this server, no raised mark |
| `consumer_lost_ack` (violated) | does host_init fire once HostInit was sent? | HostInit alone, no raised mark |
| `consumer_blocking` (violated) | is HostUp held back until BeforeHostUp was handled? | the 4 messages, no raised mark |
| `producer` | back-off, results, copies, and does send end? | 2 threads that share a producer, 1 without retries, 2 messages, 2 intervals, counters to 3 |
| `transfer` | are jobs lost or doubled, are results true, does a kill clean up, do transfers end? | 2 workers, a manifest and 2 chunks, 1 retry, upload or download, 1 kill at any moment |
| `transfer_kill` (violated) | does a killed upload leave nothing in the cloud? | the same |
| `sqlite` | does a call get its own answer, and one at all? | 2 addresses, 2 proxies at each in turn, 3 calls of each |
| `scripts` | are scripts executed once, and results sent once and in the end? | 1 message with an asynchronous and a synchronous script, 2 executions, 2 stops, reloads or kills |
| `barrier` | does nobody go on before all are there, and does everybody in the end? | 2 shards, 1 failure of each node |

**Why the bounds are enough.** Two puts give a message and its redelivery, or two
messages of which one is put while the other is rotated away; two HTTP threads
give every interleaving of two puts; with a tail of one row, three rows (two
ingoing, one outgoing) are enough for a row to be selected, another inserted, and the
first deleted. One restart separates a before from an after; `MaxRestarts` and `MaxPuts` only
bound the state, and the theorems do without them. Two
intervals and three failures visit the first interval, the step to the last, and its
repetition. The consumer's four messages are all those its waits tell apart, and each wait is about two of
them and what is handled meanwhile; `MaxRaises` bounds the state only, and the theorems do without it. Two
workers and three jobs with one retry give the worker that leaves while another puts a job
back, and a chunk that is at the restorer while the next is loaded. Two
proxies in turn at an address give every overlap of an old proxy's calls with the next proxy's;
three calls are one that creates the cursor, one that times out and one that may
find its late answer. Two stops are a stop, its restart, and a
second stop before all is restored; or a reload and a stop, at which two executors save. Two shards with one failure each give all
that two nodes can do to each other: late HostInits, a replaced node's old message, a node that
joins late; `EveryoneEntered` is proved for any number of shards, `BarrierEnds` is only checked for
two, since the fairness of every send makes three too large for TLC.

Deadlock is not checked: every model may stop, when its bounds are used up,
when the consumer is shut down, when there is nothing to send, when a transfer has ended or hangs
behind a dead restorer, and when all nodes are up.

**Properties.** Store: `NoAcceptedLoss` (a message answered with 201 is pending
until it was handled or rotated away), `PendingRecorded` (what is in memory is on disk),
`RotateKeepsTail`, `ImplementsMailbox` (refinement), `AcceptedIsHandled` (liveness). Consumer: `NoDoubleHandling`,
`AckedBeforeProceeding`, `AckComing` (an acknowledge is lost in the named ways only), `QuietWhenDown`, `HostInitFiresOrMishap`, `AcceptedIsListened`. Producer:
`BackoffFollowsProgression`, `ResultIsTrue`, `CopiesOnlyInDoubt`, `SendEnds`. Transfer: `NothingLost`,
`AtMostOneEach`, `OnePlace` (the pool); `UploadResultTrue`, `DownloadResultTrue`, `KillCleans`, `ReadsWholeChunk` (the restorer
reads no chunk that is being written), `TransitVolumeFits` (with `AtMostOneEach`: the tmpfs never holds more than
a chunk per worker and those given up), `KilledEnds`, `TransferEnds`. SQLite: `NoForeignAnswer`, `OwnAnswer` (while
nothing timed out), `AnswersInOrder` (also after), `CallsReturn` (without the timeout's help). Scripts: `ExecutedOnce`,
`SentTwiceOnlyLate`, `ResultSent`. Barrier: `EveryoneEntered`, `BarrierEnds`. Where the code keeps a promise only
up to known exceptions, the property names them: a dead restorer that killed nothing
hangs a download; a source that raised ends an upload with the manifest as its result and what was yielded before it in
the cloud, and a download before its manifest is read with nothing restored; a rejected job is counted as completed; a
result is lost by a kill, by a reload (whose new executor overwrites at the next stop what the old one saves), by a second
stop, by an exception on the main thread, or by an entry
saved before its script was started; a node waits for ever when the node it waits for
took it for informed, left before it booted, joined a running cluster, or reset its status.

**Fairness.** Store: the handler polls, so `Load` is weakly fair; it walks the
whole list each time, so no message on it is passed over for ever, which is strong fairness
of `HandleOne(m)`, because the thread is busy in between; an SQL statement returns or raises. Consumer:
each thread goes on (weak fairness of its steps), listeners return, and Scalr
broadcasts back what it was sent; nothing makes the process shut down. Producer: a peer that is tried for ever answers in the
end, and a database that is tried for ever works in the end (strong fairness, since
failures come in between); this is the only thing that ends `while not delivered`. Transfer: threads run, and a
driver's calls return or raise. No fairness asks for a failure where a thread waits: the restorer's own exception
(`RestorerDies`) and the source's (`SourceBreaks`) may happen and need not, so that threads which wait for each other stay
so and `TransferEnds` would be violated. SQLite: the server thread and the waiting caller run; the timeout
is not fair. Scripts: threads run, a script ends or reaches its timeout, a stopped
scalarizr is started again; nothing need stop it. Barrier: Scalr replaces nodes and delivers
its messages, threads run, each send ends (weak), and a send that is tried for ever to a node that listens succeeds in the
end (strong fairness of `Inform`, as a failure comes in between).

**Conditions.** Nothing is assumed of when Scalr answers: it may broadcast HostInit back, and answer it, as soon as
`_start_init` has sent it, which is before it waits. What then goes wrong is named by three histories, whose disjunction is
`Mishap`: `missed` (HostInit was handled in a walk of the whole list, or `clear` undid its event; run `consumer_lost_ack`),
`overlapped` (`wait_subhandler` was called during `wait_acknowledge`; run `consumer_blocking`) and `raised` (a raised UPDATE in
`_handle_one_message` skips the acknowledge, with the message off the list). `AckComing` and the liveness properties
say that there is no fourth. `AckedBeforeProceeding` and `NoDoubleHandling` hold with early answers, missed
acknowledges and raised statements, and except the overlap alone, in which both are false: see finding 3.

## 4. Findings

1. `store_reload`: `put_ingoing` appends before it inserts. A message that is handled
   and marked in between leaves an unhandled row, and the next start handles
   it again. Neither `NoAcceptedLoss` nor `PendingRecorded` is touched: the error is
   on the side of handling too often.
2. `consumer_lost_ack`: `wait_acknowledge` sets `message_to_ack` before it clears
   `ack_event`; an acknowledge handled in between is lost and initialization hangs.
3. `consumer_blocking`: HostInitResponse can be decrypted as soon as the new key is written, before
   `wait_acknowledge` is called. `wait_subhandler` on the handler thread and `wait_acknowledge` on the main thread
   then share `message_to_ack` and `return_on_ack`: the acknowledge of HostInit ends the subhandler, and HostUp
   is sent though BeforeHostUp was not handled. If the main thread resets `return_on_ack` last, the subhandler does not end but
   walks the whole list and calls the listeners with the HostInitResponse that the handler thread is still in.
   A shutdown ends the subhandler as well, and HostUp is sent.
4. `transfer_kill`: `Manifest.delete` deletes the chunks, not the manifest's object. The acceptance
   test of a killed upload (`tests/acceptance/large_transfer.feature:87-91`) expects the path to be empty, and
   `_kill` logs "Deleting manifest"; a kill after the manifest was put leaves it in the cloud,
   naming chunks that are gone.

## 5. Proofs

For every value of the constants under the named assumptions: `StoreAssumption`
(ingoing and outgoing ids are distinct, the tail is not empty), `ConsumerAssumption`
(the clients of the store are the three threads), `DistinctMessages` (HostInit, HostInitResponse and
BeforeHostUp are three messages), `ProducerAssumption` (a
non-empty progression), `TransferAssumption` and `LargeAssumption` (finitely many workers, at least a chunk
and a manifest), `ServerAssumption`, `ScriptAssumption` with `PlaceAssumption` (messages are non-empty sequences
of scripts, and a script has one place in one message) and `ShardAssumption` (shard 0
is there). TLC evaluates them in each run.

- `StoreTypeCorrect`, then `StoreInvariant`. `NoAcceptedLoss` alone is not inductive:
  while a thread is inside the lazy load the list is not there to say what is pending,
  and while a put or a mark is half done list and table differ. `StoreInv` adds
  `LoadCovers` (what a load has selected covers every unhandled row, as no put can
  start before the list exists), `FreshStart`, `PutsHeld` (a message in the middle of a put is
  on the list, and from its INSERT on pending), `ListFirst` (a row is marked only after its
  message left the list) and `CutBehindTail` (the row that rotate has selected keeps
  its newer rows, since ids only grow). One lemma per conjunct, one step per action.
- `NoAcceptedLossHolds`, `PendingRecordedHolds` follow from it; `RotationKeepsTail` is
  the action property, from `CutBehindTail` and monotonicity of `Newer` (cardinality facts from
  the library).
- `StoreImplementsMailbox`: one case per action of the store. It needs `RefinementInv`, which adds
  to `StoreInv` that the list lacks no unhandled row but those of taken messages (`Listed`,
  so that a crash brings back nothing that was not there, and a second mark of a
  message is a stutter), and that what a load in progress has read is pending unless
  rotated away (`LoadFresh`, so that a load that raises gives up nothing else): without
  the list no message can be marked.
- `ConsumerUsesStore`, `ProducerUsesStore`: each step of the composed modules is a step
  of the store or a stutter, so that the store's invariants carry over:
  `ConsumerLosesNothing`.
- `ConsumerTypeCorrect`: the one step that is not plain is `Scan`, whose CHOOSE needs a
  first entry to exist: a set of naturals has a least one (`WFMin` of the library).
- `QuietWhenDownHolds`, by `QuietInv`: a subhandler is at work only while the handler thread
  is in its join (`SubWithinJoin`), so that joining the handler thread is
  enough; a message is between list and table only while some thread's counter says
  so (`MarkingKnown`); once the server is shut no request is being served (`ServerShut`).
- `WaitInvariant`, and from it `AckedBeforeProceedingHolds` and `NoDoubleHandlingHolds`, however early Scalr
  answers and whatever raises: `WaitInv` holds until the two waits overlap. The parts of `WaitInv`: the list is what was put and not
  marked, each message once (`ListExact`); what a thread has in hand is marked from its row on (`InHand`,
  `ToWalk`); the copy of the list that a thread walks without the lock does not go stale, since the other threads
  mark only what it passes over (`Fresh`); what `shutdown` would mark was marked or begun
  (`HandingBegun`); an answer comes after what it answers (`SentFirst`); Main goes on only when HostInit is
  marked (`WaitHeld`), and a handler that looks for an acknowledge takes nothing else (`HostInitFirst`); the second wait is
  set up after the first (`WaitsInTurn`); the subhandler looks for BeforeHostUp alone (`SubInv`).
- `AckComingHolds`: an acknowledge is lost by a `Mishap` only. But for one, when HostInit was handled the event is set,
  or the handler thread is on its way to set it, so that nothing else is needed to wake Main. No hypothesis on Scalr or the
  database. `TakenToAck` is what makes it inductive: a HostInit in hand was looked for, or it is `missed`.
- `BackoffCorrect`: `BackoffFollowsProgression` is inductive together with the types of
  the retry state; `ProducerTypeCorrect` needs it, as the index into the progression is only
  bounded by it.
- `CopiesOnlyInDoubtHolds`, `ResultIsTrueHolds`, by `DeliveryInv`: a message belongs to one call
  (`OneCall`), before an attempt every copy is in doubt, after it at most one is certain
  (`CopiesCounted`); and a returned message has no undelivered row (`RowsTell`), since its
  row is never inserted again.

- `LargeTransferProofs`. `TransferInvariant`, of `FileTransfer` alone: that no job is lost needs `Tracked` (each yielded
  job is in a list, on the queue or in hands) and `QueueCovered`: the queue holds no more jobs
  than there are workers who put one there and come back to look, so that it is
  empty when the last has left. `NoJobLost`, `OneJobEach` and `JobsApart` follow; `LargeTransfers` shows that a
  `LargeTransfer` takes only steps of the pool. `LargeInvariant` adds `TaskInv` (who is where when the task is), `UploadInv`
  (what was completed is in the cloud until the upload is spoilt, and then no chunk is, but for a killer that
  is still to delete), `DownloadInv` (a completed chunk is processed or being reported) and `SourceInv` (the source of a
  download breaks off only at the manifest, and then nothing was restored), from which `UploadTrue`,
  `SpoiltUploadCleaned` and `DownloadTrue` follow. `DiskInvariant`: chunks on the tmpfs are those on the queue
  or in hands (`OnDisk`) and, of the rest, those that failed for good (`DiskUsed`); the restorer has not been at
  the chunk it waits for (`RestorerPlace`); hence `WholeChunkRead` and `VolumeFits`.
  `DownloadGoesOn`: workers, source and restorer of a download never all wait for each other, and once the workers
  have left the restorer finds the chunk it waits for, also when the source broke off. It needs that what is
  downloaded is announced and restored in order (`OrderInv`), and `QueueCovered`: a chunk to be
  retried always has a worker coming back for it.
- `AnswersStayHome`, by `ServerInv`: calls of an address are queued in the order of its proxies (`QueueOrdered`), so that
  when a proxy is made known no call of an earlier one is left (`KnownIsAlone`). `AnswerInvariant`
  adds the order within a proxy: its calls on the queue rise (`QueueRising`), what is pending is newer than
  all that was answered (`PendingNewer`, `AnswersRising`), and as long as nothing timed out nothing but the
  current call is pending (`OnTime`). `AnswersGivenInOrder` follows for every call, `OwnAnswerGiven` for those of a proxy
  before its first timeout. `NoCallLost`: the call of a thread that waits is on the queue or being served by a
  server that will find its proxy, because the call that makes a proxy known precedes all others
  (`ComesToBeKnown`).
- `ScriptsExecutedOnce`, by `NotAgain` (what was executed is neither ahead in the message nor in a pending one) and
  `QuietAtTheEnd`; `ResultsSentTwiceOnlyLate`, by `SentIsForgotten`: a result sent in time is
  of an execution no thread, no list and, while the list counts, no entry of `saved` knows. `ResultsKept`:
  the result of a script that was started, unless it is among those the model counts as lost, is
  always somebody's to send: its thread's, the restoring main thread's or, across a stop, the next
  process's, from what was saved (`KeptSaved`): which is what the newest executor had.
- `BarrierHolds`, by `WordsTrue`: a message that is on its way, and a status that is ready, are of a shard whose
  node has been in the barrier. This needs no order or reliability of the messages. `NobodyForgotten` is the
  other side, for which the order counts: a node in the barrier has the word of each other shard, or
  that shard is off or not yet there, or has the node's current address, or will hear it
  last (`NoLaterAddress`, `AddressKnown`), and has yet to tell it (`NotifiedKnows`, `PastHasTold`),
  or is one the node spares.

Only model-checked: the nine liveness properties (`AcceptedIsHandled`, `AcceptedIsListened`, `BarrierEnds`,
`CallsReturn`, `HostInitFiresOrMishap`, `KilledEnds`, `ResultSent`, `SendEnds`, `TransferEnds`), since fairness and ENABLED are
out of the prover's reach. Five have their safety core proved, that what is waited for is never lost:
`AckComingHolds` (`HostInitFiresOrMishap`), `NoCallLost` (`CallsReturn`), `ResultsKept` (`ResultSent`), `DownloadGoesOn`
(`TransferEnds`), `NobodyForgotten` (`BarrierEnds`). All other properties of the passing runs are theorems.

## 6. Not modelled, and why

- In the store, the consumer and the producer an SQL statement is done or raises. With the SQLite proxy's
  timeout a call may also return before its statement ran; `SqliteServer` has that, and is not composed with them.
- Transfers: multipart uploads (`LargeTransfer` gives its pool functions, for which
  `FileTransfer.__init__` drops the option, and nothing else uses the class), several files, `md5` and sizes, the drivers, a
  delete that raises, listeners of a download added by its caller.
- Scripts: fetching them from Scalr, the environment, log files, return codes (a restored script that
  nobody can wait for is reported with 0), an exception of the producer while a result is sent, the lists of more than one
  executor that were overwritten (only the newest's is ever read), a stop between the start of the services and `on_start`.
- The barrier: HostInits and HostDowns of other roles, which have no mongodb part and raise out of the
  barrier (`mongodb.py:485`), replicas that initialize (their addresses may overwrite a status), shards that the table does not
  know, mongod itself and the hosts file. An instance's failure and Scalr's HostDown are one step, of which
  the others hear later.
- After the two waits overlapped the subhandler may take HostInitResponse again; its second `wait_subhandler`, in a third
  thread, is not followed.
- SIGTERM inside `_start_init` (the signal handler would return into the wait): `main`
  shuts down only before or after it. Python 2 runs no signal handler during
  `ack_event.wait()`.
- Two processes on one table (`szradm`, `scripts/`), `get_undelivered` and the
  other queries nothing calls, `shutdown` without `force`.
- A listener of the producer's events that raises.
- Decoding errors (400): they leave no state behind.

- Most of the repository: drivers of daemons, cloud APIs, package managers and system commands, templates and
  parsers (see the table in section 1 and `PROJECT.json`). They keep little state, run in one thread at a time and
  consist of calls of code outside the repository, so a model of them would restate their lines. Of 62 000 lines the modules
  cover the parts in which threads, processes and nodes meet.

## 7. Plan

Done, in this order: the store, its abstraction, the consumer, the producer; transfers, the database thread,
scripts, the MongoDB barrier; the theorems of each. What is left, most important first:

1. Proofs: the safety cores of `AcceptedIsHandled`, `SendEnds` and `KilledEnds`; then the theorems of
   each component below as it is modelled.
2. `Lifecycle`: the state file, reboot and halt flags, `_start_init` against
   `on_HostInitResponse` on another thread, restarts; composes `MessageConsumer`.
   The state never goes back; HostUp once.
3. The store over `SqliteServer`: statements that time out and run later.
4. `LogMessaging`, `MainLoop` (the SNMP child), `ServicePresets`, master promotion (`handlers/mysql2.py`).
