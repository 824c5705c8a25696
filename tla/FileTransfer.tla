---------------------------- MODULE FileTransfer ----------------------------
(***************************************************************************)
(* The worker pool of scalarizr's cloud file transfers                     *)
(* (storage2/cloudfs/__init__.py, class FileTransfer).  Workers take jobs  *)
(* from a queue of retries and, when they find it empty, from a source     *)
(* that they share.  A job is a source with its destination and is known   *)
(* by its number; a driver's put or get works, or raises.  multipart is    *)
(* FALSE, as for every transfer that LargeTransfer makes.                  *)
(***************************************************************************)
EXTENDS Naturals, FiniteSets

CONSTANTS
  Workers,      \* the threads of the pool
  NumJobs,      \* the source yields the jobs 1..NumJobs
  MaxRetries    \* self.retries

ASSUME TransferAssumption ==
  /\ IsFiniteSet(Workers) /\ Workers # {}
  /\ NumJobs \in Nat
  /\ MaxRetries \in Nat

VARIABLES
  run,         \* _run: idle, running, ended
  produced,    \* how many jobs the source has yielded
  exhausted,   \* the source ended, or raised
  retries,     \* self._retries_queue; nothing depends on its order
  worker,      \* where each worker is, and its job
  completed,   \* the jobs of self._completed
  failed,      \* the jobs of self._failed
  rejected,    \* history: jobs that failed an assertion
  stopAll      \* self._stop_all is set

transferVars == <<run, produced, exhausted, retries, worker, completed, failed,
                  rejected, stopAll>>

Jobs == 1..NumJobs
Attempts == [job : Jobs, retry : 0..MaxRetries]
NoAttempt == [job |-> 0, retry |-> 0]

TransferInit ==
  /\ run = "idle"
  /\ produced = 0
  /\ exhausted = FALSE
  /\ retries = {}
  /\ worker = [w \in Workers |-> [pc |-> "idle", at |-> NoAttempt, noMore |-> FALSE]]
  /\ completed = {}
  /\ failed = {}
  /\ rejected = {}
  /\ stopAll = FALSE

-----------------------------------------------------------------------------
At(w, pc) == worker[w].pc = pc
Goto(w, pc) == worker' = [worker EXCEPT ![w].pc = pc]
Drop(w, pc) == worker' = [worker EXCEPT ![w].pc = pc, ![w].at = NoAttempt]
Begin(w, a) == worker' = [worker EXCEPT ![w].pc = "transfer", ![w].at = a]

(* Events are cleared, threads started. *)
RunStart ==
  /\ run = "idle"
  /\ run' = "running"
  /\ stopAll' = FALSE
  /\ worker' = [w \in Workers |-> [worker[w] EXCEPT !.pc = "take"]]
  /\ UNCHANGED <<produced, exhausted, retries, completed, failed, rejected>>

(* All workers are joined. *)
RunEnd ==
  /\ run = "running"
  /\ \A w \in Workers : At(w, "done") \/ At(w, "dead")
  /\ run' = "ended"
  /\ UNCHANGED <<produced, exhausted, retries, worker, completed, failed, rejected,
                 stopAll>>

(* kill and kill_nowait; that kill then waits for _stopped is not shown. *)
StopAll ==
  /\ stopAll' = TRUE
  /\ UNCHANGED <<run, produced, exhausted, retries, worker, completed, failed, rejected>>

(* Mutant: a retry stays on the queue while it is tried. *)
TakeRetryAndKeep(w) ==
  /\ At(w, "take")
  /\ \E a \in retries : Begin(w, a)
  /\ UNCHANGED <<run, produced, exhausted, retries, completed, failed, rejected, stopAll>>

(* The generator looks for a retry first, also after the source has ended. *)
TakeRetry(w) ==
  /\ At(w, "take")
  /\ \E a \in retries : retries' = retries \ {a} /\ Begin(w, a)
  /\ UNCHANGED <<run, produced, exhausted, completed, failed, rejected, stopAll>>

(* Mutant: the queue is not looked at. *)
FindNoRetryUnasked(w) ==
  /\ At(w, "take")
  /\ Goto(w, IF worker[w].noMore THEN "done" ELSE "fetch")
  /\ UNCHANGED <<run, produced, exhausted, retries, completed, failed, rejected, stopAll>>

FindNoRetry(w) ==
  /\ At(w, "take")
  /\ retries = {}
  /\ Goto(w, IF worker[w].noMore THEN "done" ELSE "fetch")
  /\ UNCHANGED <<run, produced, exhausted, retries, completed, failed, rejected, stopAll>>

(* The source is asked under _gen_lock. *)
Fetch(w) ==
  /\ At(w, "fetch")
  /\ ~exhausted
  /\ produced < NumJobs
  /\ produced' = produced + 1
  /\ Begin(w, [job |-> produced + 1, retry |-> 0])
  /\ UNCHANGED <<run, exhausted, retries, completed, failed, rejected, stopAll>>

SourceEnds(w) ==
  /\ At(w, "fetch")
  /\ exhausted \/ produced = NumJobs
  /\ exhausted' = TRUE
  /\ worker' = [worker EXCEPT ![w].pc = "take", ![w].noMore = TRUE]
  /\ UNCHANGED <<run, produced, retries, completed, failed, rejected, stopAll>>

(* The source raises: the thread dies, and to the others the source ended. *)
SourceRaises(w) ==
  /\ At(w, "fetch")
  /\ ~exhausted
  /\ exhausted' = TRUE
  /\ Goto(w, "dead")
  /\ UNCHANGED <<run, produced, retries, completed, failed, rejected, stopAll>>

(* put or get has worked; the listeners of transfer_complete are next. *)
Succeed(w) ==
  /\ At(w, "transfer")
  /\ completed' = completed \cup {worker[w].at.job}
  /\ Goto(w, "report")
  /\ UNCHANGED <<run, produced, exhausted, retries, failed, rejected, stopAll>>

Reported(w) ==
  /\ At(w, "report")
  /\ Drop(w, "check")
  /\ UNCHANGED <<run, produced, exhausted, retries, completed, failed, rejected, stopAll>>

(* An AssertionError: the job is neither tried again nor in a list. *)
Reject(w) ==
  /\ At(w, "transfer")
  /\ rejected' = rejected \cup {worker[w].at.job}
  /\ Drop(w, "error")
  /\ UNCHANGED <<run, produced, exhausted, retries, completed, failed, stopAll>>

Exhausted(w) == worker[w].at.retry = MaxRetries

(* The driver, or a listener of transfer_complete, raised. *)
Retry(w) ==
  /\ At(w, "transfer") \/ At(w, "report")
  /\ ~Exhausted(w)
  /\ retries' = retries \cup {[worker[w].at EXCEPT !.retry = @ + 1]}
  /\ Drop(w, "check")
  /\ UNCHANGED <<run, produced, exhausted, completed, failed, rejected, stopAll>>

GiveUp(w) ==
  /\ At(w, "transfer") \/ At(w, "report")
  /\ Exhausted(w)
  /\ failed' = failed \cup {worker[w].at.job}
  /\ Drop(w, "error")
  /\ UNCHANGED <<run, produced, exhausted, retries, completed, rejected, stopAll>>

(* The listeners of transfer_error have been called. *)
ErrorReported(w) ==
  /\ At(w, "error")
  /\ Goto(w, "check")
  /\ UNCHANGED <<run, produced, exhausted, retries, completed, failed, rejected, stopAll>>

(* finally: *)
Check(w) ==
  /\ At(w, "check")
  /\ Goto(w, IF stopAll THEN "done" ELSE "take")
  /\ UNCHANGED <<run, produced, exhausted, retries, completed, failed, rejected, stopAll>>

WorkerStep(w) ==
  \/ TakeRetry(w) \/ FindNoRetry(w)
  \/ Fetch(w) \/ SourceEnds(w) \/ SourceRaises(w)
  \/ Succeed(w) \/ Reported(w) \/ Reject(w) \/ Retry(w) \/ GiveUp(w)
  \/ ErrorReported(w) \/ Check(w)

TransferNext ==
  \/ RunStart \/ RunEnd \/ StopAll
  \/ \E w \in Workers : WorkerStep(w)

TransferSpec == TransferInit /\ [][TransferNext]_transferVars

-----------------------------------------------------------------------------
TransferTypeOK ==
  /\ run \in {"idle", "running", "ended"}
  /\ produced \in 0..NumJobs
  /\ exhausted \in BOOLEAN
  /\ retries \subseteq Attempts
  /\ worker \in [Workers -> [pc : {"idle", "take", "fetch", "transfer", "report",
                                   "error", "check", "done", "dead"},
                             at : Attempts \cup {NoAttempt},
                             noMore : BOOLEAN]]
  /\ completed \subseteq Jobs
  /\ failed \subseteq Jobs
  /\ rejected \subseteq Jobs
  /\ stopAll \in BOOLEAN

Working(w) == At(w, "transfer") \/ At(w, "report")
Settled == completed \cup failed \cup rejected

(* No job gets lost between the source, the queue and the workers: when     *)
(* run returns, unless the transfer was stopped, each job that the source   *)
(* yielded is in a list or was rejected.  A worker may not leave while      *)
(* another can still put a job back that nobody would take.                 *)
NothingLost ==
  run = "ended" /\ ~stopAll => 1..produced \subseteq Settled

(* At no time are there more unsettled jobs, on the queue or in the hands   *)
(* of workers, than workers: what the size of the transit volume is made    *)
(* for.  The queue never holds a job whose worker has gone on to another.   *)
Unsettled == retries \cup {worker[w].at : w \in {x \in Workers : Working(x)}}

AtMostOneEach == Cardinality(Unsettled) <= Cardinality(Workers)

(* A job is in one place: two workers never transfer the same job, and none *)
(* transfers a job that is on the queue.                                    *)
OnePlace ==
  /\ \A v, w \in Workers :
       Working(v) /\ Working(w) /\ worker[v].at.job = worker[w].at.job => v = w
  /\ \A w \in Workers, a \in retries : Working(w) => worker[w].at.job # a.job
  /\ \A a, b \in retries : a.job = b.job => a = b
=============================================================================
