------------------------ MODULE LargeTransferProofs ------------------------
(* Theorems about the worker pool of FileTransfer, for any number of        *)
(* workers, jobs and retries, and about LargeTransfer, which uses it.       *)
EXTENDS LargeTransfer, FiniteSetTheorems, TLAPS

(* A worker that transfers has a job, which the source has yielded.         *)
Placed ==
  /\ \A w \in Workers :
       Working(w) => worker[w].at \in Attempts /\ worker[w].at.job <= produced
  /\ \A a \in retries : a.job <= produced

Typed == TransferTypeOK /\ Placed

(* No worker is at work before run starts or after it has ended.            *)
Phases ==
  /\ run = "idle" => \A w \in Workers : At(w, "idle")
  /\ run = "ended" => \A w \in Workers : At(w, "done") \/ At(w, "dead")

(* A job that the source has yielded is in a list, on the queue or in a     *)
(* worker's hands; one that a worker reports is in a list already.          *)
Tracked ==
  /\ \A j \in 1..produced :
       \/ j \in Settled
       \/ \E a \in retries : a.job = j
       \/ \E w \in Workers : Working(w) /\ worker[w].at.job = j
  /\ \A w \in Workers : At(w, "report") => worker[w].at.job \in completed

(* Workers that have put back what they had, and those of them that will    *)
(* look at the queue again.                                                 *)
Returning == {w \in Workers : At(w, "error") \/ At(w, "check") \/ At(w, "take")}
Unladen == {w \in Workers : w \in Returning \/ At(w, "done")}

(* Each job on the queue has a worker that put it there, and that comes     *)
(* back for it unless the transfer is stopped.                              *)
QueueCovered ==
  /\ IsFiniteSet(retries)
  /\ Cardinality(retries) <= Cardinality(Unladen)
  /\ ~stopAll => Cardinality(retries) <= Cardinality(Returning)

(* Who leaves has seen the source end, and unless a worker died in it the   *)
(* source ends with the last job.                                           *)
SourceSeen ==
  /\ exhausted => produced = NumJobs \/ \E w \in Workers : At(w, "dead")
  /\ \A w \in Workers : worker[w].noMore => exhausted
  /\ \A w \in Workers : At(w, "done") => worker[w].noMore \/ stopAll
  /\ completed \subseteq 1..produced

TransferInv == Typed /\ OnePlace /\ Phases /\ Tracked /\ QueueCovered /\ SourceSeen

-----------------------------------------------------------------------------
LEMMA InitInv ==
  ASSUME TransferInit
  PROVE  TransferInv
<1> USE TransferAssumption DEF TransferInit
<1>1. \A w \in Workers : At(w, "idle") /\ ~Working(w)
  BY DEF At, Working
<1>2. Typed
  <2> DEFINE Workplace == [pc : {"idle", "take", "fetch", "transfer", "report",
                                 "error", "check", "done", "dead"},
                           at : Attempts \cup {NoAttempt},
                           noMore : BOOLEAN]
  <2>1. [pc |-> "idle", at |-> NoAttempt, noMore |-> FALSE] \in Workplace
    BY Zenon
  <2> HIDE DEF Workplace
  <2>2. worker \in [Workers -> Workplace]
    BY <2>1
  <2>3. run \in {"idle", "running", "ended"} /\ produced \in 0..NumJobs
    OBVIOUS
  <2>4. exhausted \in BOOLEAN /\ stopAll \in BOOLEAN
    OBVIOUS
  <2>5. /\ retries \subseteq Attempts /\ completed \subseteq Jobs
        /\ failed \subseteq Jobs /\ rejected \subseteq Jobs
    OBVIOUS
  <2>6. TransferTypeOK
    BY <2>2, <2>3, <2>4, <2>5, Zenon DEF TransferTypeOK, Workplace
  <2>7. Placed
    BY <1>1 DEF Placed
  <2> QED
    BY <2>6, <2>7 DEF Typed
<1>3. OnePlace
  BY <1>1 DEF OnePlace
<1>4. Phases
  BY <1>1 DEF Phases
<1>5. Tracked
  BY <1>1 DEF Tracked, At
<1>6. Returning = {} /\ Unladen = {}
  BY <1>1 DEF Returning, Unladen, At
<1>7. QueueCovered
  BY <1>6, FS_EmptySet DEF QueueCovered
<1>8. SourceSeen
  BY <1>1 DEF SourceSeen, At
<1> QED
  BY <1>2, <1>3, <1>4, <1>5, <1>7, <1>8 DEF TransferInv

(* Types and places. *)
LEMMA TypedStep ==
  ASSUME Typed, [TransferNext]_transferVars
  PROVE  Typed'
<1> USE TransferAssumption DEF Typed, TransferTypeOK, Placed, Working, At
<1>1. CASE RunStart
  BY <1>1 DEF RunStart
<1>2. CASE RunEnd
  BY <1>2 DEF RunEnd
<1>3. CASE StopAll
  BY <1>3 DEF StopAll
<1>4. ASSUME NEW w \in Workers, TakeRetry(w)
      PROVE  Typed'
  <2>1. PICK a \in retries : retries' = retries \ {a} /\ Begin(w, a)
    BY <1>4 DEF TakeRetry
  <2>2. worker' = [worker EXCEPT ![w].pc = "transfer", ![w].at = a]
    BY <2>1 DEF Begin
  <2>3. TransferTypeOK'
    BY <1>4, <2>1, <2>2 DEF TakeRetry
  <2>4. Placed'
    BY <1>4, <2>1, <2>2 DEF TakeRetry
  <2> QED
    BY <2>3, <2>4
<1>5. ASSUME NEW w \in Workers, FindNoRetry(w)
      PROVE  Typed'
  BY <1>5 DEF FindNoRetry, Goto
<1>6. ASSUME NEW w \in Workers, Fetch(w)
      PROVE  Typed'
  <2>1. [job |-> produced + 1, retry |-> 0] \in Attempts /\ produced' \in 0..NumJobs
    BY <1>6 DEF Fetch, Attempts, Jobs
  <2>2. \A a \in Attempts : a.job \in Nat
    BY DEF Attempts, Jobs
  <2> DEFINE b == [job |-> produced + 1, retry |-> 0]
  <2>3. b.job = produced'
    BY <1>6 DEF Fetch
  <2>4. b \in Attempts
    BY <2>1
  <2>5. worker' = [worker EXCEPT ![w].pc = "transfer", ![w].at = b]
    BY <1>6 DEF Fetch, Begin
  <2> HIDE DEF b
  <2>6. produced' = produced + 1 /\ retries' = retries
    BY <1>6 DEF Fetch
  <2>7. TransferTypeOK'
    BY <1>6, <2>1, <2>4, <2>5 DEF Fetch
  <2>8. \A v \in Workers \ {w} : worker'[v] = worker[v]
    BY <2>5
  <2>9. worker'[w].at = b
    BY <2>5
  <2>10. \A v \in Workers \ {w} :
           Working(v)' => worker'[v].at \in Attempts /\ worker'[v].at.job <= produced + 1
    BY <2>2, <2>8
  <2>11. \A a \in retries : a.job <= produced + 1
    BY <2>2
  <2>12. Placed'
    BY <2>3, <2>4, <2>6, <2>9, <2>10, <2>11
  <2> QED
    BY <2>7, <2>12
<1>7. ASSUME NEW w \in Workers, SourceEnds(w)
      PROVE  Typed'
  BY <1>7 DEF SourceEnds
<1>8. ASSUME NEW w \in Workers, SourceRaises(w)
      PROVE  Typed'
  BY <1>8 DEF SourceRaises, Goto
<1>9. ASSUME NEW w \in Workers, Succeed(w)
      PROVE  Typed'
  <2>1. worker[w].at.job \in Jobs
    BY <1>9 DEF Succeed, Attempts
  <2> QED
    BY <1>9, <2>1 DEF Succeed, Goto
<1>10. ASSUME NEW w \in Workers, Reported(w)
       PROVE  Typed'
  BY <1>10 DEF Reported, Drop
<1>11. ASSUME NEW w \in Workers, Reject(w)
       PROVE  Typed'
  <2>1. worker[w].at.job \in Jobs
    BY <1>11 DEF Reject, Attempts
  <2> QED
    BY <1>11, <2>1 DEF Reject, Drop
<1>12. ASSUME NEW w \in Workers, Retry(w)
       PROVE  Typed'
  <2>1. /\ worker[w].at \in Attempts
        /\ worker[w].at.retry # MaxRetries
        /\ worker[w].at.job <= produced
    BY <1>12 DEF Retry, Exhausted
  <2> DEFINE b == [worker[w].at EXCEPT !.retry = @ + 1]
  <2>2. b \in Attempts /\ b.job <= produced
    BY <2>1 DEF Attempts
  <2>3. retries' = retries \cup {b}
    BY <1>12 DEF Retry
  <2> HIDE DEF b
  <2> QED
    BY <1>12, <2>2, <2>3 DEF Retry, Drop
<1>13. ASSUME NEW w \in Workers, GiveUp(w)
       PROVE  Typed'
  <2>1. worker[w].at.job \in Jobs
    BY <1>13 DEF GiveUp, Attempts
  <2> QED
    BY <1>13, <2>1 DEF GiveUp, Drop
<1>14. ASSUME NEW w \in Workers, ErrorReported(w) \/ Check(w)
       PROVE  Typed'
  BY <1>14 DEF ErrorReported, Check, Goto
<1>15. CASE UNCHANGED transferVars
  BY <1>15 DEF transferVars
<1> QED
  BY <1>1, <1>2, <1>3, <1>4, <1>5, <1>6, <1>7, <1>8, <1>9, <1>10, <1>11, <1>12,
     <1>13, <1>14, <1>15 DEF TransferNext, WorkerStep

(* The effect of a worker's step: what it leaves alone, and the place it     *)
(* takes.                                                                    *)
LEMMA OtherWorkers ==
  ASSUME Typed, NEW w \in Workers, WorkerStep(w)
  PROVE  /\ \A v \in Workers \ {w} : worker'[v] = worker[v]
         /\ run' = run /\ stopAll' = stopAll
<1> USE DEF Typed, TransferTypeOK, Goto, Drop, Begin
<1>1. CASE TakeRetry(w) \/ FindNoRetry(w) \/ Fetch(w) \/ SourceEnds(w)
  BY <1>1 DEF TakeRetry, FindNoRetry, Fetch, SourceEnds
<1>2. CASE SourceRaises(w) \/ Succeed(w) \/ Reported(w) \/ Reject(w)
  BY <1>2 DEF SourceRaises, Succeed, Reported, Reject
<1>3. CASE Retry(w) \/ GiveUp(w) \/ ErrorReported(w) \/ Check(w)
  BY <1>3 DEF Retry, GiveUp, ErrorReported, Check
<1> QED
  BY <1>1, <1>2, <1>3 DEF WorkerStep

LEMMA PhasesStep ==
  ASSUME Typed, Phases, [TransferNext]_transferVars
  PROVE  Phases'
<1> USE DEF Phases, At
<1>1. CASE RunStart
  BY <1>1 DEF RunStart
<1>2. CASE RunEnd
  BY <1>2 DEF RunEnd
<1>3. CASE StopAll
  BY <1>3 DEF StopAll
<1>4. ASSUME NEW w \in Workers, WorkerStep(w)
      PROVE  Phases'
  <2>1. ~(At(w, "idle") \/ At(w, "done") \/ At(w, "dead"))
    BY <1>4 DEF WorkerStep, TakeRetry, FindNoRetry, Fetch, SourceEnds, SourceRaises,
                Succeed, Reported, Reject, Retry, GiveUp, ErrorReported, Check
  <2> QED
    BY <1>4, <2>1, OtherWorkers
<1>5. CASE UNCHANGED transferVars
  BY <1>5 DEF transferVars
<1> QED
  BY <1>1, <1>2, <1>3, <1>4, <1>5 DEF TransferNext

-----------------------------------------------------------------------------
(* A job is in one place. *)

(* A step after which a worker holds what it held, or nothing, and the queue *)
(* is what it was.                                                           *)
LEMMA OnePlaceKept ==
  ASSUME OnePlace, retries' = retries,
         \A w \in Workers : Working(w)' => Working(w) /\ worker'[w].at = worker[w].at
  PROVE  OnePlace'
BY DEF OnePlace

LEMMA OnePlaceStep ==
  ASSUME Typed, OnePlace, [TransferNext]_transferVars
  PROVE  OnePlace'
<1> USE DEF Typed, TransferTypeOK, Working, At
<1>1. CASE RunStart
  BY <1>1, OnePlaceKept DEF RunStart
<1>2. CASE RunEnd
  BY <1>2, OnePlaceKept DEF RunEnd
<1>3. CASE StopAll
  BY <1>3, OnePlaceKept DEF StopAll
<1>4. ASSUME NEW w \in Workers, TakeRetry(w)
      PROVE  OnePlace'
  <2>1. PICK a \in retries : retries' = retries \ {a} /\ Begin(w, a)
    BY <1>4 DEF TakeRetry
  <2>2. /\ worker'[w].at = a
        /\ ~Working(w)
        /\ \A v \in Workers \ {w} : worker'[v] = worker[v]
    BY <1>4, <2>1 DEF TakeRetry, Begin
  <2> QED
    BY <2>1, <2>2 DEF OnePlace
<1>5. ASSUME NEW w \in Workers, FindNoRetry(w)
      PROVE  OnePlace'
  BY <1>5, OnePlaceKept DEF FindNoRetry, Goto
<1>6. ASSUME NEW w \in Workers, Fetch(w)
      PROVE  OnePlace'
  <2>1. /\ worker'[w].at.job = produced + 1
        /\ retries' = retries
        /\ \A v \in Workers \ {w} : worker'[v] = worker[v]
    BY <1>6 DEF Fetch, Begin
  <2>2. \A a \in retries : a.job # produced + 1
    BY DEF Placed, Attempts, Jobs
  <2>3. \A v \in Workers : Working(v) => worker[v].at.job # produced + 1
    BY DEF Placed, Attempts, Jobs
  <2> QED
    BY <2>1, <2>2, <2>3 DEF OnePlace
<1>7. ASSUME NEW w \in Workers, SourceEnds(w) \/ SourceRaises(w) \/ Succeed(w)
      PROVE  OnePlace'
  BY <1>7, OnePlaceKept DEF SourceEnds, SourceRaises, Succeed, Goto
<1>8. ASSUME NEW w \in Workers, Reported(w) \/ Reject(w) \/ GiveUp(w)
      PROVE  OnePlace'
  BY <1>8, OnePlaceKept DEF Reported, Reject, GiveUp, Drop
<1>9. ASSUME NEW w \in Workers, Retry(w)
      PROVE  OnePlace'
  <2> DEFINE b == [worker[w].at EXCEPT !.retry = @ + 1]
  <2>1. /\ retries' = retries \cup {b}
        /\ Working(w)
        /\ ~Working(w)'
        /\ \A v \in Workers \ {w} : worker'[v] = worker[v]
    BY <1>9 DEF Retry, Drop
  <2>2. b.job = worker[w].at.job
    BY <1>9, <2>1 DEF Placed, Attempts
  <2> HIDE DEF b
  <2> QED
    BY <2>1, <2>2 DEF OnePlace
<1>10. ASSUME NEW w \in Workers, ErrorReported(w) \/ Check(w)
       PROVE  OnePlace'
  BY <1>10, OnePlaceKept DEF ErrorReported, Check, Goto
<1>11. CASE UNCHANGED transferVars
  BY <1>11, OnePlaceKept DEF transferVars
<1> QED
  BY <1>1, <1>2, <1>3, <1>4, <1>5, <1>6, <1>7, <1>8, <1>9, <1>10, <1>11
     DEF TransferNext, WorkerStep

-----------------------------------------------------------------------------
(* No job is lost. *)

(* A step that takes a job out of a worker's hands to put it elsewhere.      *)
LEMMA TrackedKept ==
  ASSUME Tracked, produced' = produced, retries \subseteq retries', Settled \subseteq Settled',
         \A w \in Workers : Working(w) =>
           \/ Working(w)' /\ worker'[w].at.job = worker[w].at.job
           \/ worker[w].at.job \in Settled'
           \/ \E a \in retries' : a.job = worker[w].at.job,
         \A w \in Workers : At(w, "report")' => worker'[w].at.job \in completed'
  PROVE  Tracked'
<1>1. ASSUME NEW j \in 1..produced
      PROVE  \/ j \in Settled'
             \/ \E a \in retries' : a.job = j
             \/ \E w \in Workers : Working(w)' /\ worker'[w].at.job = j
  BY DEF Tracked
<1> QED
  BY <1>1 DEF Tracked

LEMMA TrackedStep ==
  ASSUME Typed, Tracked, Phases, [TransferNext]_transferVars
  PROVE  Tracked'
<1> USE TransferAssumption DEF Typed, TransferTypeOK, Working, At
<1>0. \A w \in Workers : At(w, "report") => worker[w].at.job \in completed
  BY DEF Tracked
<1>1. CASE RunStart
  <2>1. \A w \in Workers : ~Working(w) /\ ~At(w, "report")'
    BY <1>1 DEF RunStart, Phases
  <2> QED
    BY <1>1, <2>1, TrackedKept DEF RunStart, Settled
<1>2. CASE RunEnd
  BY <1>0, <1>2, TrackedKept DEF RunEnd, Settled
<1>3. CASE StopAll
  BY <1>0, <1>3, TrackedKept DEF StopAll, Settled
<1>4. ASSUME NEW w \in Workers, TakeRetry(w)
      PROVE  Tracked'
  <2>1. PICK a \in retries : retries' = retries \ {a} /\ Begin(w, a)
    BY <1>4 DEF TakeRetry
  <2>2. /\ worker'[w].at = a
        /\ Working(w)' /\ ~Working(w) /\ ~At(w, "report")'
        /\ \A v \in Workers \ {w} : worker'[v] = worker[v]
    BY <1>4, <2>1 DEF TakeRetry, Begin
  <2>3. produced' = produced /\ completed' = completed /\ Settled' = Settled
    BY <1>4 DEF TakeRetry, Settled
  <2> QED
    BY <2>1, <2>2, <2>3 DEF Tracked
<1>5. ASSUME NEW w \in Workers, FindNoRetry(w)
      PROVE  Tracked'
  BY <1>0, <1>5, TrackedKept DEF FindNoRetry, Goto, Settled
<1>6. ASSUME NEW w \in Workers, Fetch(w)
      PROVE  Tracked'
  <2>1. /\ worker'[w].at.job = produced + 1
        /\ Working(w)' /\ ~Working(w) /\ ~At(w, "report")'
        /\ \A v \in Workers \ {w} : worker'[v] = worker[v]
    BY <1>6 DEF Fetch, Begin
  <2>2. /\ produced' = produced + 1 /\ retries' = retries
        /\ completed' = completed /\ Settled' = Settled
    BY <1>6 DEF Fetch, Settled
  <2>3. \A j \in 1..produced' : j \in 1..produced \/ j = produced + 1
    BY <2>2
  <2> QED
    BY <2>1, <2>2, <2>3 DEF Tracked
<1>7. ASSUME NEW w \in Workers, SourceEnds(w) \/ SourceRaises(w)
      PROVE  Tracked'
  BY <1>0, <1>7, TrackedKept DEF SourceEnds, SourceRaises, Goto, Settled
<1>8. ASSUME NEW w \in Workers, Succeed(w)
      PROVE  Tracked'
  <2>1. /\ completed' = completed \cup {worker[w].at.job}
        /\ worker'[w].at = worker[w].at
        /\ Working(w)'
        /\ \A v \in Workers \ {w} : worker'[v] = worker[v]
    BY <1>8 DEF Succeed, Goto
  <2>2. \A v \in Workers : At(v, "report")' => worker'[v].at.job \in completed'
    BY <1>0, <2>1
  <2>3. produced' = produced /\ retries' = retries /\ Settled \subseteq Settled'
    BY <1>8, <2>1 DEF Succeed, Settled
  <2>4. \A v \in Workers : Working(v) => Working(v)' /\ worker'[v].at.job = worker[v].at.job
    BY <2>1
  <2> QED
    BY <2>2, <2>3, <2>4, TrackedKept
<1>9. ASSUME NEW w \in Workers, Reported(w) \/ Reject(w) \/ GiveUp(w)
      PROVE  Tracked'
  <2>1. /\ ~At(w, "report")'
        /\ \A v \in Workers \ {w} : worker'[v] = worker[v]
        /\ completed' = completed /\ produced' = produced /\ retries' = retries
        /\ Settled \subseteq Settled'
    BY <1>9 DEF Reported, Reject, GiveUp, Drop, Settled
  <2>2. worker[w].at.job \in Settled'
    BY <1>0, <1>9 DEF Reported, Reject, GiveUp, Settled
  <2> QED
    BY <1>0, <2>1, <2>2, TrackedKept
<1>10. ASSUME NEW w \in Workers, Retry(w)
       PROVE  Tracked'
  <2> DEFINE b == [worker[w].at EXCEPT !.retry = @ + 1]
  <2>1. /\ retries' = retries \cup {b}
        /\ ~At(w, "report")' /\ Working(w)
        /\ \A v \in Workers \ {w} : worker'[v] = worker[v]
        /\ completed' = completed /\ produced' = produced /\ Settled' = Settled
    BY <1>10 DEF Retry, Drop, Settled
  <2>2. b.job = worker[w].at.job
    BY <2>1 DEF Placed, Attempts
  <2> HIDE DEF b
  <2> QED
    BY <1>0, <2>1, <2>2, TrackedKept
<1>11. ASSUME NEW w \in Workers, ErrorReported(w) \/ Check(w)
       PROVE  Tracked'
  BY <1>0, <1>11, TrackedKept DEF ErrorReported, Check, Goto, Settled
<1>12. CASE UNCHANGED transferVars
  BY <1>0, <1>12, TrackedKept DEF transferVars, Settled
<1> QED
  BY <1>1, <1>2, <1>3, <1>4, <1>5, <1>6, <1>7, <1>8, <1>9, <1>10, <1>11, <1>12
     DEF TransferNext, WorkerStep

-----------------------------------------------------------------------------
(* The queue is covered by workers that come back for it. *)
LEMMA FiniteWorkers ==
  ASSUME NEW S \in SUBSET Workers
  PROVE  IsFiniteSet(S) /\ Cardinality(S) \in Nat /\ Cardinality(S) <= Cardinality(Workers)
BY TransferAssumption, FS_Subset, FS_CardinalityType

(* A step that leaves the queue alone and takes no worker away from it.      *)
LEMMA QueueCoveredKept ==
  ASSUME QueueCovered, retries' = retries, stopAll' = stopAll \/ stopAll',
         Unladen \subseteq Unladen', ~stopAll' => Returning \subseteq Returning'
  PROVE  QueueCovered'
<1>1. Unladen' \in SUBSET Workers /\ Returning' \in SUBSET Workers
  BY DEF Unladen, Returning
<1>2. Cardinality(Unladen) <= Cardinality(Unladen')
  BY <1>1, FiniteWorkers, FS_Subset
<1>3. ~stopAll' => Cardinality(Returning) <= Cardinality(Returning')
  BY <1>1, FiniteWorkers, FS_Subset
<1>4. /\ Cardinality(Unladen) \in Nat /\ Cardinality(Unladen') \in Nat
      /\ Cardinality(Returning) \in Nat /\ Cardinality(Returning') \in Nat
  BY FiniteWorkers DEF Unladen, Returning
<1>5. Cardinality(retries) \in Nat
  BY FS_CardinalityType DEF QueueCovered
<1> QED
  BY <1>2, <1>3, <1>4, <1>5 DEF QueueCovered

(* An empty queue needs nobody.                                              *)
LEMMA QueueCoveredEmpty ==
  ASSUME retries' = {}
  PROVE  QueueCovered'
<1>1. Cardinality(Unladen') \in Nat /\ Cardinality(Returning') \in Nat
  BY FiniteWorkers DEF Unladen, Returning
<1> QED
  BY <1>1, FS_EmptySet DEF QueueCovered

LEMMA QueueCoveredStep ==
  ASSUME Typed, Phases, QueueCovered, [TransferNext]_transferVars
  PROVE  QueueCovered'
<1> USE DEF Typed, TransferTypeOK, Unladen, Returning, At
<1>1. CASE RunStart
  <2>1. Unladen = {}
    BY <1>1 DEF RunStart, Phases
  <2>2. retries = {}
    BY <2>1, FS_EmptySet, FS_CardinalityType DEF QueueCovered
  <2> QED
    BY <1>1, <2>2, QueueCoveredEmpty DEF RunStart
<1>2. CASE RunEnd
  BY <1>2, QueueCoveredKept DEF RunEnd
<1>3. CASE StopAll
  BY <1>3, QueueCoveredKept DEF StopAll
<1>4. ASSUME NEW w \in Workers, TakeRetry(w)
      PROVE  QueueCovered'
  <2>1. PICK a \in retries : retries' = retries \ {a} /\ Begin(w, a)
    BY <1>4 DEF TakeRetry
  <2>2. /\ Unladen' = Unladen \ {w} /\ w \in Unladen
        /\ Returning' = Returning \ {w} /\ w \in Returning
        /\ stopAll' = stopAll
    BY <1>4, <2>1 DEF TakeRetry, Begin
  <2>3. /\ Cardinality(retries') = Cardinality(retries) - 1
        /\ IsFiniteSet(retries')
    BY <2>1, FS_RemoveElement DEF QueueCovered
  <2>4. /\ Cardinality(Unladen') = Cardinality(Unladen) - 1
        /\ Cardinality(Returning') = Cardinality(Returning) - 1
    <3> HIDE DEF Unladen, Returning
    <3>1. IsFiniteSet(Unladen) /\ IsFiniteSet(Returning)
      BY FiniteWorkers DEF Unladen, Returning
    <3> QED
      BY <2>2, <3>1, FS_RemoveElement
  <2>5. /\ Cardinality(Unladen) \in Nat /\ Cardinality(Returning) \in Nat
        /\ Cardinality(retries) \in Nat
    BY FiniteWorkers, FS_CardinalityType DEF QueueCovered
  <2> HIDE DEF Unladen, Returning
  <2> QED
    BY <2>2, <2>3, <2>4, <2>5 DEF QueueCovered
<1>5. ASSUME NEW w \in Workers, FindNoRetry(w)
      PROVE  QueueCovered'
  BY <1>5, QueueCoveredEmpty DEF FindNoRetry
<1>6. ASSUME NEW w \in Workers, Fetch(w)
      PROVE  QueueCovered'
  BY <1>6, QueueCoveredKept DEF Fetch, Begin
<1>7. ASSUME NEW w \in Workers, SourceEnds(w) \/ SourceRaises(w) \/ Succeed(w)
      PROVE  QueueCovered'
  BY <1>7, QueueCoveredKept DEF SourceEnds, SourceRaises, Succeed, Goto
<1>8. ASSUME NEW w \in Workers, Reported(w) \/ Reject(w) \/ GiveUp(w)
      PROVE  QueueCovered'
  BY <1>8, QueueCoveredKept DEF Reported, Reject, GiveUp, Drop
<1>9. ASSUME NEW w \in Workers, Retry(w)
      PROVE  QueueCovered'
  <2> DEFINE b == [worker[w].at EXCEPT !.retry = @ + 1]
  <2>1. retries' = retries \cup {b} /\ stopAll' = stopAll
    BY <1>9 DEF Retry
  <2>2. /\ Unladen' = Unladen \cup {w} /\ w \notin Unladen
        /\ Returning' = Returning \cup {w} /\ w \notin Returning
    BY <1>9 DEF Retry, Drop
  <2> HIDE DEF b
  <2>3. /\ Cardinality(retries') <= Cardinality(retries) + 1
        /\ IsFiniteSet(retries')
        /\ Cardinality(retries') \in Nat /\ Cardinality(retries) \in Nat
    <3>1. IsFiniteSet(retries) /\ Cardinality(retries) \in Nat
      BY FS_CardinalityType DEF QueueCovered
    <3>2. /\ IsFiniteSet(retries \cup {b})
          /\ Cardinality(retries \cup {b}) \in {Cardinality(retries), Cardinality(retries) + 1}
      BY <3>1, FS_AddElement, Zenon
    <3> QED
      BY <2>1, <3>1, <3>2
  <2>4. /\ Cardinality(Unladen') = Cardinality(Unladen) + 1
        /\ Cardinality(Returning') = Cardinality(Returning) + 1
    <3> HIDE DEF Unladen, Returning
    <3>1. IsFiniteSet(Unladen) /\ IsFiniteSet(Returning)
      BY FiniteWorkers DEF Unladen, Returning
    <3> QED
      BY <2>2, <3>1, FS_AddElement
  <2>5. Cardinality(Unladen) \in Nat /\ Cardinality(Returning) \in Nat
    BY FiniteWorkers
  <2> HIDE DEF Unladen, Returning
  <2> QED
    BY <2>1, <2>3, <2>4, <2>5 DEF QueueCovered
<1>10. ASSUME NEW w \in Workers, ErrorReported(w) \/ Check(w)
       PROVE  QueueCovered'
  BY <1>10, QueueCoveredKept DEF ErrorReported, Check, Goto
<1>11. CASE UNCHANGED transferVars
  BY <1>11, QueueCoveredKept DEF transferVars
<1> QED
  BY <1>1, <1>2, <1>3, <1>4, <1>5, <1>6, <1>7, <1>8, <1>9, <1>10, <1>11
     DEF TransferNext, WorkerStep

LEMMA SourceSeenStep ==
  ASSUME Typed, Phases, SourceSeen, [TransferNext]_transferVars
  PROVE  SourceSeen'
<1> USE TransferAssumption DEF Typed, TransferTypeOK, SourceSeen, At
<1>1. CASE RunStart
  BY <1>1 DEF RunStart, Phases
<1>2. CASE RunEnd
  BY <1>2 DEF RunEnd
<1>3. CASE StopAll
  BY <1>3 DEF StopAll
<1>4. ASSUME NEW w \in Workers, TakeRetry(w)
      PROVE  SourceSeen'
  <2>1. PICK a \in retries : worker' = [worker EXCEPT ![w].pc = "transfer", ![w].at = a]
    BY <1>4 DEF TakeRetry, Begin
  <2> QED
    BY <1>4, <2>1 DEF TakeRetry
<1>5. ASSUME NEW w \in Workers, FindNoRetry(w)
      PROVE  SourceSeen'
  BY <1>5 DEF FindNoRetry, Goto
<1>6. ASSUME NEW w \in Workers, Fetch(w)
      PROVE  SourceSeen'
  BY <1>6 DEF Fetch, Begin
<1>7. ASSUME NEW w \in Workers, SourceEnds(w)
      PROVE  SourceSeen'
  BY <1>7 DEF SourceEnds
<1>8. ASSUME NEW w \in Workers, SourceRaises(w)
      PROVE  SourceSeen'
  BY <1>8 DEF SourceRaises, Goto
<1>9. ASSUME NEW w \in Workers, Succeed(w)
      PROVE  SourceSeen'
  <2>1. worker[w].at.job \in 1..produced
    BY <1>9 DEF Succeed, Placed, Working, Attempts, Jobs
  <2> QED
    BY <1>9, <2>1 DEF Succeed, Goto
<1>10. ASSUME NEW w \in Workers, Reported(w) \/ Reject(w) \/ GiveUp(w)
       PROVE  SourceSeen'
  BY <1>10 DEF Reported, Reject, GiveUp, Drop
<1>11. ASSUME NEW w \in Workers, Retry(w)
       PROVE  SourceSeen'
  BY <1>11 DEF Retry, Drop
<1>12. ASSUME NEW w \in Workers, ErrorReported(w) \/ Check(w)
       PROVE  SourceSeen'
  BY <1>12 DEF ErrorReported, Check, Goto
<1>13. CASE UNCHANGED transferVars
  BY <1>13 DEF transferVars
<1> QED
  BY <1>1, <1>2, <1>3, <1>4, <1>5, <1>6, <1>7, <1>8, <1>9, <1>10, <1>11, <1>12, <1>13
     DEF TransferNext, WorkerStep

-----------------------------------------------------------------------------
(* The inductive invariant of the worker pool.                               *)
THEOREM TransferInvariant == TransferSpec => []TransferInv
<1>1. TransferInit => TransferInv
  BY InitInv
<1>2. TransferInv /\ [TransferNext]_transferVars => TransferInv'
  BY TypedStep, PhasesStep, OnePlaceStep, TrackedStep, QueueCoveredStep, SourceSeenStep
     DEF TransferInv
<1> QED
  BY <1>1, <1>2, PTL DEF TransferSpec

(* Covered by what the invariant says of the queue, no more jobs are        *)
(* unsettled than there are workers.                                        *)
LEMMA CoveredBounds ==
  ASSUME TransferInv
  PROVE  AtMostOneEach
<1> DEFINE Busy == {w \in Workers : Working(w)}
           Held == {worker[w].at : w \in Busy}
           f == [w \in Busy |-> worker[w].at]
<1>1. IsFiniteSet(Busy) /\ IsFiniteSet(Unladen) /\ IsFiniteSet(retries)
  BY FiniteWorkers DEF Unladen, TransferInv, QueueCovered
<1>2. IsFiniteSet(Held) /\ Cardinality(Held) <= Cardinality(Busy)
  <2>1. f \in Surjection(Busy, Held)
    BY DEF Surjection
  <2> HIDE DEF f, Held, Busy
  <2> QED
    BY <1>1, <2>1, FS_Surjection
<1>3. Busy \cap Unladen = {}
  BY DEF Unladen, Returning, Working, At
<1>4. Unsettled = retries \cup Held
  BY DEF Unsettled
<1>5. Cardinality(retries) <= Cardinality(Unladen)
  BY DEF TransferInv, QueueCovered
<1>6. Busy \cup Unladen \in SUBSET Workers
  BY DEF Unladen
<1> HIDE DEF Busy, Held
<1>7. Cardinality(Busy \cup Unladen) = Cardinality(Busy) + Cardinality(Unladen)
  <2>1. /\ Cardinality(Busy \cup Unladen) = Cardinality(Busy) + Cardinality(Unladen)
                                             - Cardinality(Busy \cap Unladen)
        /\ Cardinality(Busy) \in Nat /\ Cardinality(Unladen) \in Nat
    BY <1>1, FS_Union, FS_CardinalityType
  <2>2. Cardinality(Busy \cap Unladen) = 0
    BY <1>3, FS_EmptySet, Zenon
  <2> QED
    BY <2>1, <2>2
<1>8. Cardinality(Busy) + Cardinality(Unladen) <= Cardinality(Workers)
  BY <1>6, <1>7, FiniteWorkers
<1>9. Cardinality(Unsettled) <= Cardinality(retries) + Cardinality(Held)
  <2>1. Cardinality(Unsettled) = Cardinality(retries) + Cardinality(Held)
                                   - Cardinality(retries \cap Held)
    BY <1>1, <1>2, <1>4, FS_Union
  <2>2. IsFiniteSet(retries \cap Held)
    BY <1>1, FS_Intersection
  <2>3. /\ Cardinality(retries \cap Held) \in Nat
        /\ Cardinality(retries) \in Nat /\ Cardinality(Held) \in Nat
    BY <1>1, <1>2, <2>2, FS_CardinalityType
  <2> QED
    BY <2>1, <2>3
<1>10. /\ Cardinality(retries) \in Nat /\ Cardinality(Held) \in Nat
       /\ Cardinality(Busy) \in Nat /\ Cardinality(Unladen) \in Nat
       /\ Cardinality(Workers) \in Nat /\ Cardinality(Unsettled) \in Nat
  BY <1>1, <1>2, <1>4, TransferAssumption, FS_CardinalityType, FS_Union
<1> QED
  BY <1>2, <1>5, <1>8, <1>9, <1>10 DEF AtMostOneEach

(* When run returns nobody holds a job or comes back for one, so the queue   *)
(* is empty, and what was yielded is settled.                                *)
LEMMA NothingLeft ==
  ASSUME TransferInv
  PROVE  NothingLost
<1> SUFFICES ASSUME run = "ended", ~stopAll
             PROVE  1..produced \subseteq Settled
  BY DEF NothingLost
<1>1. \A w \in Workers : At(w, "done") \/ At(w, "dead")
  BY DEF TransferInv, Phases
<1>2. Returning = {} /\ \A w \in Workers : ~Working(w)
  BY <1>1 DEF Returning, Working, At
<1>3. retries = {}
  BY <1>2, FS_EmptySet, FS_CardinalityType DEF TransferInv, QueueCovered
<1> QED
  BY <1>2, <1>3 DEF TransferInv, Tracked

-----------------------------------------------------------------------------
(* LargeTransfer. *)

(* Every step of a LargeTransfer is one of its FileTransfer, or none of it.  *)
LEMMA LargeStepTransfers ==
  ASSUME [LargeNext]_largeVars
  PROVE  [TransferNext]_transferVars
<1> USE DEF TransferNext, WorkerStep
<1>1. CASE Start \/ Finish \/ Leave \/ KillDeletes
  BY <1>1 DEF Start, Finish, Leave, KillDeletes
<1>2. CASE TransferRuns \/ Kill
  BY <1>2 DEF TransferRuns, Kill
<1>3. CASE RestorerStep
  BY <1>3 DEF RestorerStep, ReadChunk, Restore, RestorerInterrupted, RestorerKills,
              RestorerDies
<1>4. ASSUME NEW w \in Workers, LargeWorkerStep(w)
      PROVE  TransferNext
  BY <1>4 DEF LargeWorkerStep, PlainStep, SourceInterrupted, SourceBreaks, AskSource, Transferred, ListenersReturn,
              UploadReported, ManifestReported, ChunkReported, Raised, WorkerKills,
              WorkerHasKilled
<1>5. CASE UNCHANGED largeVars
  BY <1>5 DEF largeVars, transferVars
<1> QED
  BY <1>1, <1>2, <1>3, <1>4, <1>5 DEF LargeNext

(* A LargeTransfer uses its FileTransfer as anyone may.                      *)
THEOREM LargeTransfers == LargeSpec => TransferSpec
<1>1. LargeInit => TransferInit
  BY DEF LargeInit
<1>2. [LargeNext]_largeVars => [TransferNext]_transferVars
  BY LargeStepTransfers
<1> QED
  BY <1>1, <1>2, PTL DEF LargeSpec, TransferSpec

(* The variables of the worker pool are of their types.                      *)
THEOREM TransferTypes == LargeSpec => []TransferTypeOK
<1>1. TransferInv => TransferTypeOK
  BY DEF TransferInv, Typed
<1> QED
  BY <1>1, LargeTransfers, TransferInvariant, PTL

(* When run returns unstopped, each job the source yielded is completed,     *)
(* failed or rejected.                                                       *)
THEOREM NoJobLost == LargeSpec => []NothingLost
<1>1. TransferInv => NothingLost
  BY NothingLeft
<1> QED
  BY <1>1, LargeTransfers, TransferInvariant, PTL

(* There are never more unsettled jobs than workers, however they fail.      *)
THEOREM OneJobEach == LargeSpec => []AtMostOneEach
<1>1. TransferInv => AtMostOneEach
  BY CoveredBounds
<1> QED
  BY <1>1, LargeTransfers, TransferInvariant, PTL

(* No job is in two places.                                                  *)
THEOREM JobsApart == LargeSpec => []OnePlace
<1>1. TransferInv => OnePlace
  BY DEF TransferInv
<1> QED
  BY <1>1, LargeTransfers, TransferInvariant, PTL

-----------------------------------------------------------------------------
(* What run returns. *)

(* The task's phases, and who can have killed it.                            *)
TaskInv ==
  /\ task = "new" => run = "idle"
  /\ result # "none" => run = "ended"
  /\ result = "none" <=> task \in {"new", "running"}
  /\ result \in {"nothing", "manifest"} => up
  /\ result = "lists" => ~up
  /\ ~killed => ~stopAll
  /\ up => restorer = "none"
  /\ up /\ killer = "idle" => ~killed
  /\ killer # "idle" => killed
  /\ restorer = "read" => next \in downloaded

(* An upload's chunks stay in the cloud until the transfer is known to be    *)
(* spoilt, and then all go.                                                  *)
UploadInv ==
  up =>
    /\ cloud \subseteq 1..produced
    /\ ~killed /\ result # "nothing" => completed \subseteq cloud
    /\ result = "nothing" => cloud \cap Chunks = {}
    /\ result = "manifest" =>
         failed = {} /\ (killed /\ killer # "deleting" => cloud \cap Chunks = {})

(* A download that goes on has lost no chunk, and each it has completed is   *)
(* restored or waited for.                                                   *)
DownloadInv ==
  ~up /\ ~killed =>
    /\ failed \cup rejected # {} => \E w \in Workers : At(w, "error")
    /\ \A c \in completed \cap Chunks :
         c \in processed \/ \E w \in Workers : At(w, "report") /\ Job(w) = c

(* The source of a download breaks off with the manifest or not at all, and  *)
(* the restorer is started with the first chunk.                             *)
SourceInv ==
  ~up =>
    /\ known => produced > 1
    /\ ~known => restorer = "none" /\ processed = {}
    /\ ~killed /\ SourceRaised => exhausted /\ produced = 1

LargeInv == LargeTypeOK /\ TaskInv /\ UploadInv /\ DownloadInv /\ SourceInv

LEMMA LargeInitInv ==
  ASSUME LargeInit
  PROVE  LargeInv
<1> USE TransferAssumption, LargeAssumption DEF LargeInit, TransferInit
<1>1. LargeTypeOK
  <2>1. next \in FirstChunk..NumJobs
    BY DEF FirstChunk
  <2> QED
    BY <2>1 DEF LargeTypeOK
<1>2. TaskInv
  BY DEF TaskInv
<1>3. UploadInv
  BY DEF UploadInv
<1>4. DownloadInv
  BY DEF DownloadInv
<1>5. SourceInv
  BY DEF SourceInv, SourceRaised, At
<1> QED
  BY <1>1, <1>2, <1>3, <1>4, <1>5 DEF LargeInv

LEMMA LargeTypesStep ==
  ASSUME Typed, LargeTypeOK, TaskInv, [LargeNext]_largeVars
  PROVE  LargeTypeOK'
<1> USE DEF LargeTypeOK
<1>0. ASSUME up' = up PROVE Chunks' = Chunks
  BY <1>0 DEF Chunks, ManifestJob
<1> USE <1>0
<1>1. CASE Start \/ TransferRuns
  BY <1>1 DEF Start, TransferRuns
<1>2. CASE Finish
  BY <1>2 DEF Finish
<1>3. CASE Leave \/ Kill \/ KillDeletes
  BY <1>3 DEF Leave, Kill, KillDeletes
<1>4. CASE ReadChunk \/ RestorerInterrupted \/ RestorerKills \/ RestorerDies
  BY <1>4 DEF ReadChunk, RestorerInterrupted, RestorerKills, RestorerDies, restorerFrame
<1>5. CASE Restore
  <2>1. next \in downloaded
    BY <1>5 DEF Restore, TaskInv
  <2>2. next' \in FirstChunk..NumJobs
    BY <1>5, TransferAssumption DEF Restore, IsLast, FirstChunk
  <2> QED
    BY <1>5, <2>1, <2>2 DEF Restore, restorerFrame
<1>6. ASSUME NEW w \in Workers, PlainStep(w) \/ Raised(w)
      PROVE  LargeTypeOK'
  BY <1>6 DEF PlainStep, SourceInterrupted, SourceBreaks, Raised
<1>7. ASSUME NEW w \in Workers, AskSource(w)
      PROVE  LargeTypeOK'
  <2>1. produced + 1 \in Jobs /\ FirstChunk \in Jobs
    BY <1>7, TransferAssumption, LargeAssumption
       DEF AskSource, Fetch, Typed, TransferTypeOK, Jobs, FirstChunk
  <2> QED
    BY <1>7, <2>1 DEF AskSource
<1>8. ASSUME NEW w \in Workers, Transferred(w)
      PROVE  LargeTypeOK'
  <2>1. Job(w) \in Jobs
    BY <1>8 DEF Transferred, Succeed, Typed, Placed, Working, Attempts, Job
  <2> QED
    BY <1>8, <2>1 DEF Transferred
<1>9. ASSUME NEW w \in Workers, ListenersReturn(w)
      PROVE  LargeTypeOK'
  BY <1>9 DEF ListenersReturn, UploadReported, ManifestReported, ChunkReported
<1>10. ASSUME NEW w \in Workers, WorkerKills(w) \/ WorkerHasKilled(w)
       PROVE  LargeTypeOK'
  BY <1>10 DEF WorkerKills, WorkerHasKilled
<1>11. CASE UNCHANGED largeVars
  BY <1>11 DEF largeVars
<1> QED
  BY <1>1, <1>2, <1>3, <1>4, <1>5, <1>6, <1>7, <1>8, <1>9, <1>10, <1>11
     DEF LargeNext, RestorerStep, LargeWorkerStep

(* run is not over while a worker steps, and its step does not end it.       *)
LEMMA RunWhileWorking ==
  ASSUME TransferInv, NEW w \in Workers, WorkerStep(w)
  PROVE  run = "running" /\ run' = "running" /\ stopAll' = stopAll
<1>1. ~(At(w, "idle") \/ At(w, "done") \/ At(w, "dead"))
  BY DEF WorkerStep, TakeRetry, FindNoRetry, Fetch, SourceEnds, SourceRaises,
         Succeed, Reported, Reject, Retry, GiveUp, ErrorReported, Check, At
<1>2. run \in {"idle", "running", "ended"}
  BY DEF TransferInv, Typed, TransferTypeOK
<1>3. run' = run /\ stopAll' = stopAll
  BY OtherWorkers DEF TransferInv
<1> QED
  BY <1>1, <1>2, <1>3 DEF TransferInv, Phases

LEMMA TaskStep ==
  ASSUME TransferInv, LargeTypeOK, TaskInv, [LargeNext]_largeVars
  PROVE  TaskInv'
<1> USE DEF TaskInv, LargeTypeOK
<1>1. CASE Start \/ TransferRuns
  BY <1>1 DEF Start, TransferRuns, RunStart, RunEnd, transferVars
<1>2. CASE Finish
  BY <1>2 DEF Finish, transferVars, Spoilt
<1>3. CASE Leave \/ Kill \/ KillDeletes
  BY <1>3 DEF Leave, Kill, KillDeletes, transferVars, StopAll
<1>4. CASE RestorerStep
  BY <1>4 DEF RestorerStep, ReadChunk, Restore, RestorerInterrupted, RestorerKills,
              RestorerDies, restorerFrame, transferVars, StopAll
<1>5. ASSUME NEW w \in Workers, LargeWorkerStep(w), WorkerStep(w)
      PROVE  TaskInv'
  <2>1. run = "running" /\ run' = "running" /\ stopAll' = stopAll
    BY <1>5, RunWhileWorking
  <2> QED
    BY <1>5, <2>1
       DEF LargeWorkerStep, PlainStep, SourceInterrupted, SourceBreaks, AskSource, Transferred, ListenersReturn, Raised,
           UploadReported, ManifestReported, ChunkReported, WorkerKills, WorkerHasKilled
<1>6. ASSUME NEW w \in Workers, WorkerKills(w)
      PROVE  TaskInv'
  BY <1>6 DEF WorkerKills, StopAll
<1>7. CASE UNCHANGED largeVars
  BY <1>7 DEF largeVars, transferVars
<1>8. ASSUME NEW w \in Workers, LargeWorkerStep(w)
      PROVE  WorkerStep(w) \/ WorkerKills(w)
  BY <1>8 DEF LargeWorkerStep, PlainStep, SourceInterrupted, SourceBreaks, AskSource, Transferred, ListenersReturn, Raised,
              UploadReported, ManifestReported, ChunkReported, WorkerHasKilled, WorkerStep
<1> QED
  BY <1>1, <1>2, <1>3, <1>4, <1>5, <1>6, <1>7, <1>8 DEF LargeNext

LEMMA UploadStep ==
  ASSUME TransferInv, LargeTypeOK, TaskInv, UploadInv, [LargeNext]_largeVars
  PROVE  UploadInv'
<1> SUFFICES ASSUME up'
             PROVE  UploadInv'
  BY DEF UploadInv
<1> USE DEF UploadInv
<1>0. ASSUME up' = up PROVE Chunks' = Chunks
  BY <1>0 DEF Chunks, ManifestJob
<1> USE <1>0
<1>1. CASE Start \/ Leave
  BY <1>1 DEF Start, Leave, transferVars
<1>2. CASE TransferRuns
  BY <1>2 DEF TransferRuns, RunStart, RunEnd
<1>3. CASE Finish
  <2>1. cloud \subseteq 1..produced
    BY <1>3 DEF Finish
  <2>2. (cloud \ Listed) \cap Chunks = {}
    BY <2>1 DEF Listed
  <2>3. /\ up' = up /\ killed' = killed /\ killer' = killer /\ produced' = produced
        /\ failed' = failed /\ completed' = completed /\ Chunks' = Chunks
    BY <1>3 DEF Finish, transferVars
  <2>4. result = "none"
    BY <1>3 DEF Finish, TaskInv
  <2>5. CASE Spoilt
    <3>1. result' = "nothing" /\ cloud' = cloud \ Listed
      BY <1>3, <2>3, <2>5 DEF Finish
    <3>2. cloud' \cap Chunks' = {}
      BY <2>2, <2>3, <3>1
    <3> QED
      BY <2>1, <2>3, <3>1, <3>2
  <2>6. CASE ~Spoilt
    <3>1. result' = "manifest" /\ cloud' = cloud
      BY <1>3, <2>3, <2>6 DEF Finish
    <3> QED
      BY <2>1, <2>3, <2>4, <2>6, <3>1 DEF Spoilt
  <2> QED
    BY <2>5, <2>6
<1>4. CASE Kill
  BY <1>4 DEF Kill, StopAll
<1>5. CASE KillDeletes
  <2>1. cloud \subseteq 1..produced
    BY <1>5 DEF KillDeletes
  <2>2. (cloud \ Listed) \cap Chunks = {}
    BY <2>1 DEF Listed
  <2>3. /\ cloud' = cloud \ Listed /\ up' = up /\ killed' = killed
        /\ result' = result /\ produced' = produced /\ failed' = failed
        /\ Chunks' = Chunks
    BY <1>5 DEF KillDeletes, transferVars
  <2>4. killed
    BY <1>5 DEF KillDeletes, TaskInv
  <2>5. cloud' \cap Chunks' = {}
    BY <2>2, <2>3
  <2> QED
    BY <2>1, <2>3, <2>4, <2>5
<1>6. CASE RestorerStep
  BY <1>6 DEF RestorerStep, ReadChunk, Restore, RestorerInterrupted, RestorerKills,
              RestorerDies, restorerFrame, TaskInv
<1>7. ASSUME NEW w \in Workers, PlainStep(w) \/ Raised(w) \/ ListenersReturn(w)
      PROVE  UploadInv'
  <2>1. WorkerStep(w)
    BY <1>7 DEF PlainStep, SourceInterrupted, SourceBreaks, Raised, ListenersReturn, UploadReported, ManifestReported,
                ChunkReported, WorkerStep
  <2>2. result = "none"
    BY <2>1, RunWhileWorking DEF TaskInv
  <2>3. completed' = completed /\ produced' = produced
    BY <1>7 DEF PlainStep, SourceInterrupted, SourceBreaks, Raised, ListenersReturn, UploadReported, ManifestReported,
                ChunkReported, TakeRetry, FindNoRetry, SourceEnds, SourceRaises, Reject,
                Check, ErrorReported, Retry, GiveUp, Reported
  <2>4. cloud' = cloud /\ killed' = killed /\ result' = result /\ up' = up
    BY <1>7 DEF PlainStep, SourceInterrupted, SourceBreaks, Raised, ListenersReturn
  <2> QED
    BY <2>2, <2>3, <2>4
<1>8. ASSUME NEW w \in Workers, AskSource(w)
      PROVE  UploadInv'
  <2>1. result = "none"
    BY <1>8, RunWhileWorking DEF AskSource, WorkerStep, TaskInv
  <2>2. /\ completed' = completed /\ produced' = produced + 1
        /\ cloud' = cloud /\ killed' = killed /\ result' = result /\ up' = up
    BY <1>8 DEF AskSource, Fetch
  <2>3. 1..produced \subseteq 1..produced'
    BY <2>2 DEF TransferInv, Typed, TransferTypeOK
  <2> QED
    BY <2>1, <2>2, <2>3
<1>9. ASSUME NEW w \in Workers, Transferred(w)
      PROVE  UploadInv'
  <2>1. result = "none"
    BY <1>9, RunWhileWorking DEF Transferred, WorkerStep, TaskInv
  <2>2. Job(w) \in 1..produced
    BY <1>9 DEF Transferred, Succeed, TransferInv, Typed, TransferTypeOK, Placed, Working,
                Attempts, Jobs, Job
  <2>3. /\ completed' = completed \cup {Job(w)} /\ produced' = produced
        /\ killed' = killed /\ result' = result /\ up' = up
    BY <1>9 DEF Transferred, Succeed, Job
  <2>4. cloud' = cloud \cup {Job(w)}
    BY <1>9, <2>3 DEF Transferred
  <2> QED
    BY <2>1, <2>2, <2>3, <2>4
<1>10. ASSUME NEW w \in Workers, WorkerKills(w) \/ WorkerHasKilled(w)
       PROVE  UploadInv'
  BY <1>10 DEF WorkerKills, WorkerHasKilled
<1>11. CASE UNCHANGED largeVars
  BY <1>11 DEF largeVars, transferVars
<1> QED
  BY <1>1, <1>2, <1>3, <1>4, <1>5, <1>6, <1>7, <1>8, <1>9, <1>10, <1>11
     DEF LargeNext, LargeWorkerStep

LEMMA DownloadStep ==
  ASSUME TransferInv, LargeTypeOK, TaskInv, DownloadInv, [LargeNext]_largeVars
  PROVE  DownloadInv'
<1> SUFFICES ASSUME ~up', ~killed'
             PROVE  DownloadInv'
  BY DEF DownloadInv
<1> USE DEF DownloadInv, At, Job, TransferInv, Typed, TransferTypeOK
<1>0. ASSUME up' = up PROVE Chunks' = Chunks
  BY <1>0 DEF Chunks, ManifestJob
<1> USE <1>0
<1>1. CASE Start \/ Leave \/ Finish \/ KillDeletes
  BY <1>1 DEF Start, Leave, Finish, KillDeletes, transferVars
<1>2. CASE TransferRuns
  BY <1>2 DEF TransferRuns, RunStart, RunEnd, Phases
<1>3. CASE Kill
  BY <1>3 DEF Kill
<1>4. CASE RestorerStep
  BY <1>4 DEF RestorerStep, ReadChunk, Restore, RestorerInterrupted, RestorerKills,
              RestorerDies, restorerFrame, transferVars
<1>5. ASSUME NEW w \in Workers, PlainStep(w)
      PROVE  DownloadInv'
  <2>1. /\ ~At(w, "error") /\ ~At(w, "report")
        /\ \A v \in Workers \ {w} : worker'[v] = worker[v]
        /\ up' = up /\ killed' = killed /\ processed' = processed
    <3>1. ~up
      BY <1>5 DEF PlainStep, SourceInterrupted, SourceBreaks
    <3>2. TakeRetry(w) \/ FindNoRetry(w) \/ SourceEnds(w) \/ SourceRaises(w)
            \/ Reject(w) \/ Check(w)
      BY <1>5, <3>1, Zenon DEF PlainStep, SourceInterrupted, SourceBreaks
    <3>3. WorkerStep(w)
      BY <3>2 DEF WorkerStep
    <3>4. \A v \in Workers \ {w} : worker'[v] = worker[v]
      BY <3>3, OtherWorkers
    <3> QED
      BY <1>5, <3>2, <3>4 DEF PlainStep, SourceInterrupted, SourceBreaks, TakeRetry, FindNoRetry, SourceEnds, SourceRaises,
                              Reject, Check
  <2>2. completed' = completed
    BY <1>5 DEF PlainStep, SourceInterrupted, SourceBreaks, TakeRetry, FindNoRetry, SourceEnds, SourceRaises, Reject,
                Check, ErrorReported
  <2>3. (failed' = failed /\ rejected' = rejected) \/ At(w, "error")'
    BY <1>5 DEF PlainStep, SourceInterrupted, SourceBreaks, TakeRetry, FindNoRetry, SourceEnds, SourceRaises, Reject,
                Check, ErrorReported, Drop
  <2> QED
    BY <2>1, <2>2, <2>3
<1>6. ASSUME NEW w \in Workers, AskSource(w)
      PROVE  DownloadInv'
  <2>1. /\ ~At(w, "error") /\ ~At(w, "report")
        /\ \A v \in Workers \ {w} : worker'[v] = worker[v]
        /\ up' = up /\ killed' = killed /\ processed' = processed
        /\ completed' = completed /\ failed' = failed /\ rejected' = rejected
    BY <1>6 DEF AskSource, Fetch, Begin
  <2> QED
    BY <2>1
<1>7. ASSUME NEW w \in Workers, Transferred(w)
      PROVE  DownloadInv'
  <2>1. /\ ~At(w, "error") /\ ~At(w, "report")
        /\ At(w, "report")' /\ worker'[w].at = worker[w].at
        /\ \A v \in Workers \ {w} : worker'[v] = worker[v]
        /\ up' = up /\ killed' = killed /\ processed' = processed
        /\ completed' = completed \cup {worker[w].at.job}
        /\ failed' = failed /\ rejected' = rejected
    BY <1>7 DEF Transferred, Succeed, Goto
  <2> QED
    BY <2>1
<1>8. ASSUME NEW w \in Workers, ListenersReturn(w)
      PROVE  DownloadInv'
  <2>1. /\ ~At(w, "error") /\ At(w, "report")
        /\ \A v \in Workers \ {w} : worker'[v] = worker[v]
        /\ up' = up /\ killed' = killed /\ processed' = processed
        /\ completed' = completed /\ failed' = failed /\ rejected' = rejected
    BY <1>8 DEF ListenersReturn, UploadReported, ManifestReported, ChunkReported, Reported,
                Drop
  <2>2. worker[w].at.job \in processed \/ worker[w].at.job \notin Chunks
    BY <1>8, <2>1 DEF ListenersReturn, UploadReported, ManifestReported, ChunkReported,
                      Chunks
  <2> QED
    BY <2>1, <2>2
<1>9. ASSUME NEW w \in Workers, Raised(w)
      PROVE  DownloadInv'
  <2>1. /\ At(w, "transfer")
        /\ up' = up /\ killed' = killed /\ processed' = processed
    BY <1>9 DEF Raised, Retry, GiveUp
  <2>2. /\ completed' = completed /\ rejected' = rejected
        /\ failed' = failed \/ At(w, "error")'
        /\ \A v \in Workers \ {w} : worker'[v] = worker[v]
    BY <1>9 DEF Raised, Retry, GiveUp, Drop
  <2> QED
    BY <2>1, <2>2
<1>10. ASSUME NEW w \in Workers, WorkerKills(w) \/ WorkerHasKilled(w)
       PROVE  DownloadInv'
  BY <1>10 DEF WorkerKills, WorkerHasKilled
<1>11. CASE UNCHANGED largeVars
  BY <1>11 DEF largeVars, transferVars
<1> QED
  BY <1>1, <1>2, <1>3, <1>4, <1>5, <1>6, <1>7, <1>8, <1>9, <1>10, <1>11
     DEF LargeNext, LargeWorkerStep

LEMMA SourceInvStep ==
  ASSUME TransferInv, SourceInv, [LargeNext]_largeVars
  PROVE  SourceInv'
<1> SUFFICES ASSUME ~up'
             PROVE  SourceInv'
  BY DEF SourceInv
<1> USE DEF SourceInv, SourceRaised, At
<1>1. CASE Start \/ Finish \/ Leave \/ Kill \/ KillDeletes
  BY <1>1 DEF Start, Finish, Leave, Kill, KillDeletes, StopAll, transferVars
<1>2. CASE TransferRuns
  <2>1. \A w \in Workers : At(w, "dead")' => At(w, "dead")
    BY <1>2 DEF TransferRuns, RunStart, RunEnd, TransferInv, Typed, TransferTypeOK
  <2> QED
    BY <1>2, <2>1 DEF TransferRuns, RunStart, RunEnd
<1>3. CASE RestorerStep
  BY <1>3 DEF RestorerStep, ReadChunk, Restore, RestorerInterrupted, RestorerKills,
              RestorerDies, restorerFrame, transferVars, StopAll
<1>4. ASSUME NEW w \in Workers, LargeWorkerStep(w), ~SourceBreaks(w), ~SourceInterrupted(w)
      PROVE  SourceInv'
  <2>1. /\ up' = up /\ processed' = processed
        /\ killed => killed'
        /\ exhausted => exhausted'
    BY <1>4 DEF LargeWorkerStep, PlainStep, AskSource, Transferred, ListenersReturn, Raised,
       UploadReported, ManifestReported, ChunkReported, WorkerKills, WorkerHasKilled,
       TakeRetry, FindNoRetry, SourceEnds, Reject, Check, ErrorReported, Fetch, Succeed,
       Reported, Retry, GiveUp, StopAll
  <2>2. \/ AskSource(w)
        \/ produced' = produced /\ known' = known /\ restorer' = restorer
    BY <1>4 DEF LargeWorkerStep, PlainStep, Transferred, ListenersReturn, Raised,
       UploadReported, ManifestReported, ChunkReported, WorkerKills, WorkerHasKilled,
       TakeRetry, FindNoRetry, SourceEnds, Reject, Check, ErrorReported, Succeed,
       Reported, Retry, GiveUp, StopAll
  <2>3. SourceRaised' => SourceRaised
    <3> USE DEF TransferInv, Typed, TransferTypeOK
    <3> QED
      BY <1>4 DEF LargeWorkerStep, PlainStep, AskSource, Transferred, ListenersReturn, Raised,
         UploadReported, ManifestReported, ChunkReported, WorkerKills, WorkerHasKilled,
         TakeRetry, FindNoRetry, SourceEnds, Reject, Check, ErrorReported, Fetch, Succeed,
         Reported, Retry, GiveUp, StopAll, Goto, Drop, Begin
  <2>4. CASE AskSource(w)
    <3>1. produced \in Nat /\ produced' = produced + 1 /\ ~exhausted /\ killed' = killed
      BY <2>4 DEF AskSource, Fetch, TransferInv, Typed, TransferTypeOK
    <3>2. CASE produced = 1
      BY <2>1, <2>3, <2>4, <3>1, <3>2 DEF AskSource
    <3>3. CASE produced # 1
      BY <2>1, <2>3, <2>4, <3>1, <3>3 DEF AskSource
    <3> QED
      BY <3>2, <3>3
  <2> QED
    BY <2>1, <2>2, <2>3, <2>4
<1>5. ASSUME NEW w \in Workers, PlainStep(w), SourceBreaks(w) \/ SourceInterrupted(w)
      PROVE  SourceInv'
  BY <1>5 DEF PlainStep, SourceBreaks, SourceInterrupted, SourceRaises
<1>6. CASE UNCHANGED largeVars
  BY <1>6 DEF largeVars, transferVars
<1>7. ASSUME NEW w \in Workers, LargeWorkerStep(w), SourceBreaks(w) \/ SourceInterrupted(w)
      PROVE  PlainStep(w)
  BY <1>7 DEF LargeWorkerStep, AskSource, Transferred, ListenersReturn, Raised,
     UploadReported, ManifestReported, ChunkReported, WorkerKills, WorkerHasKilled,
     SourceBreaks, SourceInterrupted, SourceRaises, Fetch, Succeed, Reported, Retry, GiveUp,
     ErrorReported, At
<1> QED
  BY <1>1, <1>2, <1>3, <1>4, <1>5, <1>6, <1>7 DEF LargeNext

THEOREM LargeInvariant == LargeSpec => [](TransferInv /\ LargeInv)
<1> DEFINE Both == TransferInv /\ LargeInv
<1>1. LargeInit => Both
  BY InitInv, LargeInitInv DEF LargeInit
<1>2. Both /\ [LargeNext]_largeVars => Both'
  <2> SUFFICES ASSUME Both, [LargeNext]_largeVars
               PROVE  Both'
    OBVIOUS
  <2>1. TransferInv'
    BY LargeStepTransfers, TypedStep, PhasesStep, OnePlaceStep, TrackedStep,
       QueueCoveredStep, SourceSeenStep DEF TransferInv
  <2>2. LargeInv'
    BY LargeTypesStep, TaskStep, UploadStep, DownloadStep, SourceInvStep
       DEF LargeInv, TransferInv
  <2> QED
    BY <2>1, <2>2
<1> QED
  BY <1>1, <1>2, PTL DEF LargeSpec

(* The variables of a LargeTransfer are of their types; among them: nothing  *)
(* is restored that was not downloaded.                                      *)
THEOREM LargeTypes == LargeSpec => []LargeTypeOK
<1>1. LargeInv => LargeTypeOK
  BY DEF LargeInv
<1> QED
  BY <1>1, LargeInvariant, PTL

(* When run has ended by itself the source has yielded every job, unless it  *)
(* broke off.                                                                *)
LEMMA AllYielded ==
  ASSUME TransferInv, run = "ended", ~stopAll
  PROVE  produced = NumJobs \/ SourceRaised
<1> SUFFICES ASSUME ~SourceRaised
             PROVE  produced = NumJobs
  OBVIOUS
<1>1. PICK w \in Workers : TRUE
  BY TransferAssumption
<1>2. At(w, "done")
  BY <1>1 DEF TransferInv, Phases, SourceRaised
<1> QED
  BY <1>2 DEF TransferInv, SourceSeen, SourceRaised

LEMMA AllSettled ==
  ASSUME TransferInv, run = "ended", ~stopAll, ~SourceRaised
  PROVE  Jobs \subseteq Settled
<1>1. produced = NumJobs
  BY AllYielded
<1> QED
  BY <1>1, NothingLeft DEF NothingLost, Jobs

(* What the source of an upload has yielded is in the cloud when the         *)
(* manifest is returned, unless an assertion failed, and that is everything  *)
(* unless the source broke off.                                              *)
THEOREM UploadTrue == LargeSpec => []UploadResultTrue
<1>1. ASSUME TransferInv, LargeInv
      PROVE  UploadResultTrue
  <2> SUFFICES ASSUME result = "manifest", killer = "idle"
               PROVE  /\ 1..produced \subseteq cloud \cup rejected
                      /\ produced = NumJobs \/ SourceRaised
    BY DEF UploadResultTrue
  <2>1. up /\ ~killed /\ ~stopAll /\ run = "ended"
    BY <1>1 DEF LargeInv, TaskInv
  <2>2. 1..produced \subseteq Settled
    BY <1>1, <2>1, NothingLeft DEF NothingLost
  <2>3. failed = {} /\ completed \subseteq cloud
    BY <1>1, <2>1 DEF LargeInv, UploadInv
  <2>4. produced = NumJobs \/ SourceRaised
    BY <1>1, <2>1, AllYielded
  <2> QED
    BY <2>2, <2>3, <2>4 DEF Settled
<1> QED
  BY <1>1, LargeInvariant, PTL

(* No chunk of a spoilt upload stays in the cloud.                           *)
THEOREM SpoiltUploadCleaned == LargeSpec => []KillCleans
<1>1. ASSUME LargeInv
      PROVE  KillCleans
  BY <1>1 DEF LargeInv, LargeTypeOK, TaskInv, UploadInv, KillCleans
<1> QED
  BY <1>1, LargeInvariant, PTL

(* A download that was not killed has been restored, or nothing of it when   *)
(* its manifest could not be parsed.                                         *)
THEOREM DownloadTrue == LargeSpec => []DownloadResultTrue
<1>1. ASSUME TransferInv, LargeInv
      PROVE  DownloadResultTrue
  <2> SUFFICES ASSUME result = "lists", ~killed
               PROVE  processed = Chunks \/ (SourceRaised /\ ~known /\ processed = {})
    BY DEF DownloadResultTrue
  <2>1. ~up /\ ~stopAll /\ run = "ended"
    BY <1>1 DEF LargeInv, TaskInv
  <2>2. ~SourceRaised => Jobs \subseteq Settled
    BY <1>1, <2>1, AllSettled
  <2>3. \A w \in Workers : ~At(w, "error") /\ ~At(w, "report")
    BY <1>1, <2>1 DEF TransferInv, Phases, At
  <2>4. failed \cup rejected = {} /\ completed \cap Chunks \subseteq processed
    BY <1>1, <2>1, <2>3 DEF LargeInv, DownloadInv
  <2>5. processed \subseteq Chunks
    BY <1>1 DEF LargeInv, LargeTypeOK
  <2>6. CASE SourceRaised
    BY <1>1, <2>1, <2>6 DEF LargeInv, SourceInv
  <2>7. CASE ~SourceRaised
    BY <2>2, <2>4, <2>5, <2>7 DEF Settled, Chunks
  <2> QED
    BY <2>6, <2>7
<1> QED
  BY <1>1, LargeInvariant, PTL
-----------------------------------------------------------------------------
(* What is on the tmpfs. *)

(* The jobs that are on the queue or in a worker's hands.                    *)
UnsettledJobs == {a.job : a \in Unsettled}

(* The restorer is there between the manifest and the task's end, and has    *)
(* not been at the chunk it waits for or reads.                              *)
RestorerPlace ==
  /\ restorer # "none" => produced > 1
  /\ ~RestorerOver => task = "running"
  /\ restorer \in {"none", "wait", "read"} => \A c \in processed : c < next

DownloadedDone == downloaded \subseteq completed

(* The chunks on the tmpfs are those at work, and what failed for good.      *)
OnDisk == task # "ended" => UnsettledJobs \cap Chunks \subseteq disk
DiskUsed == disk \cap Chunks \subseteq failed \cup rejected \cup UnsettledJobs

DiskInv == RestorerPlace /\ DownloadedDone /\ OnDisk /\ DiskUsed

(* What a worker's step does to the unsettled jobs: it leaves them alone ... *)
LEMMA JobsKept ==
  ASSUME Typed, NEW w \in Workers,
         \/ TakeRetry(w) \/ FindNoRetry(w) \/ SourceEnds(w) \/ SourceRaises(w)
         \/ Succeed(w) \/ Retry(w) \/ ErrorReported(w) \/ Check(w)
  PROVE  UnsettledJobs' = UnsettledJobs
<1> USE DEF Typed, TransferTypeOK, Working, At
<1>1. \A v \in Workers \ {w} : worker'[v] = worker[v]
  BY OtherWorkers DEF WorkerStep
<1>2. CASE TakeRetry(w)
  <2>1. PICK a \in retries : retries' = retries \ {a} /\ Begin(w, a)
    BY <1>2 DEF TakeRetry
  <2>2. ~Working(w) /\ Working(w)' /\ worker'[w].at = a
    BY <1>2, <2>1 DEF TakeRetry, Begin
  <2>3. Unsettled' = Unsettled
    BY <1>1, <2>1, <2>2 DEF Unsettled
  <2> QED
    BY <2>3 DEF UnsettledJobs
<1>3. CASE FindNoRetry(w) \/ SourceEnds(w) \/ SourceRaises(w) \/ ErrorReported(w) \/ Check(w)
  <2>1. retries' = retries /\ ~Working(w) /\ ~Working(w)'
    BY <1>3 DEF FindNoRetry, SourceEnds, SourceRaises, ErrorReported, Check, Goto
  <2>2. Unsettled' = Unsettled
    BY <1>1, <2>1 DEF Unsettled
  <2> QED
    BY <2>2 DEF UnsettledJobs
<1>4. CASE Succeed(w)
  <2>1. retries' = retries /\ Working(w) /\ Working(w)' /\ worker'[w].at = worker[w].at
    BY <1>4 DEF Succeed, Goto
  <2>2. Unsettled' = Unsettled
    BY <1>1, <2>1 DEF Unsettled
  <2> QED
    BY <2>2 DEF UnsettledJobs
<1>5. CASE Retry(w)
  <2> DEFINE b == [worker[w].at EXCEPT !.retry = @ + 1]
  <2>1. retries' = retries \cup {b} /\ Working(w) /\ ~Working(w)'
    BY <1>5 DEF Retry, Drop
  <2>2. b.job = worker[w].at.job
    BY <2>1 DEF Placed, Attempts
  <2> HIDE DEF b
  <2> QED
    BY <1>1, <2>1, <2>2 DEF UnsettledJobs, Unsettled
<1> QED
  BY <1>2, <1>3, <1>4, <1>5

(* ... or takes the next one from the source ...                             *)
LEMMA JobsFetched ==
  ASSUME Typed, NEW w \in Workers, Fetch(w)
  PROVE  UnsettledJobs' = UnsettledJobs \cup {produced + 1}
<1> USE DEF Typed, TransferTypeOK
<1>1. \A v \in Workers \ {w} : worker'[v] = worker[v]
  BY OtherWorkers DEF WorkerStep
<1>2. retries' = retries /\ ~Working(w) /\ Working(w)' /\ worker'[w].at.job = produced + 1
  BY DEF Fetch, Begin, Working, At
<1>3. \A v \in Workers \ {w} : Working(v)' <=> Working(v)
  BY <1>1 DEF Working, At
<1> QED
  BY <1>1, <1>2, <1>3 DEF UnsettledJobs, Unsettled

(* ... or is done with its own, which is nowhere else.                       *)
LEMMA JobsLeft ==
  ASSUME Typed, OnePlace, NEW w \in Workers, Reported(w) \/ Reject(w) \/ GiveUp(w)
  PROVE  UnsettledJobs' = UnsettledJobs \ {worker[w].at.job}
<1> USE DEF Typed, TransferTypeOK
<1>1. \A v \in Workers \ {w} : worker'[v] = worker[v]
  BY OtherWorkers DEF WorkerStep
<1>2. retries' = retries /\ Working(w) /\ ~Working(w)'
  BY DEF Reported, Reject, GiveUp, Drop, Working, At
<1>3. \A v \in Workers \ {w} : Working(v)' <=> Working(v)
  BY <1>1 DEF Working, At
<1>4. \A v \in Workers \ {w} : Working(v) => worker[v].at.job # worker[w].at.job
  BY <1>2 DEF OnePlace
<1>5. \A a \in retries : a.job # worker[w].at.job
  BY <1>2 DEF OnePlace
<1> QED
  BY <1>1, <1>2, <1>3, <1>4, <1>5 DEF UnsettledJobs, Unsettled

(* Before the workers start nobody has a job.                                *)
LEMMA JobsAtStart ==
  ASSUME TransferInv, RunStart
  PROVE  UnsettledJobs' = UnsettledJobs
<1>1. \A w \in Workers : ~Working(w) /\ ~Working(w)'
  BY DEF RunStart, TransferInv, Typed, TransferTypeOK, Phases, Working, At
<1>2. retries' = retries
  BY DEF RunStart
<1> QED
  BY <1>1, <1>2 DEF UnsettledJobs, Unsettled

LEMMA JobsUntouched ==
  ASSUME worker' = worker, retries' = retries
  PROVE  UnsettledJobs' = UnsettledJobs
BY DEF UnsettledJobs, Unsettled, Working, At

LEMMA InitDiskInv ==
  ASSUME LargeInit
  PROVE  DiskInv
<1> USE DEF LargeInit, TransferInit
<1>1. Unsettled = {}
  BY DEF Unsettled, Working, At
<1>2. UnsettledJobs = {}
  BY <1>1 DEF UnsettledJobs
<1> QED
  BY <1>2 DEF DiskInv, RestorerPlace, RestorerOver, DownloadedDone, OnDisk, DiskUsed

LEMMA RestorerPlaceStep ==
  ASSUME TransferInv, LargeTypeOK, TaskInv, RestorerPlace, [LargeNext]_largeVars
  PROVE  RestorerPlace'
<1> USE DEF RestorerPlace, RestorerOver
<1>1. CASE Start \/ TransferRuns
  BY <1>1 DEF Start, TransferRuns, RunStart, RunEnd, transferVars
<1>2. CASE Finish
  BY <1>2 DEF Finish, transferVars, TaskInv
<1>3. CASE Leave \/ Kill \/ KillDeletes
  BY <1>3 DEF Leave, Kill, KillDeletes, transferVars, StopAll
<1>4. CASE ReadChunk \/ RestorerInterrupted \/ RestorerKills \/ RestorerDies
  BY <1>4 DEF ReadChunk, RestorerInterrupted, RestorerKills, RestorerDies, restorerFrame,
              transferVars, StopAll
<1>5. CASE Restore
  <2>1. next \in Nat /\ \A c \in processed : c \in Nat
    BY TransferAssumption DEF LargeTypeOK, Chunks, Jobs, FirstChunk
  <2>2. \A c \in processed : c < next
    BY <1>5 DEF Restore
  <2>3. restorer' = "done" \/ next' = next + 1
    BY <1>5 DEF Restore
  <2>4. processed' = processed \cup {next}
    BY <1>5 DEF Restore
  <2>5. restorer' # "done" => \A c \in processed' : c < next'
    BY <2>1, <2>2, <2>3, <2>4
  <2> QED
    BY <1>5, <2>5 DEF Restore, restorerFrame, transferVars
<1>6. ASSUME NEW w \in Workers, AskSource(w)
      PROVE  RestorerPlace'
  <2>1. run = "running"
    BY <1>6, RunWhileWorking DEF AskSource, WorkerStep
  <2>2. task = "running"
    BY <2>1 DEF TaskInv, LargeTypeOK
  <2>3. produced' = produced + 1 /\ produced \in Nat
    BY <1>6 DEF AskSource, Fetch, TransferInv, Typed, TransferTypeOK
  <2>4. task' = task /\ processed' = processed /\ next' = next
    BY <1>6 DEF AskSource
  <2>5. CASE restorer' = restorer
    BY <2>2, <2>3, <2>4, <2>5
  <2>6. CASE produced = 1 /\ restorer' = "wait"
    BY <2>2, <2>3, <2>4, <2>6
  <2> QED
    BY <1>6, <2>5, <2>6 DEF AskSource
<1>7. ASSUME NEW w \in Workers,
             PlainStep(w) \/ Transferred(w) \/ ListenersReturn(w) \/ Raised(w)
      PROVE  RestorerPlace'
  <2>1. task' = task /\ restorer' = restorer /\ processed' = processed /\ next' = next
    BY <1>7 DEF PlainStep, SourceInterrupted, SourceBreaks, Transferred, ListenersReturn, Raised
  <2>2. produced' = produced
    BY <1>7 DEF PlainStep, SourceInterrupted, SourceBreaks, Transferred, ListenersReturn, Raised, TakeRetry, FindNoRetry,
                SourceEnds, SourceRaises, Reject, Check, ErrorReported, Succeed,
                UploadReported, ManifestReported, ChunkReported, Reported, Retry, GiveUp
  <2> QED
    BY <2>1, <2>2
<1>8. ASSUME NEW w \in Workers, WorkerKills(w) \/ WorkerHasKilled(w)
      PROVE  RestorerPlace'
  BY <1>8 DEF WorkerKills, WorkerHasKilled, StopAll, ErrorReported
<1>9. CASE UNCHANGED largeVars
  BY <1>9 DEF largeVars, transferVars
<1> QED
  BY <1>1, <1>2, <1>3, <1>4, <1>5, <1>6, <1>7, <1>8, <1>9
     DEF LargeNext, RestorerStep, LargeWorkerStep

LEMMA DownloadedStep ==
  ASSUME DownloadedDone, [LargeNext]_largeVars
  PROVE  DownloadedDone'
<1> USE DEF DownloadedDone
<1>1. CASE Start \/ TransferRuns \/ Finish \/ Leave \/ Kill \/ KillDeletes
  BY <1>1 DEF Start, TransferRuns, RunStart, RunEnd, Finish, Leave, Kill, KillDeletes,
              transferVars, StopAll
<1>2. CASE RestorerStep
  BY <1>2 DEF RestorerStep, ReadChunk, Restore, RestorerInterrupted, RestorerKills,
              RestorerDies, restorerFrame, transferVars, StopAll
<1>3. ASSUME NEW w \in Workers, Transferred(w)
      PROVE  DownloadedDone'
  BY <1>3 DEF Transferred, Succeed, Job
<1>4. ASSUME NEW w \in Workers,
             \/ PlainStep(w) \/ AskSource(w) \/ ListenersReturn(w) \/ Raised(w)
             \/ WorkerKills(w) \/ WorkerHasKilled(w)
      PROVE  DownloadedDone'
  <2>1. downloaded' = downloaded
    BY <1>4 DEF PlainStep, SourceInterrupted, SourceBreaks, AskSource, ListenersReturn, Raised, WorkerKills, WorkerHasKilled
  <2>2. completed' = completed
    BY <1>4 DEF PlainStep, SourceInterrupted, SourceBreaks, AskSource, ListenersReturn, Raised, WorkerKills, WorkerHasKilled,
                TakeRetry, FindNoRetry, Fetch, SourceEnds, SourceRaises, Reject, Check,
                ErrorReported, UploadReported, ManifestReported, ChunkReported, Reported,
                Retry, GiveUp, StopAll
  <2> QED
    BY <2>1, <2>2
<1>5. CASE UNCHANGED largeVars
  BY <1>5 DEF largeVars, transferVars
<1> QED
  BY <1>1, <1>2, <1>3, <1>4, <1>5 DEF LargeNext, LargeWorkerStep

(* Chunks come to the tmpfs and go from it with the job that has them.       *)
LEMMA DiskStep ==
  ASSUME TransferInv, LargeTypeOK, TaskInv, OnDisk, DiskUsed, [LargeNext]_largeVars
  PROVE  OnDisk' /\ DiskUsed'
<1> USE DEF OnDisk, DiskUsed
<1>0. up' = up /\ Chunks' = Chunks
  <2>1. up' = up
    BY DEF LargeNext, Start, TransferRuns, Finish, Leave, Kill, KillDeletes, RestorerStep,
           ReadChunk, Restore, RestorerInterrupted, RestorerKills, RestorerDies, restorerFrame,
           LargeWorkerStep, PlainStep, SourceInterrupted, SourceBreaks, AskSource, Transferred, ListenersReturn, Raised,
           WorkerKills, WorkerHasKilled, largeVars
  <2> QED
    BY <2>1 DEF Chunks, ManifestJob
<1> USE <1>0
<1>1. CASE TransferRuns
  <2>1. UnsettledJobs' = UnsettledJobs
    BY <1>1, JobsAtStart, JobsUntouched DEF TransferRuns, RunEnd
  <2> QED
    BY <1>1, <2>1 DEF TransferRuns, RunStart, RunEnd
<1>2. CASE Start \/ Finish \/ Kill \/ KillDeletes \/ RestorerStep
  <2>1. /\ worker' = worker /\ retries' = retries /\ disk' = disk
        /\ failed' = failed /\ rejected' = rejected
        /\ task' = "ended" <=> task = "ended"
    BY <1>2 DEF Start, Finish, Kill, KillDeletes, RestorerStep, ReadChunk, Restore,
                RestorerInterrupted, RestorerKills, RestorerDies, restorerFrame,
                transferVars, StopAll
  <2>2. UnsettledJobs' = UnsettledJobs
    BY <2>1, JobsUntouched
  <2> QED
    BY <2>1, <2>2
<1>3. CASE Leave
  BY <1>3 DEF Leave
<1>4. ASSUME NEW w \in Workers, AskSource(w)
      PROVE  OnDisk' /\ DiskUsed'
  <2>1. UnsettledJobs' = UnsettledJobs \cup {produced + 1}
    BY <1>4, JobsFetched DEF AskSource, TransferInv
  <2>2. task' = task /\ failed' = failed /\ rejected' = rejected
    BY <1>4 DEF AskSource, Fetch
  <2>3. disk' \cap Chunks = (disk \cup {produced + 1}) \cap Chunks
    <3>1. CASE ~up /\ produced = 1
      <4>1. disk' = (disk \ {ManifestJob}) \cup {FirstChunk}
        BY <1>4, <3>1 DEF AskSource
      <4> QED
        BY <3>1, <4>1 DEF Chunks, FirstChunk
    <3>2. CASE ~(~up /\ produced = 1)
      <4>1. disk' = disk \cup {produced + 1}
        BY <1>4, <3>2 DEF AskSource
      <4> QED
        BY <4>1
    <3> QED
      BY <3>1, <3>2
  <2>4. OnDisk'
    BY <2>1, <2>2, <2>3
  <2>5. DiskUsed'
    BY <2>1, <2>2, <2>3
  <2> QED
    BY <2>4, <2>5
<1>5. ASSUME NEW w \in Workers, ListenersReturn(w)
      PROVE  OnDisk' /\ DiskUsed'
  <2>1. UnsettledJobs' = UnsettledJobs \ {Job(w)}
    BY <1>5, JobsLeft DEF ListenersReturn, UploadReported, ManifestReported, ChunkReported,
                          TransferInv, Job
  <2>2. task' = task /\ failed' = failed /\ rejected' = rejected
    BY <1>5 DEF ListenersReturn, UploadReported, ManifestReported, ChunkReported, Reported
  <2>3. disk' \cap Chunks = (disk \ {Job(w)}) \cap Chunks
    <3>1. CASE disk' = disk \ {Job(w)}
      BY <3>1
    <3>2. CASE disk' = disk /\ Job(w) = ManifestJob
      BY <3>2 DEF Chunks
    <3> QED
      BY <1>5, <3>1, <3>2 DEF ListenersReturn, UploadReported, ManifestReported, ChunkReported
  <2> QED
    BY <2>1, <2>2, <2>3
<1>6. ASSUME NEW w \in Workers, PlainStep(w) \/ Transferred(w) \/ Raised(w) \/ WorkerHasKilled(w)
      PROVE  OnDisk' /\ DiskUsed'
  <2>1. task' = task /\ disk' = disk
    BY <1>6 DEF PlainStep, SourceInterrupted, SourceBreaks, Transferred, Raised, WorkerHasKilled
  <2>2. CASE Reject(w) \/ GiveUp(w)
    <3>1. UnsettledJobs' = UnsettledJobs \ {worker[w].at.job}
      BY <2>2, JobsLeft DEF TransferInv
    <3>2. failed' \cup rejected' = failed \cup rejected \cup {worker[w].at.job}
      BY <2>2 DEF Reject, GiveUp
    <3> QED
      BY <2>1, <3>1, <3>2
  <2>3. CASE \/ TakeRetry(w) \/ FindNoRetry(w) \/ SourceEnds(w) \/ SourceRaises(w)
             \/ Succeed(w) \/ Retry(w) \/ ErrorReported(w) \/ Check(w)
    <3>1. UnsettledJobs' = UnsettledJobs
      BY <2>3, JobsKept DEF TransferInv
    <3>2. failed' = failed /\ rejected' = rejected
      BY <2>3 DEF TakeRetry, FindNoRetry, SourceEnds, SourceRaises, Succeed, Retry,
                  ErrorReported, Check
    <3> QED
      BY <2>1, <3>1, <3>2
  <2> QED
    BY <1>6, <2>2, <2>3 DEF PlainStep, SourceInterrupted, SourceBreaks, Transferred, Raised, WorkerHasKilled
<1>7. ASSUME NEW w \in Workers, WorkerKills(w)
      PROVE  OnDisk' /\ DiskUsed'
  <2>1. /\ worker' = worker /\ retries' = retries /\ disk' = disk
        /\ failed' = failed /\ rejected' = rejected /\ task' = task
    BY <1>7 DEF WorkerKills, StopAll
  <2>2. UnsettledJobs' = UnsettledJobs
    BY <2>1, JobsUntouched
  <2> QED
    BY <2>1, <2>2
<1>8. CASE UNCHANGED largeVars
  <2>1. UnsettledJobs' = UnsettledJobs
    BY <1>8, JobsUntouched DEF largeVars, transferVars
  <2> QED
    BY <1>8, <2>1 DEF largeVars, transferVars
<1> QED
  BY <1>1, <1>2, <1>3, <1>4, <1>5, <1>6, <1>7, <1>8 DEF LargeNext, LargeWorkerStep

(* What the tmpfs holds, and where the restorer is, on top of what a         *)
(* download has completed.                                                   *)
THEOREM DiskInvariant == LargeSpec => [](TransferInv /\ LargeInv /\ DiskInv)
<1> DEFINE Both == TransferInv /\ LargeInv
<1>1. LargeInit => DiskInv
  BY InitDiskInv
<1>2. Both /\ DiskInv /\ [LargeNext]_largeVars => DiskInv'
  BY RestorerPlaceStep, DownloadedStep, DiskStep DEF LargeInv, DiskInv
<1> HIDE DEF Both
<1>3. LargeSpec => []Both
  BY LargeInvariant DEF Both
<1>4. LargeSpec => [](Both /\ DiskInv)
  BY <1>1, <1>2, <1>3, PTL DEF LargeSpec
<1> QED
  BY <1>4, PTL DEF Both

(* The restorer never reads a chunk that is gone from the tmpfs, or that a   *)
(* worker is writing.                                                        *)
THEOREM WholeChunkRead == LargeSpec => []ReadsWholeChunk
<1>1. ASSUME TransferInv, LargeInv, DiskInv
      PROVE  ReadsWholeChunk
  <2> SUFFICES ASSUME restorer = "read", ~killed
               PROVE  /\ next \in disk
                      /\ \A w \in Workers : ~(At(w, "transfer") /\ Job(w) = next)
    BY DEF ReadsWholeChunk
  <2>1. ~up /\ task = "running" /\ next \in completed /\ next \in Chunks
    BY <1>1 DEF LargeInv, TaskInv, LargeTypeOK, DiskInv, RestorerPlace, RestorerOver,
                DownloadedDone
  <2>2. next \notin processed
    <3>1. next \in Nat /\ \A c \in processed : c < next
      BY <1>1, <2>1 DEF DiskInv, RestorerPlace, Chunks, Jobs
    <3> QED
      BY <3>1
  <2>3. PICK v \in Workers : At(v, "report") /\ Job(v) = next
    BY <1>1, <2>1, <2>2 DEF LargeInv, DownloadInv
  <2>4. Working(v) /\ worker[v].at \in Unsettled
    BY <2>3 DEF Working, Unsettled
  <2>5. next \in UnsettledJobs
    BY <2>3, <2>4 DEF UnsettledJobs, Job
  <2>6. next \in disk
    BY <1>1, <2>1, <2>5 DEF DiskInv, OnDisk
  <2>7. ASSUME NEW w \in Workers, At(w, "transfer"), Job(w) = next
        PROVE  FALSE
    <3>1. w = v
      BY <1>1, <2>3, <2>4, <2>7 DEF TransferInv, OnePlace, Working, Job
    <3> QED
      BY <2>3, <2>7, <3>1 DEF At
  <2> QED
    BY <2>6, <2>7
<1> QED
  BY <1>1, DiskInvariant, PTL

(* What takes room on the tmpfs is at work or was given up.                  *)
THEOREM VolumeFits == LargeSpec => []TransitVolumeFits
<1>1. DiskInv => TransitVolumeFits
  BY DEF DiskInv, DiskUsed, UnsettledJobs, TransitVolumeFits
<1> QED
  BY <1>1, DiskInvariant, PTL

-----------------------------------------------------------------------------
(* A download does not come to a standstill. *)

(* What a worker waits for in its listener or in the source: the restorer,   *)
(* or the manifest that another worker has.                                  *)
WaitsForRestorer(w) ==
  ~up /\ ~killed /\ At(w, "report") /\ Job(w) # ManifestJob /\ Job(w) \notin processed
WaitsForManifest(w) ==
  ~up /\ ~killed /\ At(w, "fetch") /\ ~exhausted /\ produced = 1 /\ ~ready

AtRest(w) == At(w, "done") \/ At(w, "dead") \/ WaitsForRestorer(w) \/ WaitsForManifest(w)

RestorerToAct == restorer = "read" \/ (restorer = "wait" /\ next \in downloaded)

(* If nobody can go on but the restorer it can, unless it died; and when the *)
(* workers have left it finds all that it waits for.                         *)
NobodyStuck ==
  /\ (\E w \in Workers : WaitsForRestorer(w) \/ WaitsForManifest(w))
       /\ (\A w \in Workers : AtRest(w)) => RestorerToAct \/ restorer = "dead"
  /\ ~up /\ ~killed /\ run = "ended" /\ task = "running" /\ restorer = "wait" =>
       next \in downloaded

(* What has been downloaded is announced: a chunk to the restorer, the       *)
(* manifest to those who ask for chunks.                                     *)
Announced ==
  ~up =>
    /\ completed \cap Chunks \subseteq downloaded
    /\ ManifestJob \in completed =>
         ready \/ \E w \in Workers : At(w, "report") /\ Job(w) = ManifestJob

(* The restorer is there when a chunk is, and takes them in their order.     *)
InOrder ==
  ~up =>
    /\ restorer = "none" => produced <= 1
    /\ \A c \in Chunks : c < next \/ restorer = "done" => c \in processed

OrderInv == Announced /\ InOrder

LEMMA InitOrderInv ==
  ASSUME LargeInit
  PROVE  OrderInv
<1> USE DEF LargeInit, TransferInit
<1>1. \A c \in Chunks : ~up => ~(c < next)
  BY DEF Chunks, ManifestJob, Jobs, FirstChunk
<1> QED
  BY <1>1 DEF OrderInv, Announced, InOrder

LEMMA AnnouncedStep ==
  ASSUME TransferInv, Announced, [LargeNext]_largeVars
  PROVE  Announced'
<1> SUFFICES ASSUME ~up'
             PROVE  Announced'
  BY DEF Announced
<1> USE DEF Announced, At, Job, TransferInv, Typed, TransferTypeOK
<1>0. ASSUME up' = up PROVE Chunks' = Chunks /\ ManifestJob' = ManifestJob
  BY <1>0 DEF Chunks, ManifestJob
<1> USE <1>0
<1>1. CASE Start \/ Finish \/ Leave \/ Kill \/ KillDeletes
  BY <1>1 DEF Start, Finish, Leave, Kill, KillDeletes, transferVars, StopAll
<1>2. CASE TransferRuns
  BY <1>2 DEF TransferRuns, RunStart, RunEnd, Phases
<1>3. CASE RestorerStep
  BY <1>3 DEF RestorerStep, ReadChunk, Restore, RestorerInterrupted, RestorerKills,
              RestorerDies, restorerFrame, transferVars, StopAll
<1>4. ASSUME NEW w \in Workers, ~up,
             PlainStep(w) \/ AskSource(w) \/ WorkerKills(w) \/ WorkerHasKilled(w)
      PROVE  Announced'
  <2>1. /\ ~At(w, "report")
        /\ completed' = completed
        /\ \A v \in Workers \ {w} : worker'[v] = worker[v]
    BY <1>4 DEF PlainStep, SourceInterrupted, SourceBreaks, AskSource, WorkerKills, WorkerHasKilled, TakeRetry, FindNoRetry,
                Fetch, SourceEnds, SourceRaises, Reject, Check, ErrorReported, StopAll, Goto,
                Drop, Begin
  <2>2. up' = up /\ downloaded' = downloaded /\ ready' = ready
    BY <1>4 DEF PlainStep, SourceInterrupted, SourceBreaks, AskSource, WorkerKills, WorkerHasKilled
  <2> QED
    BY <2>1, <2>2
<1>5. ASSUME NEW w \in Workers, ~up, Transferred(w)
      PROVE  Announced'
  <2>1. /\ ~At(w, "report") /\ At(w, "report")' /\ worker'[w].at = worker[w].at
        /\ completed' = completed \cup {Job(w)}
        /\ \A v \in Workers \ {w} : worker'[v] = worker[v]
    BY <1>5 DEF Transferred, Succeed, Goto
  <2>2. /\ up' = up /\ ready' = ready
        /\ downloaded' = downloaded \cup ({Job(w)} \cap Chunks)
    BY <1>5 DEF Transferred
  <2> QED
    BY <2>1, <2>2
<1>6. ASSUME NEW w \in Workers, ~up, ListenersReturn(w) \/ Raised(w)
      PROVE  Announced'
  <2>1. /\ completed' = completed
        /\ \A v \in Workers \ {w} : worker'[v] = worker[v]
    BY <1>6 DEF ListenersReturn, UploadReported, ManifestReported, ChunkReported, Reported,
                Raised, Retry, GiveUp, Drop
  <2>2. up' = up /\ downloaded' = downloaded /\ (ready => ready')
    BY <1>6 DEF ListenersReturn, UploadReported, ManifestReported, ChunkReported, Raised
  <2>3. At(w, "report") /\ Job(w) = ManifestJob => ready'
    BY <1>6 DEF ListenersReturn, UploadReported, ManifestReported, ChunkReported, Raised
  <2> QED
    BY <2>1, <2>2, <2>3
<1>7. CASE UNCHANGED largeVars
  BY <1>7 DEF largeVars, transferVars
<1>8. up' = up
  BY DEF LargeNext, Start, TransferRuns, Finish, Leave, Kill, KillDeletes, RestorerStep,
         ReadChunk, Restore, RestorerInterrupted, RestorerKills, RestorerDies, restorerFrame,
         LargeWorkerStep, PlainStep, SourceInterrupted, SourceBreaks, AskSource, Transferred, ListenersReturn, Raised,
         WorkerKills, WorkerHasKilled, largeVars
<1> QED
  BY <1>1, <1>2, <1>3, <1>4, <1>5, <1>6, <1>7, <1>8 DEF LargeNext, LargeWorkerStep

LEMMA InOrderStep ==
  ASSUME TransferInv, LargeTypeOK, InOrder, [LargeNext]_largeVars
  PROVE  InOrder'
<1> SUFFICES ASSUME ~up'
             PROVE  InOrder'
  BY DEF InOrder
<1> USE DEF InOrder
<1>0. ASSUME up' = up PROVE Chunks' = Chunks
  BY <1>0 DEF Chunks, ManifestJob
<1> USE <1>0
<1>1. CASE Start \/ TransferRuns \/ Finish \/ Leave \/ Kill \/ KillDeletes
  BY <1>1 DEF Start, TransferRuns, RunStart, RunEnd, Finish, Leave, Kill, KillDeletes,
              transferVars, StopAll
<1>2. CASE ReadChunk \/ RestorerInterrupted \/ RestorerKills \/ RestorerDies
  <2>1. up' = up /\ processed' = processed /\ next' = next
    BY <1>2 DEF ReadChunk, RestorerInterrupted, RestorerKills, RestorerDies, restorerFrame
  <2>2. restorer' \notin {"none", "done"}
    BY <1>2 DEF ReadChunk, RestorerInterrupted, RestorerKills, RestorerDies
  <2> QED
    BY <2>1, <2>2
<1>3. CASE Restore
  <2>1. next \in Nat /\ \A c \in Chunks : c \in Nat /\ c <= NumJobs
    BY TransferAssumption DEF LargeTypeOK, Chunks, Jobs, FirstChunk
  <2>2. up' = up /\ processed' = processed \cup {next} /\ restorer' \in {"wait", "done"}
    BY <1>3 DEF Restore, restorerFrame
  <2>3. (restorer' = "done" /\ next = NumJobs) \/ (restorer' = "wait" /\ next' = next + 1)
    BY <1>3 DEF Restore, IsLast
  <2>4. ASSUME NEW c \in Chunks, c < next' \/ restorer' = "done", next' = next \/ next' = next + 1
        PROVE  c \in processed'
    <3>1. c < next \/ c = next
      BY <2>1, <2>3, <2>4, TransferAssumption
    <3> QED
      BY <2>2, <3>1
  <2>5. next' = next \/ next' = next + 1
    BY <1>3 DEF Restore
  <2> QED
    BY <2>2, <2>4, <2>5
<1>4. ASSUME NEW w \in Workers, AskSource(w)
      PROVE  InOrder'
  <2>1. /\ produced \in Nat /\ produced' = produced + 1
        /\ up' = up /\ processed' = processed /\ next' = next
    BY <1>4 DEF AskSource, Fetch, TransferInv, Typed, TransferTypeOK
  <2>2. CASE produced = 1
    BY <1>4, <2>1, <2>2 DEF AskSource
  <2>3. CASE produced # 1
    BY <1>4, <2>1, <2>3 DEF AskSource
  <2> QED
    BY <2>2, <2>3
<1>5. ASSUME NEW w \in Workers,
             \/ PlainStep(w) \/ Transferred(w) \/ ListenersReturn(w) \/ Raised(w)
             \/ WorkerKills(w) \/ WorkerHasKilled(w)
      PROVE  InOrder'
  <2>1. up' = up /\ restorer' = restorer /\ processed' = processed /\ next' = next
    BY <1>5 DEF PlainStep, SourceInterrupted, SourceBreaks, Transferred, ListenersReturn, Raised, WorkerKills, WorkerHasKilled
  <2>2. produced' = produced
    BY <1>5 DEF PlainStep, SourceInterrupted, SourceBreaks, Transferred, ListenersReturn, Raised, WorkerKills, WorkerHasKilled,
                TakeRetry, FindNoRetry, SourceEnds, SourceRaises, Reject, Check,
                ErrorReported, Succeed, UploadReported, ManifestReported, ChunkReported,
                Reported, Retry, GiveUp, StopAll
  <2> QED
    BY <2>1, <2>2
<1>6. CASE UNCHANGED largeVars
  BY <1>6 DEF largeVars, transferVars
<1> QED
  BY <1>1, <1>2, <1>3, <1>4, <1>5, <1>6 DEF LargeNext, RestorerStep, LargeWorkerStep

(* A job that was yielded while nobody looks at the queue or reports an      *)
(* error is in a worker's hands or completed.                                *)
LEMMA HeldOrCompleted ==
  ASSUME TransferInv, LargeInv, ~up, ~killed, NEW j \in 1..produced,
         \A w \in Workers : AtRest(w)
  PROVE  \/ j \in completed
         \/ \E w \in Workers : Working(w) /\ Job(w) = j
<1>1. \A w \in Workers : ~At(w, "error") /\ ~At(w, "check") /\ ~At(w, "take")
  BY DEF AtRest, WaitsForRestorer, WaitsForManifest, At
<1>2. ~stopAll
  BY DEF LargeInv, TaskInv
<1>3. Returning = {}
  BY <1>1 DEF Returning
<1>4. retries = {}
  BY <1>2, <1>3, FS_EmptySet, FS_CardinalityType DEF TransferInv, QueueCovered
<1>5. failed \cup rejected = {}
  BY <1>1 DEF LargeInv, DownloadInv
<1> QED
  BY <1>4, <1>5 DEF TransferInv, Tracked, Settled, Job

(* Where all wait for the manifest or the restorer, the restorer can go on.  *)
LEMMA SomebodyCan ==
  ASSUME TransferInv, LargeInv, OrderInv, \A w \in Workers : AtRest(w),
         NEW w \in Workers, WaitsForRestorer(w) \/ WaitsForManifest(w)
  PROVE  RestorerToAct \/ restorer = "dead"
<1>1. ~up /\ ~killed /\ Announced /\ InOrder
  BY DEF WaitsForRestorer, WaitsForManifest, OrderInv
<1>2. /\ produced \in Nat /\ next \in Nat /\ next >= 2 /\ \A c \in Chunks : c \in Nat /\ c >= 2
      /\ ManifestJob = 1 /\ Chunks = 2..NumJobs
  BY <1>1, TransferAssumption
     DEF TransferInv, Typed, TransferTypeOK, LargeInv, LargeTypeOK, ManifestJob, Chunks, Jobs,
         FirstChunk
<1>3. \A v \in Workers : ~At(v, "transfer")
  BY DEF AtRest, WaitsForRestorer, WaitsForManifest, At
<1>4. \A v \in Workers : At(v, "report") => Job(v) # ManifestJob
  BY DEF AtRest, WaitsForRestorer, WaitsForManifest, At
<1>5. CASE WaitsForManifest(w)
  <2>1. 1 \in 1..produced /\ ~ready
    BY <1>5 DEF WaitsForManifest
  <2>2. \/ ManifestJob \in completed
        \/ \E v \in Workers : Working(v) /\ Job(v) = ManifestJob
    BY <1>1, <1>2, <2>1, HeldOrCompleted
  <2> QED
    BY <1>1, <1>3, <1>4, <2>1, <2>2 DEF Announced, Working
<1>6. CASE WaitsForRestorer(w)
  <2> SUFFICES ASSUME ~RestorerToAct, restorer # "dead"
               PROVE  FALSE
    OBVIOUS
  <2>1. Working(w) /\ Job(w) \notin processed /\ Job(w) # ManifestJob
    BY <1>6 DEF WaitsForRestorer, Working
  <2>2. Job(w) \in Chunks /\ Job(w) <= produced
    BY <2>1 DEF TransferInv, Typed, TransferTypeOK, Placed, Attempts, Job, Chunks
  <2>3. restorer = "wait" /\ next \notin downloaded
    <3>1. restorer # "done"
      BY <1>1, <2>1, <2>2 DEF InOrder
    <3>2. restorer # "none"
      BY <1>1, <1>2, <2>2 DEF InOrder
    <3> QED
      BY <3>1, <3>2 DEF LargeInv, LargeTypeOK, RestorerToAct
  <2>4. next <= Job(w)
    BY <1>1, <1>2, <2>1, <2>2 DEF InOrder
  <2>5. next \in Chunks /\ next \in 1..produced
    BY <1>2, <2>2, <2>4, TransferAssumption DEF Chunks, Jobs, LargeInv, LargeTypeOK, FirstChunk
  <2>6. next \notin completed
    BY <1>1, <2>3, <2>5 DEF Announced
  <2>7. PICK v \in Workers : Working(v) /\ Job(v) = next
    BY <1>1, <2>5, <2>6, HeldOrCompleted
  <2>8. At(v, "report")
    BY <1>3, <2>7 DEF Working
  <2> QED
    BY <2>6, <2>7, <2>8 DEF TransferInv, Tracked, Job
<1> QED
  BY <1>5, <1>6

(* When the workers of a download have left, each chunk is downloaded.       *)
LEMMA AllDownloaded ==
  ASSUME TransferInv, LargeInv, OrderInv, ~up, ~killed, run = "ended", ~SourceRaised
  PROVE  Chunks \subseteq downloaded
<1>1. \A w \in Workers : ~At(w, "error")
  BY DEF TransferInv, Phases, At
<1>2. failed \cup rejected = {} /\ ~stopAll
  BY <1>1 DEF LargeInv, DownloadInv, TaskInv
<1>3. Jobs \subseteq completed
  BY <1>2, AllSettled DEF Settled
<1> QED
  BY <1>3 DEF OrderInv, Announced, Chunks

(* What was downloaded is announced, and restored in order.                  *)
THEOREM OrderInvariant == LargeSpec => [](TransferInv /\ LargeInv /\ OrderInv)
<1> DEFINE Both == TransferInv /\ LargeInv
<1>1. LargeInit => OrderInv
  BY InitOrderInv
<1>2. Both /\ OrderInv /\ [LargeNext]_largeVars => OrderInv'
  BY AnnouncedStep, InOrderStep DEF LargeInv, OrderInv
<1> HIDE DEF Both
<1>3. LargeSpec => []Both
  BY LargeInvariant DEF Both
<1>4. LargeSpec => [](Both /\ OrderInv)
  BY <1>1, <1>2, <1>3, PTL DEF LargeSpec
<1> QED
  BY <1>4, PTL DEF Both

(* The workers of a download, the source and the restorer never all wait for *)
(* each other, however many of them there are and whatever is tried again.   *)
THEOREM DownloadGoesOn == LargeSpec => []NobodyStuck
<1>1. ASSUME TransferInv, LargeInv, OrderInv
      PROVE  NobodyStuck
  <2>1. ASSUME NEW w \in Workers, WaitsForRestorer(w) \/ WaitsForManifest(w),
               \A v \in Workers : AtRest(v)
        PROVE  RestorerToAct \/ restorer = "dead"
    BY <1>1, <2>1, SomebodyCan
  <2>2. ASSUME ~up, ~killed, run = "ended", restorer = "wait"
        PROVE  next \in downloaded
    <3>1. next \in Chunks
      BY <1>1, <2>2, TransferAssumption
         DEF LargeInv, LargeTypeOK, Chunks, Jobs, ManifestJob, FirstChunk
    <3>2. ~SourceRaised
      BY <1>1, <2>2 DEF LargeInv, SourceInv
    <3> QED
      BY <1>1, <2>2, <3>1, <3>2, AllDownloaded
  <2> QED
    BY <2>1, <2>2 DEF NobodyStuck
<1> QED
  BY <1>1, OrderInvariant, PTL
=============================================================================
