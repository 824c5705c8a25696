------------------------ MODULE ScriptExecutorProofs ------------------------
(* Theorems about ScriptExecutor, for any messages and any number of stops. *)
EXTENDS ScriptExecutor, SequenceTheorems, TLAPS

Ahead(s) ==
  \/ \E i \in DOMAIN left : left[i] = s
  \/ \E m \in pending \ {handling} : \E i \in DOMAIN m : m[i] = s

(* What the handler thread has still to execute is the end of a message. *)
LeftIsRest ==
  /\ handling = <<>> => left = <<>>
  /\ \A i \in DOMAIN left : \E k \in DOMAIN handling : left[i] = handling[k]
  /\ \A i, k \in DOMAIN left : left[i] = left[k] => i = k

(* A script that was executed does not come again.                          *)
NotAgain ==
  ~killed => \A s \in Scripts : run[s] # 0 => run[s] = 1 /\ ~Ahead(s)

(* The handler thread has ended before messaging and the process do.        *)
QuietAtTheEnd == stop = "mute" \/ main = "down" => handling = <<>>

(* What is known of an execution, somewhere, belongs to one that began.     *)
Begun ==
  \A e \in Executions :
    (thread[e] # "none" \/ results[e] # 0 \/ e \in restoring \/ \E x \in saved : x.of = e)
      => e.run <= run[e.script]

OneWatcher ==
  \A e \in Executions : thread[e] # "none" => main # "down" /\ e \notin restoring

(* A result that was sent in time is known to nobody who would send it again, *)
(* and not to the list that the next process reads.                           *)
SentIsForgotten ==
  ~killed => \A e \in Executions \ late : results[e] # 0 =>
    /\ results[e] = 1 /\ thread[e] = "none" /\ e \notin restoring
    /\ (stop # "no" \/ main = "down") => \A x \in saved : x.of # e

ScriptInv ==
  /\ ScriptTypeOK
  /\ LeftIsRest
  /\ NotAgain
  /\ QuietAtTheEnd
  /\ Begun
  /\ OneWatcher
  /\ SentIsForgotten

-----------------------------------------------------------------------------
LEMMA InitScriptInv ==
  ASSUME ScriptInit
  PROVE  ScriptInv
<1> USE ScriptAssumption DEF ScriptInit
<1>1. ScriptTypeOK
  <2>1. left \in Seq(Scripts)
    BY EmptySeq
  <2>2. /\ stops \in 0..MaxStops
        /\ run \in [Scripts -> 0..MaxRuns]
        /\ results \in [Executions -> Nat]
    OBVIOUS
  <2>3. /\ thread \in [Executions -> {"none", "new", "listed", "waiting", "watching", "ended"}]
        /\ proc \in [Executions -> {"none", "alive", "over"}]
    OBVIOUS
  <2> QED
    BY <2>1, <2>2, <2>3 DEF ScriptTypeOK
<1>2. LeftIsRest
  BY DEF LeftIsRest
<1>3. NotAgain
  BY DEF NotAgain
<1>4. Begun /\ QuietAtTheEnd
  BY DEF Begun, QuietAtTheEnd
<1>5. OneWatcher
  BY DEF OneWatcher
<1>6. SentIsForgotten
  BY DEF SentIsForgotten
<1> QED
  BY <1>1, <1>2, <1>3, <1>4, <1>5, <1>6 DEF ScriptInv

LEMMA ExecutionParts ==
  /\ \A e \in Executions : e.script \in Scripts /\ e.run \in Nat
  /\ \A s \in Scripts, n \in 1..MaxRuns :
       /\ [script |-> s, run |-> n] \in Executions
       /\ [script |-> s, run |-> n].script = s /\ [script |-> s, run |-> n].run = n
BY DEF Executions

(* The types. *)
LEMMA HandlerTypes ==
  ASSUME ScriptTypeOK, HandlerStep
  PROVE  ScriptTypeOK'
<1> USE ScriptAssumption DEF ScriptTypeOK
<1>1. CASE Take
  BY <1>1 DEF Take, stopVars, resultVars
<1>2. CASE Execute
  <2> DEFINE s == Head(left)
             e == [script |-> s, run |-> run[s] + 1]
  <2>1. s \in Scripts /\ Tail(left) \in Seq(Scripts)
    BY <1>2, HeadTailProperties DEF Execute
  <2>2. run[s] + 1 \in 1..MaxRuns
    BY <1>2, <2>1 DEF Execute
  <2>3. e \in Executions
    BY <2>1, <2>2, ExecutionParts
  <2> HIDE DEF e
  <2> QED
    BY <1>2, <2>1, <2>2, <2>3 DEF Execute, e, Goto, stopVars, resultVars
<1>3. CASE EndMessage
  BY <1>3 DEF EndMessage, stopVars, resultVars
<1> QED
  BY <1>1, <1>2, <1>3 DEF HandlerStep

LEMMA ThreadTypes ==
  ASSUME ScriptTypeOK, NEW e \in Executions, ThreadStep(e) \/ ProcessEnds(e)
  PROVE  ScriptTypeOK'
<1> USE ScriptAssumption DEF ScriptTypeOK, Goto, stopVars, messageVars, resultVars
<1>1. CASE Enter(e)
  BY <1>1 DEF Enter
<1>2. CASE StartScript(e)
  BY <1>2 DEF StartScript
<1>3. CASE StartRaises(e)
  BY <1>3 DEF StartRaises, Return
<1>4. CASE WaitEnds(e)
  BY <1>4 DEF WaitEnds
<1>5. CASE WatchEnds(e)
  BY <1>5 DEF WatchEnds
<1>6. CASE Report(e)
  BY <1>6 DEF Report, Return
<1>7. CASE ReportRaises(e)
  BY <1>7 DEF ReportRaises, Unwind, Owed
<1>8. CASE ProcessEnds(e)
  BY <1>8 DEF ProcessEnds
<1>9. CASE WatchRaises(e)
  BY <1>9 DEF WatchRaises, Unwind, Owed
<1> QED
  BY <1>1, <1>2, <1>3, <1>4, <1>5, <1>6, <1>7, <1>8, <1>9 DEF ThreadStep

LEMMA MainTypes ==
  ASSUME ScriptTypeOK, MainStep \/ Save \/ Kill
  PROVE  ScriptTypeOK'
<1> USE ScriptAssumption DEF ScriptTypeOK, Goto, stopVars, messageVars, resultVars
<1>1. CASE Save
  <2>1. saved' \subseteq Entries
    <3>1. ASSUME NEW e \in Executions PROVE Entry(e) \in Entries
      BY <3>1 DEF Entry, Entries
    <3> QED
      BY <1>1, <3>1 DEF Save, InProgress
  <2>3. kept' \subseteq Executions
    BY <1>1 DEF Save, Stops, InProgress
  <2>2. stops' \in 0..MaxStops
    BY <1>1 DEF Save, Stops
  <2> QED
    BY <1>1, <2>1, <2>2, <2>3 DEF Save, Stops, Forgotten, Owed
<1>2. CASE Mark
  BY <1>2 DEF Mark
<1>3. CASE Mute
  BY <1>3 DEF Mute
<1>4. CASE Reloaded
  BY <1>4 DEF Reloaded
<1>5. CASE Exit
  BY <1>5 DEF Exit
<1>6. CASE Kill
  <2>1. stops' \in 0..MaxStops
    BY <1>6 DEF Kill
  <2>2. left' \in Seq(Scripts)
    BY <1>6, EmptySeq DEF Kill
  <2>3. thread' \in [Executions -> {"none", "new", "listed", "waiting", "watching", "ended"}]
    BY <1>6 DEF Kill
  <2>4. lost' \subseteq Executions
    BY <1>6 DEF Kill, Owed
  <2> QED
    BY <1>6, <2>1, <2>2, <2>3, <2>4 DEF Kill
<1>7. CASE Boot
  <2>1. Restorable \subseteq Executions
    BY DEF Restorable, Entries
  <2>2. CASE \A x \in saved : x.started
    BY <1>7, <2>1, <2>2 DEF Boot
  <2>3. CASE ~\A x \in saved : x.started
    BY <1>7, <2>3 DEF Boot, Owed
  <2> QED
    BY <2>2, <2>3
<1>8. CASE Restored
  BY <1>8 DEF Restored
<1>9. ASSUME NEW e \in Executions, Restore(e)
      PROVE  ScriptTypeOK'
  BY <1>9 DEF Restore
<1> QED
  BY <1>1, <1>2, <1>3, <1>4, <1>5, <1>6, <1>7, <1>8, <1>9 DEF MainStep

-----------------------------------------------------------------------------
(* The steps that the handler thread and its message have no part in. *)
OtherStep ==
  \/ MainStep \/ Save
  \/ \E e \in Executions : ThreadStep(e) \/ ProcessEnds(e)

LEMMA OtherStepOnMessages ==
  ASSUME OtherStep
  PROVE  /\ handling' = handling /\ run' = run /\ killed' = killed
         /\ left' \in {left, <<>>}
         /\ pending' \in {pending, pending \ {handling}}
<1> USE DEF stopVars, messageVars
<1>1. CASE MainStep
  BY <1>1 DEF MainStep, Mark, Mute, Reloaded, Exit, Boot, Restored, Restore
<1>2. CASE Save
  BY <1>2 DEF Save, Stops
<1>3. ASSUME NEW e \in Executions, ThreadStep(e) \/ ProcessEnds(e)
      PROVE  /\ UNCHANGED <<handling, run, killed, pending>>
             /\ left' \in {left, <<>>}
  BY <1>3 DEF ThreadStep, Enter, StartScript, StartRaises, WaitEnds, WatchEnds, Report,
       WatchRaises, ReportRaises, ProcessEnds
<1> QED
  BY <1>1, <1>2, <1>3 DEF OtherStep

LEMMA RestKept ==
  ASSUME ScriptInv, HandlerStep \/ Kill \/ OtherStep
  PROVE  LeftIsRest'
<1> USE ScriptAssumption DEF ScriptInv, ScriptTypeOK, LeftIsRest
<1>1. CASE Take
  <2>1. PICK m \in pending : handling' = m /\ left' = m
    BY <1>1 DEF Take
  <2>2. \A i, k \in DOMAIN m : m[i] = m[k] => i = k
    BY PlaceAssumption
  <2> QED
    BY <2>1, <2>2
<1>2. CASE Execute
  <2>1. /\ left \in Seq(Scripts) /\ left # <<>> /\ left' = Tail(left)
        /\ handling' = handling
    BY <1>2 DEF Execute
  <2>2. /\ Len(left') = Len(left) - 1
        /\ \A i \in DOMAIN left' : i + 1 \in DOMAIN left /\ left'[i] = left[i + 1]
    BY <2>1, HeadTailProperties
  <2>3. \A i, k \in DOMAIN left' : i \in Nat /\ k \in Nat
    BY <2>1, HeadTailProperties
  <2> QED
    BY <2>1, <2>2, <2>3
<1>3. CASE EndMessage
  BY <1>3 DEF EndMessage
<1>4. CASE Kill
  BY <1>4 DEF Kill
<1>5. CASE OtherStep
  BY <1>5, OtherStepOnMessages
<1> QED
  BY <1>1, <1>2, <1>3, <1>4, <1>5 DEF HandlerStep

LEMMA NotAgainKept ==
  ASSUME ScriptInv, HandlerStep \/ Kill \/ OtherStep
  PROVE  NotAgain'
<1> USE ScriptAssumption DEF ScriptInv, ScriptTypeOK, NotAgain
<1>1. CASE Take
  <2>1. PICK m \in pending : handling' = m /\ left' = m
    BY <1>1 DEF Take
  <2>2. \A s \in Scripts : Ahead(s)' => Ahead(s)
    BY <1>1, <2>1 DEF Take, Ahead
  <2> QED
    BY <1>1, <2>2 DEF Take, stopVars
<1>2. CASE Execute
  <2>0. PICK s \in Scripts : s = Head(left)
    BY <1>2, HeadTailProperties DEF Execute
  <2>1. /\ left \in Seq(Scripts) /\ left # <<>> /\ left' = Tail(left)
        /\ run' = [run EXCEPT ![s] = @ + 1]
        /\ UNCHANGED <<handling, pending, killed>>
    BY <1>2, <2>0 DEF Execute, stopVars
  <2>2. /\ 1 \in DOMAIN left /\ s = left[1]
        /\ \A i \in DOMAIN left' : i + 1 \in DOMAIN left /\ left'[i] = left[i + 1] /\ i \in 1..Len(left')
    BY <2>0, <2>1, HeadTailProperties
  <2>3. \A t \in Scripts : Ahead(t)' => Ahead(t)
    BY <2>1, <2>2 DEF Ahead
  <2>4. ~Ahead(s)'
    <3>1. \A i \in DOMAIN left' : left'[i] # s
      BY <2>2 DEF LeftIsRest
    <3>2. PICK k \in DOMAIN handling : s = handling[k]
      BY <2>2 DEF LeftIsRest
    <3>3. handling \in Messages
      BY <2>1 DEF LeftIsRest
    <3>4. \A m \in pending \ {handling} : \A i \in DOMAIN m : m[i] # s
      BY <3>2, <3>3, PlaceAssumption
    <3> QED
      BY <2>1, <3>1, <3>4 DEF Ahead
  <2>5. ~killed => run[s] = 0
    BY <2>2 DEF Ahead
  <2> QED
    BY <2>1, <2>2, <2>3, <2>4, <2>5
<1>3. CASE EndMessage
  <2>1. \A s \in Scripts : Ahead(s)' => Ahead(s)
    BY <1>3 DEF EndMessage, Ahead
  <2> QED
    BY <1>3, <2>1 DEF EndMessage, stopVars
<1>4. CASE Kill
  BY <1>4 DEF Kill
<1>5. CASE OtherStep
  <2>1. \A s \in Scripts : Ahead(s)' => Ahead(s)
    BY <1>5, OtherStepOnMessages DEF Ahead
  <2> QED
    BY <1>5, <2>1, OtherStepOnMessages
<1> QED
  BY <1>1, <1>2, <1>3, <1>4, <1>5 DEF HandlerStep

LEMMA QuietKept ==
  ASSUME ScriptInv, HandlerStep \/ Kill \/ OtherStep
  PROVE  QuietAtTheEnd'
<1> USE DEF ScriptInv, QuietAtTheEnd, stopVars, messageVars
<1>1. CASE HandlerStep
  BY <1>1 DEF HandlerStep, Take, Execute, EndMessage
<1>2. CASE Kill
  BY <1>2 DEF Kill
<1>3. CASE MainStep
  BY <1>3 DEF MainStep, Mark, Mute, Reloaded, Exit, Boot, Restored, Restore
<1>4. CASE Save
  BY <1>4 DEF Save, Stops
<1>5. ASSUME NEW e \in Executions, ThreadStep(e) \/ ProcessEnds(e)
      PROVE  UNCHANGED <<stop, handling>> /\ (main' = "down" => main = "down")
  BY <1>5 DEF ThreadStep, Enter, StartScript, StartRaises, WaitEnds, WatchEnds, Report,
       WatchRaises, ReportRaises, Unwind, ProcessEnds
<1> QED
  BY <1>1, <1>2, <1>3, <1>4, <1>5 DEF OtherStep

-----------------------------------------------------------------------------
(* What is known of executions.                                             *)

LEMMA FreshExecution ==
  ASSUME ScriptInv, Execute
  PROVE  \E s \in Scripts : \E e \in Executions :
           /\ e.script = s /\ e.run = run[s] + 1
           /\ run' = [run EXCEPT ![s] = e.run]
           /\ thread' = [thread EXCEPT ![e] = "new"]
           /\ thread[e] = "none" /\ results[e] = 0 /\ e \notin restoring
           /\ \A x \in saved : x.of # e
<1> USE ScriptAssumption DEF ScriptInv, ScriptTypeOK
<1>0. PICK s \in Scripts : s = Head(left)
  BY HeadTailProperties DEF Execute
<1>1. run[s] + 1 \in 1..MaxRuns
  BY <1>0 DEF Execute
<1>2. PICK e \in Executions : e = [script |-> s, run |-> run[s] + 1]
  BY <1>0, <1>1, ExecutionParts
<1>3. e.script = s /\ e.run = run[s] + 1
  BY <1>2
<1>4. /\ run' = [run EXCEPT ![s] = e.run]
      /\ thread' = [thread EXCEPT ![e] = "new"]
  BY <1>0, <1>2, <1>3 DEF Execute, Goto
<1>5. ~(e.run <= run[e.script])
  BY <1>1, <1>3
<1>6. /\ thread[e] = "none" /\ results[e] = 0 /\ e \notin restoring
      /\ \A x \in saved : x.of # e
  BY <1>5 DEF Begun
<1> QED
  BY <1>3, <1>4, <1>6

(* A thread that has an execution reports it once, or goes on, or ends.     *)
LEMMA OneThread ==
  ASSUME ScriptInv, NEW e \in Executions, ThreadStep(e) \/ ProcessEnds(e)
  PROVE  /\ UNCHANGED <<stop, saved>>
         /\ restoring' \subseteq restoring
         /\ main' = "down" <=> main = "down"
         /\ \A f \in Executions \ {e} : thread'[f] = thread[f] /\ results'[f] = results[f]
         /\ thread'[e] # "none" => thread[e] # "none"
         /\ \/ results' = results /\ late' = late
            \/ Report(e)
         /\ thread[e] = "none" => thread' = thread /\ results' = results /\ late' = late
<1> USE DEF ScriptInv, ScriptTypeOK, Goto, stopVars, messageVars, resultVars
<1>1. CASE Enter(e) \/ StartScript(e) \/ StartRaises(e)
  BY <1>1 DEF Enter, StartScript, StartRaises
<1>2. CASE WaitEnds(e) \/ WatchEnds(e) \/ ProcessEnds(e)
  BY <1>2 DEF WaitEnds, WatchEnds, ProcessEnds
<1>3. CASE Report(e)
  BY <1>3 DEF Report
<1>4. CASE WatchRaises(e) \/ ReportRaises(e)
  BY <1>4 DEF WatchRaises, ReportRaises, Unwind, OneWatcher
<1> QED
  BY <1>1, <1>2, <1>3, <1>4 DEF ThreadStep

(* What is saved then is what threads have.                                 *)
LEMMA SavedOf ==
  ASSUME ScriptInv, Save
  PROVE  /\ \A x \in saved' : x.of \in Executions /\ thread[x.of] # "none"
         /\ UNCHANGED <<main, killed, run, thread, restoring, results, late>>
         /\ main # "down" /\ stop' = "saved"
BY DEF Save, Stops, Entry, InProgress, messageVars

(* The steps of the main thread that neither start nor end anything.        *)
LEMMA QuietMain ==
  ASSUME Mark \/ Mute \/ Reloaded \/ Exit \/ Restored
  PROVE  /\ UNCHANGED <<killed, run, thread, saved, restoring, results, late>>
         /\ stop' # "no" => stop # "no"
         /\ main' = "down" =>
              main = "down" \/ (stop # "no" /\ \A e \in Executions : thread[e] = "none")
BY DEF Mark, Mute, Reloaded, Exit, Restored, stopVars, messageVars, resultVars

LEMMA RestorableIsSaved ==
  ASSUME Boot
  PROVE  /\ main = "down" /\ main' # "down"
         /\ UNCHANGED <<stop, killed, run, thread, saved, results, late>>
         /\ \A e \in restoring' \ restoring : \E x \in saved : x.of = e
BY DEF Boot, Restorable, stopVars, messageVars

LEMMA BegunKept ==
  ASSUME ScriptInv, HandlerStep \/ Kill \/ OtherStep
  PROVE  Begun'
<1> USE DEF ScriptInv, Begun, stopVars, messageVars, resultVars
<1>1. CASE Take \/ EndMessage
  BY <1>1 DEF Take, EndMessage
<1>2. CASE Execute
  <2>1. PICK s \in Scripts : \E e \in Executions :
           /\ e.script = s /\ e.run = run[s] + 1
           /\ run' = [run EXCEPT ![s] = e.run]
           /\ thread' = [thread EXCEPT ![e] = "new"]
    BY <1>2, FreshExecution
  <2>2. PICK e \in Executions :
           /\ e.script = s /\ e.run = run[s] + 1
           /\ run' = [run EXCEPT ![s] = e.run]
           /\ thread' = [thread EXCEPT ![e] = "new"]
    BY <2>1
  <2>3. UNCHANGED <<results, restoring, saved>>
    BY <1>2 DEF Execute
  <2>4. ASSUME NEW f \in Executions,
               thread'[f] # "none" \/ results[f] # 0 \/ f \in restoring \/ \E x \in saved : x.of = f
        PROVE  f.run <= run'[f.script]
    <3>0. f.script \in Scripts /\ f.run \in Nat /\ e.run \in Nat /\ run[f.script] \in Nat /\ run[s] \in Nat
      BY ScriptAssumption, ExecutionParts DEF ScriptTypeOK
    <3>1. CASE f = e
      BY <2>2, <3>0, <3>1 DEF ScriptTypeOK
    <3>2. CASE f # e
      <4>1. f.run <= run[f.script]
        BY <2>2, <2>4, <3>2 DEF ScriptTypeOK
      <4> QED
        BY <2>2, <3>0, <4>1 DEF ScriptTypeOK
    <3> QED
      BY <3>1, <3>2
  <2> QED
    BY <2>3, <2>4
<1>3. CASE Kill
  BY <1>3 DEF Kill
<1>4. CASE Mark \/ Mute \/ Reloaded \/ Exit \/ Restored
  BY <1>4, QuietMain
<1>5. CASE Boot
  BY <1>5, RestorableIsSaved
<1>6. ASSUME NEW e \in Executions, Restore(e)
      PROVE  Begun'
  BY <1>6 DEF Restore, Goto, ScriptTypeOK
<1>7. CASE Save
  BY <1>7, SavedOf
<1>8. ASSUME NEW e \in Executions, ThreadStep(e) \/ ProcessEnds(e)
      PROVE  Begun'
  <2>1. run' = run
    BY <1>8, OtherStepOnMessages DEF OtherStep
  <2> QED
    BY <1>8, <2>1, OneThread
<1> QED
  BY <1>1, <1>2, <1>3, <1>4, <1>5, <1>6, <1>7, <1>8 DEF HandlerStep, MainStep, OtherStep

LEMMA OneWatcherKept ==
  ASSUME ScriptInv, HandlerStep \/ Kill \/ OtherStep
  PROVE  OneWatcher'
<1> USE DEF ScriptInv, OneWatcher, stopVars, messageVars, resultVars
<1>1. CASE Take \/ EndMessage
  BY <1>1 DEF Take, EndMessage
<1>2. CASE Execute
  <2>1. PICK e \in Executions :
           /\ thread' = [thread EXCEPT ![e] = "new"]
           /\ e \notin restoring
    BY <1>2, FreshExecution
  <2>2. main # "down" /\ UNCHANGED <<main, restoring>>
    BY <1>2 DEF Execute, QuietAtTheEnd, LeftIsRest
  <2> QED
    BY <2>1, <2>2 DEF ScriptTypeOK
<1>3. CASE Kill
  BY <1>3 DEF Kill
<1>4. CASE Mark \/ Mute \/ Reloaded \/ Exit \/ Restored
  BY <1>4, QuietMain
<1>5. CASE Boot
  BY <1>5, RestorableIsSaved
<1>6. ASSUME NEW e \in Executions, Restore(e)
      PROVE  OneWatcher'
  BY <1>6 DEF Restore, Goto, ScriptTypeOK
<1>7. CASE Save
  BY <1>7, SavedOf
<1>8. ASSUME NEW e \in Executions, ThreadStep(e) \/ ProcessEnds(e)
      PROVE  OneWatcher'
  BY <1>8, OneThread
<1> QED
  BY <1>1, <1>2, <1>3, <1>4, <1>5, <1>6, <1>7, <1>8 DEF HandlerStep, MainStep, OtherStep

LEMMA SentIsForgottenKept ==
  ASSUME ScriptInv, HandlerStep \/ Kill \/ OtherStep
  PROVE  SentIsForgotten'
<1> USE DEF ScriptInv, SentIsForgotten, stopVars, messageVars, resultVars
<1>1. CASE Take \/ EndMessage
  BY <1>1 DEF Take, EndMessage
<1>2. CASE Execute
  <2>1. PICK e \in Executions :
           /\ thread' = [thread EXCEPT ![e] = "new"]
           /\ results[e] = 0
    BY <1>2, FreshExecution
  <2>2. UNCHANGED <<main, stop, killed, saved, restoring, results, late>>
    BY <1>2 DEF Execute
  <2> QED
    BY <2>1, <2>2 DEF ScriptTypeOK
<1>3. CASE Kill
  BY <1>3 DEF Kill
<1>4. CASE Mark \/ Mute \/ Reloaded \/ Exit \/ Restored
  BY <1>4, QuietMain
<1>5. CASE Boot
  BY <1>5, RestorableIsSaved
<1>6. ASSUME NEW e \in Executions, Restore(e)
      PROVE  SentIsForgotten'
  BY <1>6 DEF Restore, Goto, ScriptTypeOK
<1>7. CASE Save
  BY <1>7, SavedOf
<1>8. ASSUME NEW e \in Executions, ThreadStep(e) \/ ProcessEnds(e)
      PROVE  SentIsForgotten'
  <2>1. killed' = killed
    BY <1>8, OtherStepOnMessages DEF OtherStep
  <2>2. CASE results' = results /\ late' = late
    BY <1>8, <2>1, <2>2, OneThread
  <2>3. CASE Report(e)
    <3>1. /\ thread[e] # "none" /\ main # "down" /\ e \notin restoring
          /\ results' = [results EXCEPT ![e] = @ + 1] /\ thread'[e] = "none"
          /\ late' = IF stop = "no" THEN late ELSE late \cup {e}
      BY <2>3 DEF Report, OneWatcher, Goto, ScriptTypeOK
    <3>2. ~killed /\ e \notin late => results[e] = 0
      BY <3>1
    <3>3. ~killed /\ e \notin late' => stop = "no" /\ results'[e] = 1
      BY <3>1, <3>2 DEF ScriptTypeOK
    <3> QED
      BY <1>8, <2>1, <3>1, <3>3, OneThread
  <2> QED
    BY <1>8, <2>2, <2>3, OneThread
<1> QED
  BY <1>1, <1>2, <1>3, <1>4, <1>5, <1>6, <1>7, <1>8 DEF HandlerStep, MainStep, OtherStep

-----------------------------------------------------------------------------
LEMMA StutterScriptInv ==
  ASSUME ScriptInv, UNCHANGED scriptVars
  PROVE  ScriptInv'
<1> USE DEF ScriptInv, scriptVars, stopVars, messageVars, resultVars
<1>1. ScriptTypeOK'
  BY DEF ScriptTypeOK
<1>2. LeftIsRest' /\ NotAgain' /\ QuietAtTheEnd'
  BY DEF LeftIsRest, NotAgain, Ahead, QuietAtTheEnd
<1>3. Begun' /\ OneWatcher' /\ SentIsForgotten'
  BY DEF Begun, OneWatcher, SentIsForgotten
<1> QED
  BY <1>1, <1>2, <1>3

(* The strengthening of the script executor's invariants is one. *)
THEOREM ScriptInvariant == ScriptSpec => []ScriptInv
<1>1. ScriptInit => ScriptInv
  BY InitScriptInv
<1>2. ScriptInv /\ [ScriptNext]_scriptVars => ScriptInv'
  <2> SUFFICES ASSUME ScriptInv, [ScriptNext]_scriptVars
               PROVE  ScriptInv'
    OBVIOUS
  <2>1. CASE UNCHANGED scriptVars
    BY <2>1, StutterScriptInv
  <2>2. CASE ScriptNext
    <3>1. HandlerStep \/ Kill \/ OtherStep
      BY <2>2 DEF ScriptNext, OtherStep
    <3>2. ScriptTypeOK'
      BY <2>2, HandlerTypes, ThreadTypes, MainTypes DEF ScriptNext, ScriptInv
    <3> QED
      BY <3>1, <3>2, RestKept, NotAgainKept, QuietKept, BegunKept, OneWatcherKept,
         SentIsForgottenKept DEF ScriptInv
  <2> QED
    BY <2>1, <2>2
<1> QED
  BY <1>1, <1>2, PTL DEF ScriptSpec

(* Types, for any messages and any number of stops: handlers/script_executor.py *)
(* never has an execution in a place it knows nothing of.                      *)
THEOREM ScriptTypes == ScriptSpec => []ScriptTypeOK
<1>1. ScriptInv => ScriptTypeOK
  BY DEF ScriptInv
<1> QED
  BY <1>1, ScriptInvariant, PTL

(* Unless scalarizr is killed, a script is executed once, for any number of *)
(* stops and reloads while its message is handled.                          *)
THEOREM ScriptsExecutedOnce == ScriptSpec => []ExecutedOnce
<1>1. ScriptInv => ExecutedOnce
  <2> SUFFICES ASSUME ScriptInv, ~killed, NEW s \in Scripts
               PROVE  ~(run[s] > 1)
    BY DEF ExecutedOnce
  <2>1. run[s] \in Nat
    BY ScriptAssumption DEF ScriptInv, ScriptTypeOK
  <2>2. run[s] # 0 => run[s] = 1
    BY DEF ScriptInv, NotAgain
  <2> QED
    BY <2>1, <2>2
<1> QED
  BY <1>1, ScriptInvariant, PTL

(* Unless scalarizr is killed, a result that is sent before a stop, or after *)
(* the next start, is sent once.                                             *)
THEOREM ResultsSentTwiceOnlyLate == ScriptSpec => []SentTwiceOnlyLate
<1>1. ScriptInv => SentTwiceOnlyLate
  BY DEF ScriptInv, SentIsForgotten, SentTwiceOnlyLate, ScriptTypeOK
<1> QED
  BY <1>1, ScriptInvariant, PTL

-----------------------------------------------------------------------------
(* No result is lost but those that are said to be.                         *)

(* Who has to send the result of a script that was started: the thread that *)
(* waits for it or watches it, the rest of on_start's list, or the next     *)
(* process, from what was saved.                                            *)
ResultKept ==
  \A e \in Owed \ lost :
    \/ thread[e] \in {"new", "waiting", "watching", "ended"}
    \/ e \in restoring
    \/ e \in kept /\ (main = "down" \/ (stop # "no" /\ ~reload))

(* What was under way at the last save is on the list, with its pid.        *)
KeptSaved == \A e \in kept : \E x \in saved : x.of = e /\ x.started

(* A script that is only listed has no process yet.                         *)
ListedNotStarted == \A e \in Executions : thread[e] = "listed" => proc[e] = "none"

(* on_start has gone through its list when it returns.                      *)
RestoreHasList == main # "restore" => restoring = {}

KeepInv == ResultKept /\ KeptSaved /\ ListedNotStarted /\ RestoreHasList

(* The handler thread: at most the thread of a new execution is added.      *)
LEMMA HandlerKeeps ==
  ASSUME ScriptInv, KeepInv, HandlerStep
  PROVE  KeepInv'
<1>1. UNCHANGED <<main, stop, reload, proc, saved, restoring, results, kept, lost>>
  BY DEF HandlerStep, Take, Execute, EndMessage, stopVars, resultVars
<1>2. \A e \in Executions : thread'[e] \in {thread[e], "new"}
  <2>1. CASE Take \/ EndMessage
    BY <2>1 DEF Take, EndMessage
  <2>2. CASE Execute
    BY <2>2, FreshExecution DEF ScriptInv, ScriptTypeOK
  <2> QED
    BY <2>1, <2>2 DEF HandlerStep
<1>3. ResultKept'
  BY <1>1, <1>2 DEF KeepInv, ResultKept, Owed
<1>4. KeptSaved' /\ RestoreHasList'
  BY <1>1 DEF KeepInv, KeptSaved, RestoreHasList
<1>5. ListedNotStarted'
  BY <1>1, <1>2 DEF KeepInv, ListedNotStarted
<1> QED
  BY <1>3, <1>4, <1>5 DEF KeepInv

(* A thread goes on with its script until the result is sent or lost.       *)
LEMMA ThreadKeeps ==
  ASSUME ScriptInv, KeepInv, NEW e \in Executions, ThreadStep(e) \/ ProcessEnds(e)
  PROVE  KeepInv'
<1> USE DEF ScriptInv, ScriptTypeOK, Goto, stopVars, messageVars, resultVars
<1>1. /\ UNCHANGED <<stop, reload, saved, kept>>
      /\ \A f \in Executions \ {e} :
           thread'[f] = thread[f] /\ proc'[f] = proc[f] /\ results'[f] = results[f]
      /\ lost \subseteq lost'
  BY DEF ThreadStep, Enter, StartScript, StartRaises, WaitEnds, WatchEnds, WatchRaises, Report,
     ReportRaises, ProcessEnds
<1>2. thread[e] = "listed" => proc[e] = "none"
  BY DEF KeepInv, ListedNotStarted
(* The list of on_start goes on, or it ends and what it had is lost or saved. *)
<1>3. \/ UNCHANGED <<main, restoring>>
      \/ /\ main # "down" /\ main' = "loop" /\ restoring' = {}
         /\ \A f \in restoring \ {e} :
              f \in Owed => f \in lost' \/ (f \in kept /\ stop # "no" /\ ~reload)
  <2>1. CASE WatchRaises(e)
    <3>1. UNCHANGED <<main, restoring>> \/ (OfMain(e) /\ main' = "loop" /\ restoring' = {})
      BY <2>1 DEF WatchRaises, Unwind
    <3>2. OfMain(e) => \A f \in restoring : f \in Owed /\ f \notin lost' => f \in kept /\ stop = "mute"
      BY <2>1 DEF WatchRaises, GivenUp
    <3>3. main # "down" /\ ~(stop = "mute" /\ reload)
      BY <2>1 DEF WatchRaises, Free, InSignal, OneWatcher
    <3> QED
      BY <3>1, <3>2, <3>3
  <2>2. CASE ReportRaises(e)
    <3>1. UNCHANGED <<main, restoring>> \/ (OfMain(e) /\ main' = "loop" /\ restoring' = {})
      BY <2>2 DEF ReportRaises, Unwind
    <3>2. OfMain(e) => \A f \in restoring : f \in Owed /\ f \notin lost' => f \in kept /\ ~reload
      BY <2>2 DEF ReportRaises, GivenUp
    <3>3. main # "down" /\ stop = "mute"
      BY <2>2 DEF ReportRaises, OneWatcher
    <3> QED
      BY <3>1, <3>2, <3>3
  <2>3. CASE ~WatchRaises(e) /\ ~ReportRaises(e)
    BY <2>3 DEF ThreadStep, Enter, StartScript, StartRaises, WaitEnds, WatchEnds, Report,
       ProcessEnds
  <2> QED
    BY <2>1, <2>2, <2>3
<1>4. /\ \/ proc'[e] = "none"
         \/ results'[e] # 0
         \/ e \in lost'
         \/ thread'[e] \in {"new", "waiting", "watching", "ended"}
         \/ thread'[e] = thread[e] /\ proc[e] # "none" /\ results[e] = 0
            /\ UNCHANGED <<main, restoring>>
         \/ e \in kept /\ stop # "no" /\ ~reload
      /\ thread'[e] = "listed" => proc'[e] = "none"
  <2>1. CASE Enter(e)
    BY <2>1 DEF Enter
  <2>2. CASE StartScript(e) \/ WaitEnds(e)
    BY <2>2 DEF StartScript, WaitEnds
  <2>3. CASE StartRaises(e)
    BY <1>2, <2>3 DEF StartRaises
  <2>4. CASE WatchEnds(e)
    BY <2>4 DEF WatchEnds
  <2>5. CASE ProcessEnds(e)
    BY <1>2, <2>5 DEF ProcessEnds
  <2>6. CASE Report(e)
    <3>1. results'[e] = results[e] + 1 /\ results[e] \in Nat
      BY <2>6 DEF Report
    <3>2. results'[e] # 0
      BY <3>1
    <3>3. thread'[e] = "none"
      BY <2>6 DEF Report
    <3> QED
      BY <3>2, <3>3
  <2>7. CASE ReportRaises(e)
    <3>1. /\ thread'[e] = "none" /\ stop = "mute" /\ proc' = proc /\ results' = results
          /\ lost' = lost \cup ((GivenUp(e) \cap Owed) \ IF reload THEN {} ELSE kept)
      BY <2>7 DEF ReportRaises
    <3>2. e \in Owed /\ e \notin lost' => e \in kept /\ ~reload
      BY <3>1 DEF GivenUp
    <3>3. e \notin Owed => proc'[e] = "none" \/ results'[e] # 0
      BY <3>1 DEF Owed
    <3> QED
      BY <3>1, <3>2, <3>3
  <2>8. CASE WatchRaises(e)
    <3>1. /\ thread'[e] = "none" /\ proc' = proc /\ results' = results
          /\ ~(stop = "mute" /\ reload)
          /\ lost' = lost \cup ((GivenUp(e) \cap Owed) \ IF stop = "mute" THEN kept ELSE {})
      BY <2>8 DEF WatchRaises, Free, InSignal
    <3>2. e \in Owed /\ e \notin lost' => e \in kept /\ stop = "mute" /\ ~reload
      BY <3>1 DEF GivenUp
    <3>3. e \notin Owed => proc'[e] = "none" \/ results'[e] # 0
      BY <3>1 DEF Owed
    <3> QED
      BY <3>1, <3>2, <3>3
  <2> QED
    BY <2>1, <2>2, <2>3, <2>4, <2>5, <2>6, <2>7, <2>8 DEF ThreadStep
<1>5. ResultKept'
  <2> SUFFICES ASSUME NEW f \in Executions, proc'[f] # "none", results'[f] = 0, f \notin lost'
               PROVE  \/ thread'[f] \in {"new", "waiting", "watching", "ended"}
                      \/ f \in restoring'
                      \/ f \in kept /\ (main' = "down" \/ (stop # "no" /\ ~reload))
    BY <1>1 DEF ResultKept, Owed
  <2>1. CASE f # e
    <3>1. f \in Owed \ lost
      BY <1>1, <2>1 DEF Owed
    <3> QED
      BY <1>1, <1>3, <2>1, <3>1 DEF KeepInv, ResultKept
  <2>2. CASE f = e
    BY <1>1, <1>4, <2>2 DEF KeepInv, ResultKept, Owed
  <2> QED
    BY <2>1, <2>2
<1>6. KeptSaved' /\ RestoreHasList'
  BY <1>1, <1>3 DEF KeepInv, KeptSaved, RestoreHasList
<1>7. ListedNotStarted'
  BY <1>1, <1>4 DEF KeepInv, ListedNotStarted
<1> QED
  BY <1>5, <1>6, <1>7 DEF KeepInv

(* The save, the end of a process and the start of the next hand over what  *)
(* is owed.                                                                 *)
LEMMA MainKeeps ==
  ASSUME ScriptInv, KeepInv, MainStep \/ Save \/ Kill
  PROVE  KeepInv'
<1> USE DEF KeepInv, ResultKept, KeptSaved, ListedNotStarted, RestoreHasList, Owed,
            stopVars, messageVars, resultVars
<1>1. CASE Mark \/ Mute
  BY <1>1 DEF Mark, Mute
<1>2. CASE Reloaded
  BY <1>2 DEF Reloaded
<1>3. CASE Restored
  BY <1>3 DEF Restored
<1>4. CASE Exit
  BY <1>4 DEF Exit
<1>5. CASE Save
  <2>1. /\ main # "down" /\ stop = "no" /\ stop' = "saved"
        /\ UNCHANGED <<main, thread, proc, restoring, results>>
        /\ kept' = {e \in InProgress : thread[e] # "listed"}
        /\ lost' = lost \cup Forgotten
        /\ saved' = {Entry(e) : e \in InProgress}
    BY <1>5 DEF Save, Stops
  <2>2. ASSUME NEW e \in kept'
        PROVE  \E x \in saved' : x.of = e /\ x.started
    <3>1. e \in InProgress /\ thread[e] # "listed"
      BY <2>1 DEF InProgress
    <3>2. Entry(e) \in saved' /\ Entry(e).of = e /\ Entry(e).started
      BY <2>1, <3>1 DEF Entry
    <3> QED
      BY <3>2
  <2> QED
    BY <2>1, <2>2 DEF Forgotten
<1>6. CASE Kill
  <2>1. /\ main' = "down" /\ restoring' = {} /\ UNCHANGED <<proc, saved, results, kept>>
        /\ thread' = [e \in Executions |-> "none"]
        /\ lost' = lost \cup (Owed \ kept)
    BY <1>6 DEF Kill
  <2> QED
    BY <2>1
<1>7. CASE Boot
  <2>1. /\ main = "down" /\ UNCHANGED <<stop, reload, thread, proc, saved, results, kept>>
        /\ \/ main' = "restore" /\ restoring' = Restorable /\ lost' = lost
           \/ main' = "loop" /\ lost' = lost \cup Owed /\ restoring' = restoring
    BY <1>7 DEF Boot
  <2>2. kept \subseteq Restorable
    BY DEF Restorable
  <2>3. \A e \in Executions : thread[e] = "none"
    BY <2>1 DEF ScriptInv, OneWatcher
  <2>4. restoring = {}
    BY <2>1
  <2> QED
    BY <2>1, <2>2, <2>3, <2>4
<1>8. ASSUME NEW e \in Executions, Restore(e)
      PROVE  KeepInv'
  <2>1. /\ UNCHANGED <<main, stop, reload, proc, saved, results, kept, lost>>
        /\ main = "restore" /\ restoring' = restoring \ {e}
        /\ thread'[e] = "new" /\ \A f \in Executions \ {e} : thread'[f] = thread[f]
    BY <1>8 DEF Restore, Goto, ScriptInv, ScriptTypeOK
  <2> QED
    BY <2>1
<1> QED
  BY <1>1, <1>2, <1>3, <1>4, <1>5, <1>6, <1>7, <1>8 DEF MainStep

(* The losses are all known: a script that was started, and is not among    *)
(* them, has somebody who will send its result, however scalarizr is        *)
(* stopped, reloaded, killed and started again, and though a reload's new   *)
(* ScriptExecutor overwrites what the old one saves.                        *)
THEOREM ResultsKept == ScriptSpec => []ResultKept
<1>1. ScriptInit => KeepInv
  BY DEF ScriptInit, KeepInv, ResultKept, KeptSaved, ListedNotStarted, RestoreHasList, Owed
<1>2. ScriptInv /\ KeepInv /\ [ScriptNext]_scriptVars => KeepInv'
  <2> SUFFICES ASSUME ScriptInv, KeepInv, [ScriptNext]_scriptVars
               PROVE  KeepInv'
    OBVIOUS
  <2>1. CASE UNCHANGED scriptVars
    BY <2>1 DEF scriptVars, stopVars, messageVars, resultVars, KeepInv, ResultKept, KeptSaved,
       ListedNotStarted, RestoreHasList, Owed
  <2> QED
    BY <2>1, HandlerKeeps, ThreadKeeps, MainKeeps DEF ScriptNext
<1>3. KeepInv => ResultKept
  BY DEF KeepInv
<1> QED
  BY <1>1, <1>2, <1>3, ScriptInvariant, PTL DEF ScriptSpec
=============================================================================
