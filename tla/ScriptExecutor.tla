--------------------------- MODULE ScriptExecutor ---------------------------
(***************************************************************************)
(* scalarizr's script executor (handlers/script_executor.py) over stops,   *)
(* reloads and restarts of scalarizr.  The handler thread executes the     *)
(* scripts of a message in turn, an asynchronous one in a thread of its    *)
(* own.  What is in progress is saved when scalarizr is told to stop, and  *)
(* watched again by the next process: a script's own process outlives      *)
(* scalarizr.  A reload makes a new ScriptExecutor, with a list of its own, *)
(* and the old one stays a listener of the bus.                            *)
(***************************************************************************)
EXTENDS Naturals, Sequences

CONSTANTS
  Scripts,   \* the scripts that messages bring
  Async,     \* those with `asynchronous`
  Messages,  \* messages, as the sequences of their scripts
  MaxRuns,   \* bound on the executions of a script
  MaxStops   \* bound on the stops, reloads and kills of scalarizr

ASSUME ScriptAssumption ==
  /\ Async \subseteq Scripts
  /\ Messages \subseteq Seq(Scripts) \ {<<>>}
  /\ MaxRuns \in Nat /\ MaxStops \in Nat

(* A script is known by its message and its place there. *)
ASSUME PlaceAssumption ==
  \A m, n \in Messages : \A i \in DOMAIN m, k \in DOMAIN n :
    m[i] = n[k] => m = n /\ i = k

VARIABLES
  main,      \* the main thread: down (no process), restore, loop
  stop,      \* how far _shutdown is: no, saved, marked, mute
  reload,    \* it is SIGHUP's
  stops,     \* how often scalarizr was stopped
  killed,    \* history: it was killed once
  pending,   \* the unhandled messages of the store
  handling,  \* the message that the handler thread is at, or <<>>
  left,      \* its scripts that have not been executed yet
  at,        \* the execution that the handler thread is at
  run,       \* how often a script has been executed
  thread,    \* where the thread is that executes, or watches, an execution
  proc,      \* the script's process: none, alive, over
  saved,     \* STATE["script_executor.in_progress"]
  restoring, \* the rest of on_start's list
  older,     \* the executions of ScriptExecutors that a reload has replaced
  results,   \* how many results of an execution were sent
  late,      \* history: executions with a result sent between save and mute
  kept,      \* history: the scripts that were under way at the last save
  lost       \* history: executions whose result nobody is left to send

stopVars == <<stop, reload, stops, killed>>
messageVars == <<pending, handling, left, at, run>>
resultVars == <<results, late, kept, lost>>
scriptVars == <<main, stopVars, messageVars, thread, proc, saved, restoring, older, resultVars>>

Executions == [script : Scripts, run : 1..MaxRuns]
NoExecution == [script |-> "none", run |-> 0]
Entries == [of : Executions, started : BOOLEAN]

ScriptInit ==
  /\ main = "loop"
  /\ stop = "no" /\ reload = FALSE /\ stops = 0 /\ killed = FALSE
  /\ pending = Messages
  /\ handling = <<>> /\ left = <<>> /\ at = NoExecution
  /\ run = [s \in Scripts |-> 0]
  /\ thread = [e \in Executions |-> "none"]
  /\ proc = [e \in Executions |-> "none"]
  /\ saved = {} /\ restoring = {} /\ older = {}
  /\ results = [e \in Executions |-> 0]
  /\ late = {} /\ kept = {} /\ lost = {}

-----------------------------------------------------------------------------
(* The newest ScriptExecutor's in_progress: a thread's first statement       *)
(* appends to the list of its own executor, its last removes.                *)
InProgress == {e \in Executions \ older : thread[e] \notin {"none", "new"}}

(* sc.state(); a script that has not been started has neither pid nor       *)
(* start_time.                                                              *)
Entry(e) == [of |-> e, started |-> thread[e] # "listed"]

Restorable == {x.of : x \in {y \in saved : y.started}}

(* A script was started, and has not been reported.                         *)
Owed == {e \in Executions : proc[e] # "none" /\ results[e] = 0}

(* The main thread is in the handler of a signal, and nowhere else.         *)
InSignal == stop \in {"saved", "marked"} \/ (stop = "mute" /\ reload)

(* Synchronous scripts are restored one at a time, by the main thread.      *)
OfMain(e) == e.script \notin Async /\ e # at
MainBusy == \E e \in Executions : OfMain(e) /\ thread[e] # "none"

Goto(e, place) == thread' = [thread EXCEPT ![e] = place]

-----------------------------------------------------------------------------
(* The handler thread. *)

(* It begins with a message; it may also go on to one that it listed before *)
(* the consumer was stopped.                                                *)
Take ==
  /\ main # "down"
  /\ stop # "mute"
  /\ handling = <<>>
  /\ \E m \in pending : handling' = m /\ left' = m
  /\ UNCHANGED <<main, stopVars, pending, at, run, thread, proc, saved, restoring, older, resultVars>>

(* _execute_one_script, for the next one of execute_scripts                 *)
Execute ==
  /\ left # <<>>
  /\ at = NoExecution
  /\ LET s == Head(left)
         e == [script |-> s, run |-> run[s] + 1]
     IN  /\ run[s] < MaxRuns
         /\ run' = [run EXCEPT ![s] = @ + 1]
         /\ Goto(e, "new")
         /\ at' = IF s \in Async THEN at ELSE e
  /\ left' = Tail(left)
  /\ UNCHANGED <<main, stopVars, pending, handling, proc, saved, restoring, older, resultVars>>

(* Mutant: the message is not marked. *)
EndMessageUnmarked ==
  /\ handling # <<>> /\ left = <<>> /\ at = NoExecution
  /\ handling' = <<>>
  /\ UNCHANGED <<main, stopVars, pending, left, at, run, thread, proc, saved, restoring, older,
                 resultVars>>

(* The message is marked as handled. *)
EndMessage ==
  /\ handling # <<>> /\ left = <<>> /\ at = NoExecution
  /\ pending' = pending \ {handling}
  /\ handling' = <<>>
  /\ UNCHANGED <<main, stopVars, left, at, run, thread, proc, saved, restoring, older, resultVars>>

-----------------------------------------------------------------------------
(* _execute_one_script0, by whatever thread. *)

Free(e) == ~(InSignal /\ OfMain(e))
Return(e) == at' = IF e = at THEN NoExecution ELSE at

(* A script that was restored has been started long ago.                    *)
Enter(e) ==
  /\ thread[e] = "new" /\ Free(e)
  /\ Goto(e, IF proc[e] = "none" THEN "listed" ELSE "watching")
  /\ UNCHANGED <<main, stopVars, messageVars, proc, saved, restoring, older, resultVars>>

StartScript(e) ==
  /\ thread[e] = "listed"
  /\ Goto(e, "waiting")
  /\ proc' = [proc EXCEPT ![e] = "alive"]
  /\ UNCHANGED <<main, stopVars, messageVars, saved, restoring, older, resultVars>>

(* There is no interpreter, or no room for the script: the exception ends   *)
(* the thread, or the scripts of the message.                               *)
StartRaises(e) ==
  /\ thread[e] = "listed"
  /\ Goto(e, "none")
  /\ Return(e)
  /\ left' = IF e = at THEN <<>> ELSE left
  /\ UNCHANGED <<main, stopVars, pending, handling, run, proc, saved, restoring, older, resultVars>>

ProcessEnds(e) ==
  /\ proc[e] = "alive"
  /\ proc' = [proc EXCEPT ![e] = "over"]
  /\ UNCHANGED <<main, stopVars, messageVars, thread, saved, restoring, older, resultVars>>

(* wait: the process has ended, or its time is over and it is killed.       *)
WaitEnds(e) ==
  /\ thread[e] = "waiting"
  /\ Goto(e, "ended")
  /\ proc' = [proc EXCEPT ![e] = "over"]
  /\ UNCHANGED <<main, stopVars, messageVars, saved, restoring, older, resultVars>>

(* An exception on the main thread ends on_start's loop, and the rest of    *)
(* its list is left.                                                        *)
GivenUp(e) == IF OfMain(e) THEN {e} \cup restoring ELSE {e}

Unwind(e) ==
  IF OfMain(e) THEN main' = "loop" /\ restoring' = {} ELSE UNCHANGED <<main, restoring>>

(* wait for a process of which only the pid is known.  It is taken to have  *)
(* ended if /proc names another executable than the script's first line (a  *)
(* link's target, say) or sees it in a disk sleep; nobody kills it when its *)
(* time is over.  On another thread than the main one, wait gives None for  *)
(* an exception, and that is sent as the result.                            *)
WatchEnds(e) ==
  /\ thread[e] = "watching" /\ Free(e)
  /\ Goto(e, "ended")
  /\ UNCHANGED <<main, stopVars, messageVars, proc, saved, restoring, older, resultVars>>

(* On the main thread wait raises again: the process ended between exists   *)
(* and readlink, or the log is not UTF-8.                                   *)
WatchRaises(e) ==
  /\ thread[e] = "watching" /\ OfMain(e) /\ Free(e)
  /\ Goto(e, "none")
  /\ Unwind(e)
  /\ lost' = lost \cup ((GivenUp(e) \cap Owed) \ IF stop = "mute" THEN kept ELSE {})
  /\ UNCHANGED <<stopVars, messageVars, proc, saved, older, results, late, kept>>

Report(e) ==
  /\ thread[e] = "ended" /\ Free(e)
  /\ stop # "mute"
  /\ Goto(e, "none")
  /\ Return(e)
  /\ results' = [results EXCEPT ![e] = @ + 1]
  /\ late' = IF stop = "no" THEN late ELSE late \cup {e}
  /\ UNCHANGED <<main, stopVars, pending, handling, left, run, proc, saved, restoring, older,
                 kept, lost>>

(* bus.messaging_service is None: send_message raises.  What was saved is    *)
(* for the next process, of which there is none after a reload.             *)
ReportRaises(e) ==
  /\ thread[e] = "ended" /\ Free(e)
  /\ stop = "mute"
  /\ Goto(e, "none")
  /\ Unwind(e)
  /\ lost' = lost \cup ((GivenUp(e) \cap Owed) \ IF reload THEN {} ELSE kept)
  /\ UNCHANGED <<stopVars, messageVars, proc, saved, older, results, late, kept>>

ThreadStep(e) ==
  \/ Enter(e) \/ StartScript(e) \/ StartRaises(e) \/ WaitEnds(e) \/ WatchEnds(e)
  \/ WatchRaises(e) \/ Report(e) \/ ReportRaises(e)

-----------------------------------------------------------------------------
(* Stops and starts. *)

(* What was saved before is not in the new list, and only the threads and   *)
(* the loop of on_start still know it.                                      *)
Forgotten == {e \in Owed \ restoring : thread[e] = "none"}

(* SIGTERM's or SIGHUP's handler has begun. *)
Stops ==
  /\ main # "down"
  /\ stop = "no"
  /\ stops < MaxStops
  /\ stop' = "saved"
  /\ reload' \in BOOLEAN
  /\ stops' = stops + 1
  /\ kept' = {e \in InProgress : thread[e] # "listed"}
  /\ lost' = lost \cup Forgotten
  /\ UNCHANGED <<main, killed, messageVars, thread, proc, restoring, older, results, late>>

(* Mutant: asynchronous scripts are left to their threads. *)
SaveSynchronous ==
  /\ Stops
  /\ saved' = {Entry(e) : e \in {x \in InProgress : x.script \notin Async}}

(* Mutant: the list is added to what was saved. *)
SaveMore ==
  /\ Stops
  /\ saved' = saved \cup {Entry(e) : e \in InProgress}

(* on_shutdown, of each ScriptExecutor on the bus in the order in which they *)
(* were made: the newest one's list overwrites the others'.                  *)
Save ==
  /\ Stops
  /\ saved' = {Entry(e) : e \in InProgress}

(* consumer.shutdown(force=True) marks the message that is being handled ... *)
Mark ==
  /\ stop = "saved"
  /\ stop' = "marked"
  /\ pending' = pending \ {handling}
  /\ UNCHANGED <<main, reload, stops, killed, handling, left, at, run, thread, proc, saved,
                 restoring, older, resultVars>>

(* ... and joins the handler thread; then the messaging service is gone.    *)
Mute ==
  /\ stop = "marked"
  /\ handling = <<>>
  /\ stop' = "mute"
  /\ UNCHANGED <<main, reload, stops, killed, messageVars, thread, proc, saved, restoring, older,
                 resultVars>>

(* onSIGHUP: the services start again, with a new ScriptExecutor, but       *)
(* "start" is not fired.  The old one goes on with what it has.             *)
Reloaded ==
  /\ stop = "mute"
  /\ reload
  /\ stop' = "no" /\ reload' = FALSE
  /\ older' = {e \in Executions : thread[e] # "none"} \cup restoring
  /\ UNCHANGED <<main, stops, killed, messageVars, thread, proc, saved, restoring, resultVars>>

(* The process ends with the last of its threads. *)
Exit ==
  /\ stop = "mute"
  /\ ~reload
  /\ main = "loop"
  /\ \A e \in Executions : thread[e] = "none"
  /\ main' = "down"
  /\ stop' = "no"
  /\ UNCHANGED <<reload, stops, killed, messageVars, thread, proc, saved, restoring, older, resultVars>>

(* The init script's SIGKILL after some five seconds, or a crash. *)
Kill ==
  /\ main # "down"
  /\ stops < MaxStops
  /\ main' = "down"
  /\ stop' = "no" /\ reload' = FALSE /\ stops' = stops + 1 /\ killed' = TRUE
  /\ handling' = <<>> /\ left' = <<>> /\ at' = NoExecution
  /\ thread' = [e \in Executions |-> "none"]
  /\ restoring' = {} /\ older' = {}
  /\ lost' = lost \cup (Owed \ kept)
  /\ UNCHANGED <<pending, run, proc, saved, results, late, kept>>

(* on_start: every entry is made a Script, or none is.  An entry without a  *)
(* pid fails an assertion, which ends on_start.                             *)
Boot ==
  /\ main = "down"
  /\ IF \A x \in saved : x.started
     THEN main' = "restore" /\ restoring' = Restorable /\ UNCHANGED lost
     ELSE main' = "loop" /\ lost' = lost \cup Owed /\ UNCHANGED restoring
  /\ older' = {}
  /\ UNCHANGED <<stopVars, messageVars, thread, proc, saved, results, late, kept>>

Restore(e) ==
  /\ main = "restore"
  /\ ~InSignal
  /\ ~MainBusy
  /\ e \in restoring
  /\ restoring' = restoring \ {e}
  /\ Goto(e, "new")
  /\ UNCHANGED <<main, stopVars, messageVars, proc, saved, older, resultVars>>

Restored ==
  /\ main = "restore"
  /\ ~InSignal
  /\ ~MainBusy
  /\ restoring = {}
  /\ main' = "loop"
  /\ UNCHANGED <<stopVars, messageVars, thread, proc, saved, restoring, older, resultVars>>

HandlerStep == Take \/ Execute \/ EndMessage
MainStep == Mark \/ Mute \/ Reloaded \/ Exit \/ Boot \/ Restored \/ \E e \in Executions : Restore(e)

ScriptNext ==
  \/ HandlerStep \/ MainStep \/ Save \/ Kill
  \/ \E e \in Executions : ThreadStep(e) \/ ProcessEnds(e)

(* Threads run, a script ends or its time does, and a stopped scalarizr is  *)
(* started again.  Nothing stops it for ever: MaxStops bounds the stops.    *)
ScriptFairness ==
  /\ WF_scriptVars(HandlerStep)
  /\ WF_scriptVars(MainStep)
  /\ \A e \in Executions : WF_scriptVars(ThreadStep(e))

ScriptSpec == ScriptInit /\ [][ScriptNext]_scriptVars /\ ScriptFairness

-----------------------------------------------------------------------------
ScriptTypeOK ==
  /\ main \in {"down", "restore", "loop"}
  /\ stop \in {"no", "saved", "marked", "mute"}
  /\ reload \in BOOLEAN /\ stops \in 0..MaxStops /\ killed \in BOOLEAN
  /\ pending \subseteq Messages
  /\ handling \in Messages \cup {<<>>} /\ left \in Seq(Scripts)
  /\ at \in Executions \cup {NoExecution}
  /\ run \in [Scripts -> 0..MaxRuns]
  /\ thread \in [Executions -> {"none", "new", "listed", "waiting", "watching", "ended"}]
  /\ proc \in [Executions -> {"none", "alive", "over"}]
  /\ saved \subseteq Entries
  /\ restoring \subseteq Executions /\ older \subseteq Executions
  /\ results \in [Executions -> Nat]
  /\ late \subseteq Executions /\ kept \subseteq Executions /\ lost \subseteq Executions

(* The scripts of a message are executed once, however scalarizr is stopped *)
(* and reloaded while it handles the message.  Only when it is killed can   *)
(* they be executed again.                                                  *)
ExecutedOnce == \A s \in Scripts : run[s] > 1 => killed

(* Unless scalarizr was killed, a result is sent twice only if it was first *)
(* sent between the save and the end of messaging: a script that ends then, *)
(* as every synchronous one that is in progress does, is restored though    *)
(* its result is known.                                                     *)
SentTwiceOnlyLate == \A e \in Executions : results[e] > 1 => killed \/ e \in late

(* The result of a script that was started is sent in the end, unless lost: *)
(* it was neither saved nor sent when a process ended (a kill; a thread     *)
(* that had not appended its script yet, or ended in a reload; a reload     *)
(* before had replaced the executor whose list it was on), a second stop    *)
(* came before it was restored, an exception of the main thread ended       *)
(* on_start's loop at it or before it, or a script that was saved before it *)
(* was started kept the list from being restored.                           *)
ResultSent ==
  \A e \in Executions : proc[e] # "none" ~> (results[e] > 0 \/ e \in lost)
=============================================================================
