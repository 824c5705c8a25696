---------------------------- MODULE SqliteServer ----------------------------
(***************************************************************************)
(* The thread that owns scalarizr's database connection                    *)
(* (util/sqlite_server.py).  Other threads make a CursorProxy each time    *)
(* they use the database; its calls go through one queue to the server,    *)
(* which finds the proxy again by its hash, in a dictionary that holds     *)
(* proxies weakly.  The hash is the proxy's address, so that a proxy may   *)
(* have the hash of one that is gone.  A call waits 30 seconds.            *)
(***************************************************************************)
EXTENDS Naturals, Sequences

CONSTANTS
  Hashes,     \* addresses for proxies
  MaxProxies, \* bound on the proxies that live at an address, in turn
  MaxCalls    \* bound on a proxy's calls; the first one creates the cursor

ASSUME ServerAssumption == MaxProxies \in Nat /\ MaxCalls \in Nat

VARIABLES
  proxy,      \* for each address the proxy that is there, or was last
  clients,    \* self._clients: the hashes that the server knows
  queue,      \* tasks_queue
  serving     \* the server's job, and where it is with it

serverVars == <<proxy, clients, queue, serving>>

Calls == [hash : Hashes, proxy : 1..MaxProxies, call : 1..MaxCalls]
NoCall == [hash |-> "none", proxy |-> 0, call |-> 0]

(* A proxy: which one at its address, the calls it has made, its event, its *)
(* attribute result (the call that it answers), what its last call          *)
(* returned, the last answer it returned, and whether it ever timed out.    *)
Proxies ==
  [pc : {"gone", "ready", "wait", "woken", "got"},
   number : 0..MaxProxies, calls : 0..MaxCalls,
   available : BOOLEAN, result : Calls \cup {NoCall}, got : Calls \cup {NoCall},
   last : 0..MaxCalls, late : BOOLEAN]

Gone(n) ==
  [pc |-> "gone", number |-> n, calls |-> 0, available |-> FALSE, result |-> NoCall,
   got |-> NoCall, last |-> 0, late |-> FALSE]

ServerInit ==
  /\ proxy = [h \in Hashes |-> Gone(0)]
  /\ clients = {}
  /\ queue = <<>>
  /\ serving = [pc |-> "free", job |-> NoCall]

-----------------------------------------------------------------------------
(* A thread with its proxy. *)

(* Mutant: calls are counted from 0. *)
CurrentFromZero(h) ==
  [hash |-> h, proxy |-> proxy[h].number, call |-> proxy[h].calls - 1]

(* The call that a proxy has made last. *)
Current(h) == [hash |-> h, proxy |-> proxy[h].number, call |-> proxy[h].calls]

(* CursorProxy.__init__, whose call of cursor_create hands the proxy over.  *)
NewProxy(h) ==
  /\ proxy[h].pc = "gone"
  /\ proxy[h].number < MaxProxies
  /\ MaxCalls > 0
  /\ proxy' = [proxy EXCEPT ![h] = [Gone(@.number + 1) EXCEPT !.pc = "wait", !.calls = 1]]
  /\ queue' = Append(queue, Current(h)')
  /\ UNCHANGED <<clients, serving>>

(* Mutant: the event of the call before is not cleared. *)
ExecuteUncleared(h) ==
  /\ proxy[h].pc = "ready"
  /\ proxy[h].calls < MaxCalls
  /\ proxy' = [proxy EXCEPT ![h].pc = "wait", ![h].calls = @ + 1]
  /\ queue' = Append(queue, Current(h)')
  /\ UNCHANGED <<clients, serving>>

(* _call, up to its wait *)
Execute(h) ==
  /\ proxy[h].pc = "ready"
  /\ proxy[h].calls < MaxCalls
  /\ proxy' = [proxy EXCEPT ![h].pc = "wait", ![h].calls = @ + 1, ![h].available = FALSE]
  /\ queue' = Append(queue, Current(h)')
  /\ UNCHANGED <<clients, serving>>

Wake(h) ==
  /\ proxy[h].pc = "wait"
  /\ proxy[h].available
  /\ proxy' = [proxy EXCEPT ![h].pc = "woken"]
  /\ UNCHANGED <<clients, queue, serving>>

(* GLOBAL_TIMEOUT; _call goes on as if it had been answered. *)
Timeout(h) ==
  /\ proxy[h].pc = "wait"
  /\ ~proxy[h].available
  /\ proxy' = [proxy EXCEPT ![h].pc = "woken", ![h].late = TRUE]
  /\ UNCHANGED <<clients, queue, serving>>

(* The result, or the error, is returned ... *)
Read(h) ==
  /\ proxy[h].pc = "woken"
  /\ proxy' = [proxy EXCEPT ![h].pc = "got", ![h].got = proxy[h].result]
  /\ UNCHANGED <<clients, queue, serving>>

LastAnswer(h) == IF proxy[h].got = NoCall THEN proxy[h].last ELSE proxy[h].got.call

(* Mutant: the result stays in the proxy. *)
ResetNot(h) ==
  /\ proxy[h].pc = "got"
  /\ proxy' = [proxy EXCEPT ![h].pc = "ready", ![h].last = LastAnswer(h),
                            ![h].got = NoCall]
  /\ UNCHANGED <<clients, queue, serving>>

(* ... and finally forgotten. *)
Reset(h) ==
  /\ proxy[h].pc = "got"
  /\ proxy' = [proxy EXCEPT ![h].pc = "ready", ![h].last = LastAnswer(h),
                            ![h].got = NoCall, ![h].result = NoCall]
  /\ UNCHANGED <<clients, queue, serving>>

(* The job that creates a cursor has a reference to its proxy.              *)
Referred(h) ==
  \E j \in {queue[i] : i \in DOMAIN queue} \cup {serving.job} :
    j.hash = h /\ j.proxy = proxy[h].number /\ j.call = 1

(* Mutant: a proxy that is freed stays among the clients. *)
ForgetNot(h) ==
  /\ proxy[h].pc = "ready"
  /\ ~Referred(h)
  /\ proxy' = [proxy EXCEPT ![h] = Gone(@.number)]
  /\ UNCHANGED <<clients, queue, serving>>

(* The thread is done with the proxy, which is freed, and its weak          *)
(* reference with it.                                                       *)
Forget(h) ==
  /\ proxy[h].pc = "ready"
  /\ ~Referred(h)
  /\ proxy' = [proxy EXCEPT ![h] = Gone(@.number)]
  /\ clients' = clients \ {h}
  /\ UNCHANGED <<queue, serving>>

-----------------------------------------------------------------------------
(* Mutant: a cursor is not made known. *)
ServeUnknown ==
  /\ serving.pc = "free"
  /\ queue # <<>>
  /\ queue' = Tail(queue)
  /\ serving' = [pc |-> "done", job |-> Head(queue)]
  /\ UNCHANGED <<proxy, clients>>

(* serve_forever: the job is done ... *)
Serve ==
  /\ serving.pc = "free"
  /\ queue # <<>>
  /\ queue' = Tail(queue)
  /\ serving' = [pc |-> "done", job |-> Head(queue)]
  /\ clients' = IF Head(queue).call = 1 THEN clients \cup {Head(queue).hash} ELSE clients
  /\ UNCHANGED proxy

(* ... its result given to whom the hash says, if he is still there ...     *)
WriteResult ==
  /\ serving.pc = "done"
  /\ IF serving.job.hash \in clients
     THEN /\ proxy' = [proxy EXCEPT ![serving.job.hash].result = serving.job]
          /\ serving' = [serving EXCEPT !.pc = "written"]
     ELSE /\ serving' = [pc |-> "free", job |-> NoCall]
          /\ UNCHANGED proxy
  /\ UNCHANGED <<clients, queue>>

(* ... and he is woken.  That he is gone by now is an error to recover from. *)
SetAvailable ==
  /\ serving.pc = "written"
  /\ proxy' = IF serving.job.hash \in clients
              THEN [proxy EXCEPT ![serving.job.hash].available = TRUE]
              ELSE proxy
  /\ serving' = [pc |-> "free", job |-> NoCall]
  /\ UNCHANGED <<clients, queue>>

ServerStep == Serve \/ WriteResult \/ SetAvailable

ServerNext ==
  \/ ServerStep
  \/ \E h \in Hashes :
       \/ NewProxy(h) \/ Execute(h) \/ Wake(h) \/ Timeout(h) \/ Read(h) \/ Reset(h)
       \/ Forget(h)

(* The server thread runs; nobody relies on the timeout. *)
ServerFairness ==
  /\ WF_serverVars(ServerStep)
  /\ \A h \in Hashes : WF_serverVars(Wake(h)) /\ WF_serverVars(Read(h))

ServerSpec == ServerInit /\ [][ServerNext]_serverVars /\ ServerFairness

-----------------------------------------------------------------------------
ServerTypeOK ==
  /\ proxy \in [Hashes -> Proxies]
  /\ clients \subseteq Hashes
  /\ queue \in Seq(Calls)
  /\ serving \in [pc : {"free", "done", "written"}, job : Calls \cup {NoCall}]

(* A call is never given the answer to a call of another proxy: neither of  *)
(* one that had the same hash and is gone, whose calls may still be queued. *)
NoForeignAnswer ==
  \A h \in Hashes : proxy[h].pc = "got" /\ proxy[h].got # NoCall =>
    proxy[h].got.hash = h /\ proxy[h].got.proxy = proxy[h].number

(* Unless a call of the proxy has timed out, each call is given its own     *)
(* answer.  After a timeout it may be given the late answer of an earlier   *)
(* call, or none.                                                           *)
OwnAnswer ==
  \A h \in Hashes : proxy[h].pc = "got" /\ ~proxy[h].late => proxy[h].got = Current(h)

(* Late or not, no answer is returned twice, and none after a later one.    *)
AnswersInOrder ==
  \A h \in Hashes : proxy[h].pc = "got" /\ proxy[h].got # NoCall =>
    proxy[h].got.call > proxy[h].last

(* A call returns, and the server is never in need of the timeout for it.   *)
CallsReturn == \A h \in Hashes : proxy[h].pc = "wait" ~> proxy[h].pc = "got"
=============================================================================
