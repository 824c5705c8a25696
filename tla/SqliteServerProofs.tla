------------------------- MODULE SqliteServerProofs -------------------------
(* Theorems about SqliteServer, for any number of addresses, proxies and    *)
(* calls.                                                                   *)
EXTENDS SqliteServer, SequenceTheorems, TLAPS

(* What a proxy has been given answers a call of its own.                   *)
OwnResults ==
  \A h \in Hashes :
    /\ proxy[h].result # NoCall =>
         proxy[h].result.hash = h /\ proxy[h].result.proxy = proxy[h].number
    /\ proxy[h].got # NoCall =>
         proxy[h].got.hash = h /\ proxy[h].got.proxy = proxy[h].number

(* The calls of an address are queued in the order of its proxies, and a    *)
(* proxy that has still to be made known is there.                          *)
QueueOrdered ==
  /\ \A i \in DOMAIN queue : queue[i].proxy <= proxy[queue[i].hash].number
  /\ \A i, k \in DOMAIN queue :
       i <= k /\ queue[i].hash = queue[k].hash => queue[i].proxy <= queue[k].proxy
  /\ \A i \in DOMAIN queue : queue[i].call = 1 =>
       /\ queue[i].proxy = proxy[queue[i].hash].number
       /\ proxy[queue[i].hash].pc # "gone"

(* Once a proxy is known, no call of an earlier one is left.                *)
KnownIsAlone ==
  \A h \in clients :
    /\ proxy[h].pc # "gone"
    /\ \A i \in DOMAIN queue : queue[i].hash = h => queue[i].proxy = proxy[h].number
    /\ serving.pc # "free" /\ serving.job.hash = h =>
         serving.job.proxy = proxy[h].number

(* A proxy that is there has been numbered and has called.                  *)
AliveHasCalled ==
  \A h \in Hashes : proxy[h].pc # "gone" => proxy[h].number > 0 /\ proxy[h].calls > 0

ServedJob == serving.pc # "free" => serving.job \in Calls

ServerInv ==
  /\ ServerTypeOK
  /\ OwnResults
  /\ QueueOrdered
  /\ KnownIsAlone
  /\ AliveHasCalled
  /\ ServedJob

-----------------------------------------------------------------------------
LEMMA NoCallIsNone == NoCall \notin Calls
BY DEF NoCall, Calls

LEMMA GoneIsProxy ==
  ASSUME NEW n \in 0..MaxProxies
  PROVE  Gone(n) \in Proxies
BY ServerAssumption DEF Gone, Proxies

LEMMA InitServerInv ==
  ASSUME ServerInit
  PROVE  ServerInv
<1> USE DEF ServerInit
<1>1. ServerTypeOK
  <2>1. 0 \in 0..MaxProxies
    BY ServerAssumption
  <2>2. proxy \in [Hashes -> Proxies]
    BY <2>1, GoneIsProxy
  <2> QED
    BY <2>2 DEF ServerTypeOK
<1>2. OwnResults
  BY DEF OwnResults, Gone
<1>3. QueueOrdered /\ KnownIsAlone /\ AliveHasCalled /\ ServedJob
  BY DEF QueueOrdered, KnownIsAlone, AliveHasCalled, ServedJob, Gone
<1> QED
  BY <1>1, <1>2, <1>3 DEF ServerInv

(* What a thread does to its own proxy, without a call.                     *)
LEMMA ProxyStep ==
  ASSUME ServerInv, NEW h \in Hashes,
         \/ Wake(h) \/ Timeout(h) \/ Read(h) \/ Reset(h)
  PROVE  ServerInv'
<1> USE DEF ServerInv, ServerTypeOK
<1>1. /\ proxy' \in [Hashes -> Proxies]
      /\ \A k \in Hashes \ {h} : proxy'[k] = proxy[k]
      /\ proxy'[h].number = proxy[h].number /\ proxy'[h].calls = proxy[h].calls
      /\ proxy[h].pc # "gone" /\ proxy'[h].pc # "gone"
      /\ proxy'[h].result \in {proxy[h].result, NoCall}
      /\ proxy'[h].got \in {proxy[h].got, proxy[h].result, NoCall}
  <2>1. CASE Wake(h)
    BY <2>1 DEF Wake, Proxies
  <2>2. CASE Timeout(h)
    <3>1. /\ proxy' = [proxy EXCEPT ![h] = [proxy[h] EXCEPT !.pc = "woken", !.late = TRUE]]
          /\ proxy[h].pc = "wait"
      BY <2>2 DEF Timeout
    <3>2. [proxy[h] EXCEPT !.pc = "woken", !.late = TRUE] \in Proxies
      BY DEF Proxies
    <3> QED
      BY <3>1, <3>2 DEF Proxies
  <2>3. CASE Read(h)
    <3>1. /\ proxy' = [proxy EXCEPT ![h] = [proxy[h] EXCEPT !.pc = "got", !.got = proxy[h].result]]
          /\ proxy[h].pc = "woken"
      BY <2>3 DEF Read
    <3>2. [proxy[h] EXCEPT !.pc = "got", !.got = proxy[h].result] \in Proxies
      BY DEF Proxies
    <3> QED
      BY <3>1, <3>2 DEF Proxies
  <2>4. CASE Reset(h)
    <3>1. LastAnswer(h) \in 0..MaxCalls
      BY DEF LastAnswer, Proxies, Calls
    <3>2. proxy' = [proxy EXCEPT ![h] = [proxy[h] EXCEPT !.pc = "ready", !.last = LastAnswer(h),
                                           !.got = NoCall, !.result = NoCall]]
      BY <2>4 DEF Reset
    <3>3. [proxy[h] EXCEPT !.pc = "ready", !.last = LastAnswer(h),
                           !.got = NoCall, !.result = NoCall] \in Proxies
      BY <3>1 DEF Proxies
    <3>4. proxy[h].pc = "got"
      BY <2>4 DEF Reset
    <3> QED
      BY <3>2, <3>3, <3>4 DEF Proxies
  <2> QED
    BY <2>1, <2>2, <2>3, <2>4
<1>2. clients' = clients /\ queue' = queue /\ serving' = serving
  BY DEF Wake, Timeout, Read, Reset
<1>3. \A k \in Hashes : proxy'[k].number = proxy[k].number
  BY <1>1
<1>4. \A k \in Hashes : proxy'[k].pc = "gone" <=> proxy[k].pc = "gone"
  BY <1>1
<1>5. OwnResults'
  BY <1>1 DEF OwnResults
<1>6. \A i \in DOMAIN queue : queue[i].hash \in Hashes
  <2>1. \A i \in DOMAIN queue : queue[i] \in Calls
    BY ElementOfSeq
  <2> QED
    BY <2>1 DEF Calls
<1>7. QueueOrdered'
  BY <1>2, <1>3, <1>4, <1>6 DEF QueueOrdered
<1>8. KnownIsAlone' /\ ServedJob'
  BY <1>2, <1>3, <1>4 DEF KnownIsAlone, ServedJob
<1>9. AliveHasCalled'
  BY <1>1 DEF AliveHasCalled
<1> QED
  BY <1>1, <1>2, <1>5, <1>7, <1>8, <1>9

(* A call is queued behind all others, for the proxy that is there.         *)
LEMMA CallStep ==
  ASSUME ServerInv, NEW h \in Hashes,
         proxy' \in [Hashes -> Proxies], clients' = clients, serving' = serving,
         \A k \in Hashes \ {h} : proxy'[k] = proxy[k],
         OwnResults', AliveHasCalled',
         proxy'[h].pc = "wait",
         \/ proxy'[h].number = proxy[h].number
         \/ proxy[h].pc = "gone" /\ proxy'[h].number = proxy[h].number + 1,
         queue' = Append(queue, Current(h)')
  PROVE  ServerInv'
<1> USE DEF ServerInv, ServerTypeOK
<1> DEFINE j == Current(h)'
           n == Len(queue)
<1>1. j.hash = h /\ j.proxy = proxy'[h].number /\ j \in Calls
  <2>1. proxy'[h].number \in 0..MaxProxies /\ proxy'[h].calls \in 0..MaxCalls
    BY DEF Proxies
  <2>2. proxy'[h].number > 0 /\ proxy'[h].calls > 0
    BY DEF AliveHasCalled
  <2> QED
    BY <2>1, <2>2, ServerAssumption DEF Current, Calls
<1> HIDE DEF j
<1>2. /\ n \in Nat /\ DOMAIN queue = 1..n /\ DOMAIN queue' = 1..(n + 1)
      /\ \A i \in 1..n : queue'[i] = queue[i]
      /\ queue'[n + 1] = j
      /\ queue' \in Seq(Calls)
  <2>1. queue' = Append(queue, j)
    BY DEF j
  <2> QED
    BY <1>1, <2>1
<1>3. \A i \in 1..n : queue[i] \in Calls /\ queue[i].hash \in Hashes /\ queue[i].proxy \in Nat
  <2>1. \A i \in 1..n : queue[i] \in Calls
    BY <1>2, ElementOfSeq
  <2> QED
    BY <2>1, ServerAssumption DEF Calls
<1>4. \A k \in Hashes : proxy[k].number \in Nat /\ proxy'[k].number \in Nat
                        /\ proxy[k].number <= proxy'[k].number
  <2>1. \A k \in Hashes : proxy[k].number \in 0..MaxProxies /\ proxy'[k].number \in 0..MaxProxies
    BY DEF Proxies
  <2>2. \A k \in Hashes : proxy'[k].number \in {proxy[k].number, proxy[k].number + 1}
    OBVIOUS
  <2> QED
    BY <2>1, <2>2, ServerAssumption
<1>5. QueueOrdered'
  <2>1. \A i \in 1..n : queue[i].proxy <= proxy[queue[i].hash].number
    BY <1>2 DEF QueueOrdered
  <2>2. \A i \in 1..n : queue[i].proxy <= proxy'[queue[i].hash].number
    BY <1>3, <1>4, <2>1
  <2>3. \A i, k \in 1..n : i <= k /\ queue[i].hash = queue[k].hash =>
                           queue[i].proxy <= queue[k].proxy
    BY <1>2 DEF QueueOrdered
  <2>4. \A i \in 1..n : queue[i].hash = h => queue[i].proxy <= j.proxy
    BY <1>1, <2>2
  <2>5. \A i \in 1..n : queue[i].call = 1 =>
          /\ queue[i].proxy = proxy'[queue[i].hash].number
          /\ proxy'[queue[i].hash].pc # "gone"
    <3> SUFFICES ASSUME NEW i \in 1..n, queue[i].call = 1
                 PROVE  /\ queue[i].proxy = proxy'[queue[i].hash].number
                        /\ proxy'[queue[i].hash].pc # "gone"
      OBVIOUS
    <3>1. /\ queue[i].proxy = proxy[queue[i].hash].number
          /\ proxy[queue[i].hash].pc # "gone"
      BY <1>2 DEF QueueOrdered
    <3>2. CASE queue[i].hash = h
      BY <3>1, <3>2
    <3>3. CASE queue[i].hash # h
      BY <1>3, <3>1, <3>3
    <3> QED
      BY <3>2, <3>3
  <2>6. \A i \in 1..(n + 1) : i \in 1..n \/ i = n + 1
    BY <1>2
  <2>7. \A i \in 1..(n + 1) : queue'[i].proxy <= proxy'[queue'[i].hash].number
    BY <1>1, <1>2, <1>4, <2>2, <2>6
  <2>8. \A i, k \in 1..(n + 1) : i <= k /\ queue'[i].hash = queue'[k].hash =>
                                 queue'[i].proxy <= queue'[k].proxy
    BY <1>1, <1>2, <1>4, <2>3, <2>4, <2>6
  <2>9. \A i \in 1..(n + 1) : queue'[i].call = 1 =>
          /\ queue'[i].proxy = proxy'[queue'[i].hash].number
          /\ proxy'[queue'[i].hash].pc # "gone"
    BY <1>1, <1>2, <2>5, <2>6
  <2> QED
    BY <1>2, <2>7, <2>8, <2>9 DEF QueueOrdered
<1>6. KnownIsAlone'
  <2>1. \A k \in clients : proxy'[k].number = proxy[k].number /\ proxy'[k].pc # "gone"
    BY DEF KnownIsAlone
  <2>2. \A k \in clients : \A i \in 1..(n + 1) :
          queue'[i].hash = k => queue'[i].proxy = proxy'[k].number
    BY <1>1, <1>2, <2>1 DEF KnownIsAlone
  <2> QED
    BY <1>2, <2>1, <2>2 DEF KnownIsAlone
<1>7. ServedJob'
  BY DEF ServedJob
<1> QED
  BY <1>2, <1>5, <1>6, <1>7

LEMMA NewProxyStep ==
  ASSUME ServerInv, NEW h \in Hashes, NewProxy(h)
  PROVE  ServerInv'
<1> USE DEF ServerInv, ServerTypeOK
<1> DEFINE p == [Gone(proxy[h].number + 1) EXCEPT !.pc = "wait", !.calls = 1]
<1>1. /\ proxy' = [proxy EXCEPT ![h] = p]
      /\ proxy[h].pc = "gone" /\ MaxCalls > 0
      /\ proxy[h].number + 1 \in 0..MaxProxies /\ proxy[h].number \in Nat
      /\ queue' = Append(queue, Current(h)') /\ clients' = clients /\ serving' = serving
  BY ServerAssumption DEF NewProxy, Proxies
<1>2. /\ p \in Proxies /\ p.pc = "wait" /\ p.number = proxy[h].number + 1
      /\ p.calls = 1 /\ p.result = NoCall /\ p.got = NoCall
  <2> DEFINE g == Gone(proxy[h].number + 1)
  <2>1. g \in Proxies
    BY <1>1, GoneIsProxy
  <2>2. g.number = proxy[h].number + 1 /\ g.result = NoCall /\ g.got = NoCall
    BY DEF Gone
  <2>3. 1 \in 0..MaxCalls
    BY <1>1, ServerAssumption
  <2> HIDE DEF g
  <2>4. p = [g EXCEPT !.pc = "wait", !.calls = 1]
    BY DEF g
  <2> HIDE DEF p
  <2> QED
    BY <2>1, <2>2, <2>3, <2>4 DEF Proxies
<1> HIDE DEF p
<1>3. /\ proxy' \in [Hashes -> Proxies] /\ proxy'[h] = p
      /\ \A k \in Hashes \ {h} : proxy'[k] = proxy[k]
  BY <1>1, <1>2
<1>4. OwnResults' /\ AliveHasCalled'
  BY <1>1, <1>2, <1>3 DEF OwnResults, AliveHasCalled
<1> HIDE DEF ServerInv
<1> QED
  BY <1>1, <1>2, <1>3, <1>4, CallStep

LEMMA ExecuteStep ==
  ASSUME ServerInv, NEW h \in Hashes, Execute(h)
  PROVE  ServerInv'
<1> USE DEF ServerInv, ServerTypeOK
<1>1. /\ proxy' = [proxy EXCEPT ![h] =
                     [proxy[h] EXCEPT !.pc = "wait", !.calls = @ + 1, !.available = FALSE]]
      /\ proxy[h].calls \in Nat /\ proxy[h].calls + 1 \in 0..MaxCalls
      /\ proxy[h].pc = "ready"
      /\ queue' = Append(queue, Current(h)') /\ clients' = clients /\ serving' = serving
  <2>1. proxy[h].calls \in 0..MaxCalls
    BY DEF Proxies
  <2>2. proxy[h].calls < MaxCalls
    BY DEF Execute
  <2>3. proxy[h].calls \in Nat /\ proxy[h].calls + 1 \in 0..MaxCalls
    BY <2>1, <2>2, ServerAssumption
  <2> QED
    BY <2>3 DEF Execute
<1>2. /\ proxy' \in [Hashes -> Proxies]
      /\ \A k \in Hashes \ {h} : proxy'[k] = proxy[k]
      /\ proxy'[h].pc = "wait" /\ proxy'[h].number = proxy[h].number
      /\ proxy'[h].calls = proxy[h].calls + 1
      /\ proxy'[h].result = proxy[h].result /\ proxy'[h].got = proxy[h].got
  BY <1>1 DEF Proxies
<1>3. OwnResults' /\ AliveHasCalled'
  BY <1>1, <1>2 DEF OwnResults, AliveHasCalled
<1> HIDE DEF ServerInv
<1> QED
  BY <1>1, <1>2, <1>3, CallStep

(* A proxy goes when nothing on the queue refers to it, and it is unknown    *)
(* from then on.                                                             *)
LEMMA ForgetStep ==
  ASSUME ServerInv, NEW h \in Hashes, Forget(h)
  PROVE  ServerInv'
<1> USE DEF ServerInv, ServerTypeOK
<1>1. /\ proxy' = [proxy EXCEPT ![h] = Gone(proxy[h].number)]
      /\ clients' = clients \ {h} /\ queue' = queue /\ serving' = serving
      /\ ~Referred(h)
  BY DEF Forget
<1>2. /\ proxy' \in [Hashes -> Proxies]
      /\ \A k \in Hashes \ {h} : proxy'[k] = proxy[k]
      /\ proxy'[h] = Gone(proxy[h].number)
  <2>1. proxy[h].number \in 0..MaxProxies
    BY DEF Proxies
  <2> QED
    BY <1>1, <2>1, GoneIsProxy
<1>3. /\ proxy'[h].pc = "gone" /\ proxy'[h].number = proxy[h].number
      /\ proxy'[h].result = NoCall /\ proxy'[h].got = NoCall
  BY <1>2 DEF Gone
<1>4. \A k \in Hashes : proxy'[k].number = proxy[k].number
  BY <1>2, <1>3
<1>5. OwnResults' /\ AliveHasCalled'
  BY <1>2, <1>3 DEF OwnResults, AliveHasCalled
<1>6. \A i \in DOMAIN queue : queue[i].hash \in Hashes
  <2>1. \A i \in DOMAIN queue : queue[i] \in Calls
    BY ElementOfSeq
  <2> QED
    BY <2>1 DEF Calls
<1>7. \A i \in DOMAIN queue : queue[i].call = 1 => queue[i].hash # h
  BY <1>1 DEF Referred, QueueOrdered
<1>8. QueueOrdered'
  BY <1>1, <1>2, <1>4, <1>6, <1>7 DEF QueueOrdered
<1>9. KnownIsAlone' /\ ServedJob'
  BY <1>1, <1>2, <1>4 DEF KnownIsAlone, ServedJob
<1> QED
  BY <1>1, <1>2, <1>5, <1>8, <1>9

(* The head of the queue is the oldest call of its address.                  *)
LEMMA ServeStep ==
  ASSUME ServerInv, Serve
  PROVE  ServerInv'
<1> USE DEF ServerInv, ServerTypeOK
<1> DEFINE j == Head(queue)
           n == Len(queue)
<1>1. /\ queue # <<>> /\ n \in Nat /\ n > 0 /\ DOMAIN queue = 1..n
      /\ j = queue[1] /\ j \in Calls
      /\ queue' \in Seq(Calls) /\ DOMAIN queue' = 1..(n - 1)
      /\ \A i \in 1..(n - 1) : queue'[i] = queue[i + 1] /\ i + 1 \in 1..n
  BY HeadTailProperties DEF Serve
<1>2. /\ serving' = [pc |-> "done", job |-> j] /\ proxy' = proxy
      /\ clients' = IF j.call = 1 THEN clients \cup {j.hash} ELSE clients
  BY DEF Serve
<1> HIDE DEF j
<1>3. \A i \in 1..n : queue[i] \in Calls /\ queue[i].hash \in Hashes /\ queue[i].proxy \in Nat
  <2>1. \A i \in 1..n : queue[i] \in Calls
    BY <1>1, ElementOfSeq
  <2> QED
    BY <2>1, ServerAssumption DEF Calls
<1>4. \A h \in Hashes : proxy[h].number \in Nat
  BY ServerAssumption DEF Proxies
<1>5. ServerTypeOK'
  <2>1. clients' \subseteq Hashes
    BY <1>1, <1>2 DEF Calls
  <2> QED
    BY <1>1, <1>2, <2>1
<1>6. OwnResults' /\ AliveHasCalled' /\ ServedJob'
  BY <1>1, <1>2 DEF OwnResults, AliveHasCalled, ServedJob
<1>7. QueueOrdered'
  <2>1. \A i \in 1..(n - 1) : queue[i + 1].proxy <= proxy[queue[i + 1].hash].number
    BY <1>1 DEF QueueOrdered
  <2>2. \A i, k \in 1..(n - 1) : i <= k => i + 1 <= k + 1
    BY <1>1
  <2>3. \A i, k \in 1..(n - 1) : i <= k /\ queue[i + 1].hash = queue[k + 1].hash =>
                                 queue[i + 1].proxy <= queue[k + 1].proxy
    BY <1>1, <2>2 DEF QueueOrdered
  <2>4. \A i \in 1..(n - 1) : queue[i + 1].call = 1 =>
          /\ queue[i + 1].proxy = proxy[queue[i + 1].hash].number
          /\ proxy[queue[i + 1].hash].pc # "gone"
    BY <1>1 DEF QueueOrdered
  <2>5. \A i \in 1..(n - 1) : queue'[i].proxy <= proxy'[queue'[i].hash].number
    BY <1>1, <1>2, <2>1
  <2>6. \A i, k \in 1..(n - 1) : i <= k /\ queue'[i].hash = queue'[k].hash =>
                                 queue'[i].proxy <= queue'[k].proxy
    BY <1>1, <2>3
  <2>7. \A i \in 1..(n - 1) : queue'[i].call = 1 =>
          /\ queue'[i].proxy = proxy'[queue'[i].hash].number
          /\ proxy'[queue'[i].hash].pc # "gone"
    BY <1>1, <1>2, <2>4
  <2> HIDE DEF n
  <2> QED
    BY <1>1, <2>5, <2>6, <2>7 DEF QueueOrdered
<1>8. KnownIsAlone'
  <2>1. ASSUME NEW h \in clients
        PROVE  /\ proxy[h].pc # "gone"
               /\ \A i \in 1..n : queue[i].hash = h => queue[i].proxy = proxy[h].number
    BY <1>1 DEF KnownIsAlone
  <2>2. ASSUME j.call = 1
        PROVE  /\ proxy[j.hash].pc # "gone"
               /\ \A i \in 1..n : queue[i].hash = j.hash =>
                                  queue[i].proxy = proxy[j.hash].number
    <3>1. j.proxy = proxy[j.hash].number /\ proxy[j.hash].pc # "gone"
      BY <1>1, <2>2 DEF QueueOrdered
    <3>2. \A i \in 1..n : queue[i].hash = j.hash => j.proxy <= queue[i].proxy
      BY <1>1 DEF QueueOrdered
    <3>3. \A i \in 1..n : queue[i].hash = j.hash => queue[i].proxy <= proxy[j.hash].number
      BY <1>1 DEF QueueOrdered
    <3> QED
      BY <1>1, <1>3, <1>4, <3>1, <3>2, <3>3
  <2>3. ASSUME NEW h \in clients'
        PROVE  /\ proxy[h].pc # "gone"
               /\ \A i \in 1..n : queue[i].hash = h => queue[i].proxy = proxy[h].number
    BY <1>2, <2>1, <2>2
  <2>4. \A h \in clients' : \A i \in 1..(n - 1) :
          queue'[i].hash = h => queue'[i].proxy = proxy'[h].number
    BY <1>1, <1>2, <2>3
  <2>5. \A h \in clients' : j.hash = h => j.proxy = proxy'[h].number
    BY <1>1, <1>2, <2>3
  <2> HIDE DEF n
  <2> QED
    BY <1>1, <1>2, <2>3, <2>4, <2>5 DEF KnownIsAlone
<1> QED
  BY <1>5, <1>6, <1>7, <1>8

(* A result is written to a known proxy, whose own call it answers.          *)
LEMMA AnswerStep ==
  ASSUME ServerInv, WriteResult \/ SetAvailable
  PROVE  ServerInv'
<1> USE DEF ServerInv, ServerTypeOK
<1> DEFINE h == serving.job.hash
<1>1. serving.job \in Calls /\ h \in Hashes
  BY DEF ServedJob, WriteResult, SetAvailable, Calls
<1>2. /\ proxy' \in [Hashes -> Proxies] /\ clients' = clients /\ queue' = queue
      /\ \A k \in Hashes : /\ proxy'[k].number = proxy[k].number
                            /\ proxy'[k].calls = proxy[k].calls
                            /\ proxy'[k].pc = proxy[k].pc
                            /\ proxy'[k].got = proxy[k].got
                            /\ \/ proxy'[k].result = proxy[k].result
                               \/ k = h /\ h \in clients /\ proxy'[k].result = serving.job
  <2>1. CASE WriteResult /\ h \in clients
    <3>1. proxy' = [proxy EXCEPT ![h] = [proxy[h] EXCEPT !.result = serving.job]]
      BY <2>1 DEF WriteResult
    <3>2. [proxy[h] EXCEPT !.result = serving.job] \in Proxies
      <4>1. proxy[h] \in Proxies
        BY <1>1
      <4> HIDE DEF h
      <4> QED
        BY <1>1, <4>1 DEF Proxies
    <3>3. clients' = clients /\ queue' = queue
      BY <2>1 DEF WriteResult
    <3> HIDE DEF h
    <3> QED
      BY <1>1, <2>1, <3>1, <3>2, <3>3 DEF Proxies
  <2>2. CASE SetAvailable /\ h \in clients
    <3>1. proxy' = [proxy EXCEPT ![h] = [proxy[h] EXCEPT !.available = TRUE]]
      BY <2>2 DEF SetAvailable
    <3>2. [proxy[h] EXCEPT !.available = TRUE] \in Proxies
      <4>1. proxy[h] \in Proxies
        BY <1>1
      <4> HIDE DEF h
      <4> QED
        BY <4>1 DEF Proxies
    <3>3. clients' = clients /\ queue' = queue
      BY <2>2 DEF SetAvailable
    <3> HIDE DEF h
    <3> QED
      BY <1>1, <3>1, <3>2, <3>3 DEF Proxies
  <2>3. CASE h \notin clients
    <3>1. proxy' = proxy /\ clients' = clients /\ queue' = queue
      BY <2>3 DEF WriteResult, SetAvailable
    <3> QED
      BY <3>1
  <2> QED
    BY <2>1, <2>2, <2>3
<1>3. /\ serving' \in [pc : {"free", "done", "written"}, job : Calls \cup {NoCall}]
      /\ serving'.pc = "free" \/ serving'.job = serving.job
  BY DEF WriteResult, SetAvailable
<1>4. h \in clients => serving.job.proxy = proxy[h].number
  BY DEF KnownIsAlone, WriteResult, SetAvailable
<1> HIDE DEF h
<1>5. OwnResults'
  BY <1>2, <1>4 DEF OwnResults, h
<1>6. \A i \in DOMAIN queue : queue[i].hash \in Hashes
  <2>1. \A i \in DOMAIN queue : queue[i] \in Calls
    BY ElementOfSeq
  <2> QED
    BY <2>1 DEF Calls
<1>7. QueueOrdered'
  BY <1>2, <1>6 DEF QueueOrdered
<1>8. KnownIsAlone'
  <2>1. serving.pc # "free"
    BY DEF WriteResult, SetAvailable
  <2> QED
    BY <1>2, <1>3, <2>1 DEF KnownIsAlone
<1>9. AliveHasCalled' /\ ServedJob'
  BY <1>1, <1>2, <1>3 DEF AliveHasCalled, ServedJob
<1> QED
  BY <1>2, <1>3, <1>5, <1>7, <1>8, <1>9

-----------------------------------------------------------------------------
(* The inductive invariant.                                                  *)
THEOREM ServerInvariant == ServerSpec => []ServerInv
<1>1. ServerInit => ServerInv
  BY InitServerInv
<1>2. ServerInv /\ [ServerNext]_serverVars => ServerInv'
  <2> SUFFICES ASSUME ServerInv, [ServerNext]_serverVars
               PROVE  ServerInv'
    OBVIOUS
  <2>1. CASE ServerStep
    BY <2>1, ServeStep, AnswerStep DEF ServerStep
  <2>2. ASSUME NEW h \in Hashes,
               \/ NewProxy(h) \/ Execute(h) \/ Wake(h) \/ Timeout(h) \/ Read(h)
               \/ Reset(h) \/ Forget(h)
        PROVE  ServerInv'
    BY <2>2, NewProxyStep, ExecuteStep, ProxyStep, ForgetStep
  <2>3. CASE UNCHANGED serverVars
    BY <2>3 DEF serverVars, ServerInv, ServerTypeOK, OwnResults, QueueOrdered, KnownIsAlone,
                AliveHasCalled, ServedJob
  <2> QED
    BY <2>1, <2>2, <2>3 DEF ServerNext
<1> QED
  BY <1>1, <1>2, PTL DEF ServerSpec

(* The variables of the server are of their types.                           *)
THEOREM ServerTypes == ServerSpec => []ServerTypeOK
<1>1. ServerInv => ServerTypeOK
  BY DEF ServerInv
<1> QED
  BY <1>1, ServerInvariant, PTL

(* No call is given the answer to another proxy's call, whatever times out   *)
(* and whichever addresses are used again.                                   *)
THEOREM AnswersStayHome == ServerSpec => []NoForeignAnswer
<1>1. ServerInv => NoForeignAnswer
  BY DEF ServerInv, OwnResults, NoForeignAnswer
<1> QED
  BY <1>1, ServerInvariant, PTL

-----------------------------------------------------------------------------
(* The order of a proxy's answers.  The calls that are pending, queued or    *)
(* served, are newer than any answer that their proxy has been given, and    *)
(* as long as nothing has timed out at most the current one is pending.      *)
Alive(h) == proxy[h].pc # "gone"
Of(j, h) == j.hash = h /\ j.proxy = proxy[h].number
Serves(h) == serving.pc # "free" /\ Of(serving.job, h)
Newer(c, p) == c <= p.calls /\ c > p.last /\ c > p.result.call /\ c > p.got.call

ServedOrdered ==
  serving.pc # "free" => serving.job.proxy <= proxy[serving.job.hash].number

QueueRising ==
  \A i, k \in DOMAIN queue :
    i < k /\ queue[i].hash = queue[k].hash /\ queue[i].proxy = queue[k].proxy =>
      queue[i].call < queue[k].call

PendingNewer ==
  \A h \in Hashes : Alive(h) =>
    /\ \A i \in DOMAIN queue : Of(queue[i], h) => Newer(queue[i].call, proxy[h])
    /\ Serves(h) =>
         /\ serving.job.call <= proxy[h].calls
         /\ serving.pc = "done" => Newer(serving.job.call, proxy[h])
         /\ \A i \in DOMAIN queue : Of(queue[i], h) => serving.job.call < queue[i].call

AnswersRising ==
  \A h \in Hashes : Alive(h) =>
    /\ proxy[h].result # NoCall => proxy[h].result.call > proxy[h].last
    /\ proxy[h].got # NoCall => proxy[h].got.call > proxy[h].last
    /\ proxy[h].last <= proxy[h].calls
    /\ proxy[h].result.call <= proxy[h].calls
    /\ proxy[h].got.call <= proxy[h].calls

(* Nothing is pending for a proxy; or nothing but its current call.          *)
Settled(h) == ~Serves(h) /\ \A i \in DOMAIN queue : ~Of(queue[i], h)
Awaits(h) ==
  /\ \A i \in DOMAIN queue : Of(queue[i], h) => queue[i] = Current(h)
  /\ Serves(h) => serving.job = Current(h)
  /\ Serves(h) /\ serving.pc = "written" => proxy[h].result = Current(h)

InWait(h) == proxy[h].pc = "wait" /\ ~proxy[h].available

OnTime ==
  \A h \in Hashes : Alive(h) /\ ~proxy[h].late =>
    /\ InWait(h) => Awaits(h)
    /\ ~InWait(h) => Settled(h)
    /\ proxy[h].pc = "wait" /\ proxy[h].available => proxy[h].result = Current(h)
    /\ proxy[h].pc = "woken" => proxy[h].result = Current(h)
    /\ proxy[h].pc = "got" => proxy[h].got = Current(h)

AnswerInv ==
  ServedOrdered /\ QueueRising /\ PendingNewer /\ AnswersRising /\ OnTime

LEMMA InitAnswerInv ==
  ASSUME ServerInit
  PROVE  AnswerInv
<1> USE DEF ServerInit
<1>1. ServedOrdered /\ QueueRising
  BY DEF ServedOrdered, QueueRising
<1>2. \A h \in Hashes : ~Alive(h)
  BY DEF Alive, Gone
<1> QED
  BY <1>1, <1>2 DEF AnswerInv, PendingNewer, AnswersRising, OnTime

(* What is counted is a number.                                              *)
LEMMA Numbers ==
  ASSUME ServerInv
  PROVE  /\ \A h \in Hashes :
              /\ proxy[h].calls \in Nat /\ proxy[h].number \in Nat /\ proxy[h].last \in Nat
              /\ proxy[h].result.call \in Nat /\ proxy[h].got.call \in Nat
         /\ \A i \in DOMAIN queue :
              /\ queue[i] \in Calls /\ queue[i].hash \in Hashes
              /\ queue[i].proxy \in Nat /\ queue[i].call \in Nat
         /\ serving.pc # "free" =>
              /\ serving.job \in Calls /\ serving.job.hash \in Hashes
              /\ serving.job.proxy \in Nat /\ serving.job.call \in Nat
<1>1. \A j \in Calls : j.hash \in Hashes /\ j.proxy \in Nat /\ j.call \in Nat
  BY ServerAssumption DEF Calls
<1>2. NoCall.call \in Nat
  BY DEF NoCall
<1>3. ASSUME NEW h \in Hashes
      PROVE  /\ proxy[h].calls \in Nat /\ proxy[h].number \in Nat /\ proxy[h].last \in Nat
             /\ proxy[h].result.call \in Nat /\ proxy[h].got.call \in Nat
  <2>1. proxy[h] \in Proxies
    BY DEF ServerInv, ServerTypeOK
  <2>2. /\ proxy[h].calls \in 0..MaxCalls /\ proxy[h].number \in 0..MaxProxies
        /\ proxy[h].last \in 0..MaxCalls
        /\ proxy[h].result \in Calls \cup {NoCall} /\ proxy[h].got \in Calls \cup {NoCall}
    BY <2>1 DEF Proxies
  <2> QED
    BY <1>1, <1>2, <2>2, ServerAssumption
<1>4. \A i \in DOMAIN queue : queue[i] \in Calls
  BY ElementOfSeq DEF ServerInv, ServerTypeOK
<1>5. serving.pc # "free" => serving.job \in Calls
  BY DEF ServerInv, ServedJob
<1> QED
  BY <1>1, <1>3, <1>4, <1>5

(* A thread reads its proxy: an answer is not read twice, since the result   *)
(* is taken away, and what is pending is newer.                              *)
LEMMA ProxyAnswer ==
  ASSUME ServerInv, AnswerInv, NEW h \in Hashes,
         \/ Wake(h) \/ Timeout(h) \/ Read(h) \/ Reset(h)
  PROVE  AnswerInv'
<1> USE DEF AnswerInv
<1> DEFINE p == proxy[h]
           q == proxy'[h]
<1>1. clients' = clients /\ queue' = queue /\ serving' = serving
  BY DEF Wake, Timeout, Read, Reset
<1>2. /\ \A k \in Hashes \ {h} : proxy'[k] = proxy[k]
      /\ q.number = p.number /\ q.calls = p.calls /\ p.pc # "gone" /\ q.pc # "gone"
      /\ q.available = p.available
      /\ \/ p.pc = "wait" /\ q.pc = "woken" /\ p.available /\ q.late = p.late
            /\ q.result = p.result /\ q.got = p.got /\ q.last = p.last
         \/ p.pc = "wait" /\ q.pc = "woken" /\ q.late
            /\ q.result = p.result /\ q.got = p.got /\ q.last = p.last
         \/ p.pc = "woken" /\ q.pc = "got" /\ q.late = p.late
            /\ q.result = p.result /\ q.got = p.result /\ q.last = p.last
         \/ p.pc = "got" /\ q.pc = "ready" /\ q.late = p.late
            /\ q.result = NoCall /\ q.got = NoCall
            /\ q.last = LastAnswer(h)
  <2> USE DEF ServerInv, ServerTypeOK
  <2>1. CASE Wake(h)
    BY <2>1 DEF Wake, Proxies
  <2>2. CASE Timeout(h)
    BY <2>2 DEF Timeout, Proxies
  <2>3. CASE Read(h)
    BY <2>3 DEF Read, Proxies
  <2>4. CASE Reset(h)
    <3>1. proxy' = [proxy EXCEPT ![h] = [proxy[h] EXCEPT !.pc = "ready", !.last = LastAnswer(h),
                                           !.got = NoCall, !.result = NoCall]]
      BY <2>4 DEF Reset
    <3>2. p.pc = "got"
      BY <2>4 DEF Reset
    <3> QED
      BY <3>1, <3>2 DEF Proxies
  <2> QED
    BY <2>1, <2>2, <2>3, <2>4
<1>3. \A k \in Hashes : proxy'[k].number = proxy[k].number /\ (Alive(k)' <=> Alive(k))
  BY <1>2 DEF Alive
<1>4. /\ \A k \in Hashes : Serves(k)' <=> Serves(k)
      /\ \A k \in Hashes : \A i \in DOMAIN queue : Of(queue[i], k)' <=> Of(queue[i], k)
  BY <1>1, <1>3 DEF Serves, Of
<1>5. ServedOrdered' /\ QueueRising'
  BY <1>1, <1>3, Numbers DEF ServedOrdered, QueueRising
<1>6. \A c \in Nat : Newer(c, p) => Newer(c, q)
  <2>1. NoCall.call = 0
    BY DEF NoCall
  <2> QED
    BY <1>2, <2>1, Numbers DEF Newer, LastAnswer
<1>7. \A k \in Hashes \ {h} : \A c : Newer(c, proxy'[k]) <=> Newer(c, proxy[k])
  BY <1>2 DEF Newer
<1>8. PendingNewer'
  <2>1. \A k \in Hashes : \A c \in Nat : Newer(c, proxy[k]) => Newer(c, proxy'[k])
    BY <1>6, <1>7
  <2> SUFFICES ASSUME NEW k \in Hashes, Alive(k)
               PROVE  /\ \A i \in DOMAIN queue : Of(queue[i], k) => Newer(queue[i].call, proxy'[k])
                      /\ Serves(k) =>
                           /\ serving.job.call <= proxy'[k].calls
                           /\ serving.pc = "done" => Newer(serving.job.call, proxy'[k])
                           /\ \A i \in DOMAIN queue :
                                Of(queue[i], k) => serving.job.call < queue[i].call
    BY <1>1, <1>3, <1>4 DEF PendingNewer
  <2>2. \A i \in DOMAIN queue : Of(queue[i], k) => Newer(queue[i].call, proxy'[k])
    BY <2>1, Numbers DEF PendingNewer
  <2>3. Serves(k) /\ serving.pc = "done" => Newer(serving.job.call, proxy'[k])
    BY <2>1, Numbers DEF PendingNewer, Serves
  <2>4. proxy'[k].calls = proxy[k].calls
    BY <1>2
  <2> QED
    BY <2>2, <2>3, <2>4 DEF PendingNewer
<1>9. AnswersRising'
  <2>1. NoCall.call = 0
    BY DEF NoCall
  <2>2. /\ q.result # NoCall => q.result.call > q.last
        /\ q.got # NoCall => q.got.call > q.last
        /\ q.last <= q.calls /\ q.result.call <= q.calls /\ q.got.call <= q.calls
    BY <1>2, <2>1, Numbers DEF AnswersRising, Alive, LastAnswer
  <2>3. \A k \in Hashes \ {h} : Alive(k) =>
          /\ proxy'[k].result # NoCall => proxy'[k].result.call > proxy'[k].last
          /\ proxy'[k].got # NoCall => proxy'[k].got.call > proxy'[k].last
          /\ proxy'[k].last <= proxy'[k].calls /\ proxy'[k].result.call <= proxy'[k].calls
          /\ proxy'[k].got.call <= proxy'[k].calls
    BY <1>2 DEF AnswersRising
  <2> QED
    BY <1>3, <2>2, <2>3 DEF AnswersRising
<1>10. OnTime'
  <2>1. \A k \in Hashes : (Settled(k)' <=> Settled(k)) /\ Current(k)' = Current(k)
    BY <1>1, <1>2, <1>3, <1>4 DEF Settled, Current
  <2>2. \A k \in Hashes \ {h} : (Awaits(k)' <=> Awaits(k)) /\ (InWait(k)' <=> InWait(k))
    BY <1>1, <1>2, <1>4, <2>1 DEF Awaits, InWait
  <2>3. ~InWait(h)'
    BY <1>2 DEF InWait
  <2>4. ~q.late => /\ Settled(h)
                   /\ q.pc = "woken" => q.result = Current(h)
                   /\ q.pc = "got" => q.got = Current(h)
    BY <1>2 DEF OnTime, Alive, InWait
  <2>5. q.pc # "wait"
    BY <1>2
  <2>6. ASSUME NEW k \in Hashes, Alive(k)', ~proxy'[k].late
        PROVE  /\ InWait(k)' => Awaits(k)'
               /\ ~InWait(k)' => Settled(k)'
               /\ proxy'[k].pc = "wait" /\ proxy'[k].available =>
                    proxy'[k].result = Current(k)'
               /\ proxy'[k].pc = "woken" => proxy'[k].result = Current(k)'
               /\ proxy'[k].pc = "got" => proxy'[k].got = Current(k)'
    <3>1. CASE k = h
      BY <2>1, <2>3, <2>4, <2>5, <2>6, <3>1, Zenon
    <3>2. CASE k # h
      BY <1>2, <1>3, <2>1, <2>2, <2>6, <3>2 DEF OnTime
    <3> QED
      BY <3>1, <3>2
  <2> QED
    BY <2>6 DEF OnTime
<1> QED
  BY <1>5, <1>8, <1>9, <1>10

(* A call is queued: it is the newest of its proxy, and its only one if the  *)
(* proxy was ready and never late.                                           *)
LEMMA CallAnswer ==
  ASSUME ServerInv, AnswerInv, NEW h \in Hashes, NewProxy(h) \/ Execute(h)
  PROVE  AnswerInv'
<1> USE DEF AnswerInv
<1> DEFINE p == proxy[h]
           q == proxy'[h]
           j == Current(h)'
           n == Len(queue)
<1>1. /\ queue' = Append(queue, j) /\ clients' = clients /\ serving' = serving
      /\ \A k \in Hashes \ {h} : proxy'[k] = proxy[k]
      /\ q.pc = "wait" /\ ~q.available
      /\ \/ p.pc = "ready" /\ q.number = p.number /\ q.calls = p.calls + 1 /\ q.late = p.late
            /\ q.last = p.last /\ q.result = p.result /\ q.got = p.got
         \/ p.pc = "gone" /\ q.number = p.number + 1 /\ q.calls = 1
            /\ q.last = 0 /\ q.result = NoCall /\ q.got = NoCall
  <2> USE DEF ServerInv, ServerTypeOK
  <2>1. CASE Execute(h)
    <3>1. proxy' = [proxy EXCEPT ![h] = [proxy[h] EXCEPT !.pc = "wait", !.calls = @ + 1,
                                           !.available = FALSE]]
      BY <2>1 DEF Execute
    <3> QED
      BY <2>1, <3>1 DEF Execute, Proxies
  <2>2. CASE NewProxy(h)
    <3>1. proxy' = [proxy EXCEPT ![h] = [Gone(p.number + 1) EXCEPT !.pc = "wait", !.calls = 1]]
      BY <2>2 DEF NewProxy
    <3> QED
      BY <2>2, <3>1 DEF NewProxy, Gone
  <2> QED
    BY <2>1, <2>2
<1>2. j.hash = h /\ j.proxy = q.number /\ j.call = q.calls
  BY DEF Current
<1>3. /\ n \in Nat /\ DOMAIN queue = 1..n /\ DOMAIN queue' = 1..(n + 1)
      /\ \A i \in 1..n : queue'[i] = queue[i]
      /\ queue'[n + 1] = j
  BY <1>1 DEF ServerInv, ServerTypeOK
<1> HIDE DEF j, n
<1>4. \A i \in 1..n : queue[i].hash \in Hashes /\ queue[i].proxy \in Nat /\ queue[i].call \in Nat
  BY <1>3, Numbers
<1>5. p.number \in Nat /\ p.calls \in Nat /\ p.last \in Nat
      /\ p.result.call \in Nat /\ p.got.call \in Nat /\ NoCall.call = 0
  BY Numbers DEF NoCall
(* What was pending is of the same proxy, or of an earlier one. *)
<1>6. \A i \in 1..n : queue[i].hash = h /\ queue[i].proxy = q.number =>
        p.pc # "gone" /\ Newer(queue[i].call, p) /\ queue[i].call < q.calls
  <2> SUFFICES ASSUME NEW i \in 1..n, queue[i].hash = h, queue[i].proxy = q.number
               PROVE  p.pc # "gone" /\ Newer(queue[i].call, p) /\ queue[i].call < q.calls
    OBVIOUS
  <2>1. queue[i].proxy <= p.number
    BY <1>3 DEF ServerInv, QueueOrdered
  <2>2. p.pc = "ready" /\ q.number = p.number /\ q.calls = p.calls + 1
    BY <1>1, <1>4, <1>5, <2>1
  <2>3. Newer(queue[i].call, p)
    BY <1>3, <2>2 DEF PendingNewer, Alive, Of
  <2> QED
    BY <1>4, <1>5, <2>2, <2>3 DEF Newer
<1>7. serving.pc # "free" /\ serving.job.hash = h /\ serving.job.proxy = q.number =>
        /\ p.pc = "ready" /\ q.number = p.number
        /\ serving.job.call < q.calls
        /\ serving.pc = "done" => Newer(serving.job.call, p)
  <2> SUFFICES ASSUME serving.pc # "free", serving.job.hash = h, serving.job.proxy = q.number
               PROVE  /\ p.pc = "ready" /\ q.number = p.number
                      /\ serving.job.call < q.calls
                      /\ serving.pc = "done" => Newer(serving.job.call, p)
    OBVIOUS
  <2>1. serving.job.proxy <= p.number /\ serving.job.proxy \in Nat /\ serving.job.call \in Nat
    BY Numbers DEF ServedOrdered
  <2>2. p.pc = "ready" /\ q.number = p.number /\ q.calls = p.calls + 1
    BY <1>1, <1>5, <2>1
  <2>3. Alive(h) /\ Serves(h)
    BY <2>2 DEF Alive, Serves, Of
  <2>4. serving.pc = "done" => Newer(serving.job.call, p)
    BY <2>3 DEF PendingNewer
  <2>5. serving.job.call <= p.calls
    BY <2>3 DEF PendingNewer
  <2> QED
    BY <1>5, <2>1, <2>2, <2>4, <2>5
<1>8. ServedOrdered'
  <2>1. \A k \in Hashes : proxy[k].number \in Nat /\ proxy'[k].number \in Nat
                         /\ proxy[k].number <= proxy'[k].number
    BY <1>1, <1>5, Numbers
  <2> QED
    BY <1>1, <2>1, Numbers DEF ServedOrdered
<1>9. \A i \in 1..(n + 1) : i \in 1..n \/ i = n + 1
  BY <1>3
<1>10. QueueRising'
  <2>1. \A i, k \in 1..n :
          i < k /\ queue[i].hash = queue[k].hash /\ queue[i].proxy = queue[k].proxy =>
            queue[i].call < queue[k].call
    BY <1>3 DEF QueueRising
  <2>2. ASSUME NEW i \in 1..(n + 1), NEW k \in 1..(n + 1), i < k,
               queue'[i].hash = queue'[k].hash, queue'[i].proxy = queue'[k].proxy
        PROVE  queue'[i].call < queue'[k].call
    <3>1. i \in 1..n
      BY <1>3, <2>2
    <3>2. CASE k \in 1..n
      BY <1>3, <2>1, <2>2, <3>1, <3>2
    <3>3. CASE k = n + 1
      BY <1>2, <1>3, <1>6, <2>2, <3>1, <3>3
    <3> QED
      BY <1>9, <3>2, <3>3
  <2> QED
    BY <1>3, <2>2 DEF QueueRising
<1>11. ASSUME NEW k \in Hashes \ {h}
       PROVE  /\ proxy'[k] = proxy[k]
              /\ Alive(k)' <=> Alive(k)
              /\ Serves(k)' <=> Serves(k)
              /\ \A i \in 1..n : Of(queue[i], k)' <=> Of(queue[i], k)
  <2>1. proxy'[k] = proxy[k]
    BY <1>1
  <2>2. Alive(k)' <=> Alive(k)
    BY <2>1 DEF Alive
  <2>3. Serves(k)' <=> Serves(k)
    BY <1>1, <2>1 DEF Serves, Of
  <2>4. \A i \in 1..n : Of(queue[i], k)' <=> Of(queue[i], k)
    BY <1>3, <2>1 DEF Of
  <2> QED
    BY <2>1, <2>2, <2>3, <2>4
<1>12. \A k \in Hashes \ {h} : \A i \in 1..(n + 1) : Of(queue[i], k)' => i \in 1..n
  <2>1. \A k \in Hashes \ {h} : queue'[n + 1].hash # k
    BY <1>2, <1>3
  <2> QED
    BY <1>9, <2>1 DEF Of
<1>13. PendingNewer'
  <2>1. ASSUME NEW k \in Hashes \ {h}, Alive(k)'
        PROVE  /\ \A i \in 1..(n + 1) : Of(queue[i], k)' => Newer(queue'[i].call, proxy'[k])
               /\ Serves(k)' =>
                    /\ serving.job.call <= proxy'[k].calls
                    /\ serving.pc = "done" => Newer(serving.job.call, proxy'[k])
                    /\ \A i \in 1..(n + 1) : Of(queue[i], k)' => serving.job.call < queue'[i].call
    <3>1. /\ \A i \in 1..n : Of(queue[i], k)' => Newer(queue[i].call, proxy[k])
          /\ Serves(k)' =>
               /\ serving.job.call <= proxy[k].calls
               /\ serving.pc = "done" => Newer(serving.job.call, proxy[k])
               /\ \A i \in 1..n : Of(queue[i], k)' => serving.job.call < queue[i].call
      BY <1>3, <1>11, <2>1 DEF PendingNewer
    <3>2. proxy'[k] = proxy[k]
      BY <1>11
    <3> QED
      BY <1>3, <1>12, <3>1, <3>2
  <2>2. p.pc = "ready" => p.last <= p.calls /\ p.result.call <= p.calls /\ p.got.call <= p.calls
    BY DEF AnswersRising, Alive
  <2>3. \A c \in Nat : p.pc = "ready" /\ Newer(c, p) => Newer(c, q)
    BY <1>1, <1>5 DEF Newer
  <2>4. Newer(q.calls, q)
    <3>1. CASE p.pc = "ready"
      <4>1. /\ q.calls = p.calls + 1 /\ q.last = p.last
            /\ q.result.call = p.result.call /\ q.got.call = p.got.call
        BY <1>1, <3>1
      <4>2. p.last <= p.calls /\ p.result.call <= p.calls /\ p.got.call <= p.calls
        BY <2>2, <3>1
      <4> HIDE DEF p, q, AnswerInv
      <4> QED
        BY <1>5, <4>1, <4>2 DEF Newer
    <3>2. CASE p.pc = "gone"
      <4>1. /\ q.calls = 1 /\ q.last = 0 /\ q.result.call = 0 /\ q.got.call = 0
        BY <1>1, <1>5, <3>2
      <4> QED
        BY <4>1 DEF Newer
    <3> QED
      BY <1>1, <3>1, <3>2
  <2>5. \A i \in 1..n : Of(queue[i], h)' => queue[i].hash = h /\ queue[i].proxy = q.number
    BY <1>3 DEF Of
  <2>6. \A i \in 1..n : Of(queue[i], h)' => p.pc = "ready"
    BY <1>1, <1>6, <2>5
  <2>7. \A i \in 1..(n + 1) : Of(queue[i], h)' => Newer(queue'[i].call, q)
    BY <1>2, <1>3, <1>4, <1>6, <1>9, <2>3, <2>4, <2>5, <2>6
  <2>8. ASSUME Serves(h)'
        PROVE  /\ serving.job.call <= q.calls
               /\ serving.pc = "done" => Newer(serving.job.call, q)
               /\ \A i \in 1..(n + 1) : Of(queue[i], h)' => serving.job.call < queue'[i].call
    <3>1. serving.pc # "free" /\ serving.job.hash = h /\ serving.job.proxy = q.number
      BY <1>1, <2>8 DEF Serves, Of
    <3>2. serving.job.call \in Nat /\ q.calls \in Nat
      BY <1>1, <1>5, <3>1, Numbers
    <3>3. Alive(h) /\ Serves(h)
      BY <1>7, <3>1 DEF Alive, Serves, Of
    <3>4. \A i \in 1..n : Of(queue[i], h)' => Of(queue[i], h)
      BY <1>3, <1>7, <3>1 DEF Of
    <3>5. \A i \in 1..n : Of(queue[i], h)' => serving.job.call < queue[i].call
      BY <1>3, <3>3, <3>4 DEF PendingNewer
    <3>6. serving.job.call < q.calls
      BY <1>7, <3>1
    <3> QED
      BY <1>2, <1>3, <1>7, <1>9, <2>3, <3>1, <3>2, <3>5, <3>6
  <2>9. ASSUME NEW k \in Hashes, Alive(k)'
        PROVE  /\ \A i \in 1..(n + 1) : Of(queue[i], k)' => Newer(queue'[i].call, proxy'[k])
               /\ Serves(k)' =>
                    /\ serving.job.call <= proxy'[k].calls
                    /\ serving.pc = "done" => Newer(serving.job.call, proxy'[k])
                    /\ \A i \in 1..(n + 1) : Of(queue[i], k)' => serving.job.call < queue'[i].call
    BY <2>1, <2>7, <2>8, <2>9, Zenon
  <2> QED
    BY <1>1, <1>3, <2>9 DEF PendingNewer
<1>14. AnswersRising'
  <2>1. p.pc = "ready" =>
          /\ p.result # NoCall => p.result.call > p.last
          /\ p.got # NoCall => p.got.call > p.last
          /\ p.last <= p.calls /\ p.result.call <= p.calls /\ p.got.call <= p.calls
    BY DEF AnswersRising, Alive
  <2>2. /\ q.result # NoCall => q.result.call > q.last
        /\ q.got # NoCall => q.got.call > q.last
        /\ q.last <= q.calls /\ q.result.call <= q.calls /\ q.got.call <= q.calls
    <3>1. CASE p.pc = "ready"
      <4>1. /\ q.calls = p.calls + 1 /\ q.last = p.last
            /\ q.result = p.result /\ q.got = p.got
        BY <1>1, <3>1
      <4> HIDE DEF p, q
      <4>2. p.last <= q.calls /\ p.result.call <= q.calls /\ p.got.call <= q.calls
        BY <1>5, <2>1, <3>1, <4>1
      <4> QED
        BY <2>1, <3>1, <4>1, <4>2
    <3>2. CASE p.pc = "gone"
      <4>1. /\ q.calls = 1 /\ q.last = 0 /\ q.result.call = 0 /\ q.got.call = 0
            /\ q.result = NoCall /\ q.got = NoCall
        BY <1>1, <1>5, <3>2
      <4> QED
        BY <4>1
    <3> QED
      BY <1>1, <3>1, <3>2
  <2>3. ASSUME NEW k \in Hashes \ {h}, Alive(k)'
        PROVE  /\ proxy'[k].result # NoCall => proxy'[k].result.call > proxy'[k].last
               /\ proxy'[k].got # NoCall => proxy'[k].got.call > proxy'[k].last
               /\ proxy'[k].last <= proxy'[k].calls
               /\ proxy'[k].result.call <= proxy'[k].calls
               /\ proxy'[k].got.call <= proxy'[k].calls
    BY <1>11, <2>3 DEF AnswersRising
  <2> QED
    BY <2>2, <2>3 DEF AnswersRising
<1>15. OnTime'
  <2>1. InWait(h)'
    BY <1>1 DEF InWait
  <2>2. ASSUME ~q.late
        PROVE  Awaits(h)'
    <3>1. p.pc = "ready" => Settled(h)
      BY <1>1, <2>2 DEF OnTime, Alive, InWait
    <3>2. \A i \in 1..n : ~Of(queue[i], h)'
      <4> SUFFICES ASSUME NEW i \in 1..n, Of(queue[i], h)'
                   PROVE  FALSE
        OBVIOUS
      <4>1. queue[i].hash = h /\ queue[i].proxy = q.number
        BY <1>3 DEF Of
      <4>2. p.pc = "ready" /\ q.number = p.number
        BY <1>1, <1>6, <4>1
      <4> QED
        BY <1>3, <3>1, <4>1, <4>2 DEF Settled, Of
    <3>3. ~Serves(h)'
      BY <1>1, <1>7, <3>1 DEF Settled, Serves, Of
    <3>4. queue'[n + 1] = Current(h)'
      BY <1>3 DEF j
    <3> QED
      BY <1>3, <1>9, <3>2, <3>3, <3>4 DEF Awaits
  <2>3. ASSUME NEW k \in Hashes \ {h}
        PROVE  /\ InWait(k)' <=> InWait(k)
               /\ Awaits(k) => Awaits(k)'
               /\ Settled(k) => Settled(k)'
               /\ Current(k)' = Current(k)
    <3>1. Current(k)' = Current(k) /\ (InWait(k)' <=> InWait(k))
      BY <1>11 DEF Current, InWait
    <3>2. Serves(k)' <=> Serves(k)
      BY <1>11
    <3>3. \A i \in 1..(n + 1) : Of(queue[i], k)' =>
            i \in DOMAIN queue /\ Of(queue[i], k) /\ queue'[i] = queue[i]
      BY <1>3, <1>11, <1>12
    <3>4. Settled(k) => Settled(k)'
      BY <1>3, <3>2, <3>3 DEF Settled
    <3>5. Awaits(k) => Awaits(k)'
      <4>1. proxy'[k].result = proxy[k].result /\ serving' = serving
        BY <1>1, <1>11
      <4> QED
        BY <1>3, <3>1, <3>2, <3>3, <4>1 DEF Awaits
    <3> QED
      BY <3>1, <3>4, <3>5
  <2>4. ASSUME NEW k \in Hashes, Alive(k)', ~proxy'[k].late
        PROVE  /\ InWait(k)' => Awaits(k)'
               /\ ~InWait(k)' => Settled(k)'
               /\ proxy'[k].pc = "wait" /\ proxy'[k].available =>
                    proxy'[k].result = Current(k)'
               /\ proxy'[k].pc = "woken" => proxy'[k].result = Current(k)'
               /\ proxy'[k].pc = "got" => proxy'[k].got = Current(k)'
    <3>1. CASE k = h
      <4>1. q.pc # "woken" /\ q.pc # "got"
        BY <1>1
      <4> QED
        BY <1>1, <2>1, <2>2, <2>4, <3>1, <4>1, Zenon
    <3>2. CASE k # h
      <4>1. proxy'[k] = proxy[k]
        BY <1>1, <3>2
      <4>2. /\ InWait(k)' <=> InWait(k)
            /\ Awaits(k) => Awaits(k)'
            /\ Settled(k) => Settled(k)'
            /\ Current(k)' = Current(k)
            /\ Alive(k)
        BY <1>11, <2>3, <2>4, <3>2
      <4> QED
        BY <2>4, <4>1, <4>2 DEF OnTime
    <3> QED
      BY <3>1, <3>2
  <2> QED
    BY <2>4 DEF OnTime
<1> QED
  BY <1>8, <1>10, <1>13, <1>14, <1>15

(* Nothing is said of a proxy that is gone.                                  *)
LEMMA ForgetAnswer ==
  ASSUME ServerInv, AnswerInv, NEW h \in Hashes, Forget(h)
  PROVE  AnswerInv'
<1> USE DEF AnswerInv
<1>1. /\ queue' = queue /\ serving' = serving
      /\ \A k \in Hashes \ {h} : proxy'[k] = proxy[k]
      /\ proxy'[h].pc = "gone" /\ proxy'[h].number = proxy[h].number
  BY DEF Forget, ServerInv, ServerTypeOK, Gone
<1>2. ServedOrdered' /\ QueueRising'
  BY <1>1, Numbers DEF ServedOrdered, QueueRising
<1>3. ~Alive(h)'
  BY <1>1 DEF Alive
<1>4. ASSUME NEW k \in Hashes \ {h}
      PROVE  /\ proxy'[k] = proxy[k]
             /\ Alive(k)' <=> Alive(k)
             /\ Serves(k)' <=> Serves(k)
             /\ \A i \in DOMAIN queue : Of(queue[i], k)' <=> Of(queue[i], k)
  BY <1>1 DEF Alive, Serves, Of
<1>5. PendingNewer'
  <2> SUFFICES ASSUME NEW k \in Hashes \ {h}, Alive(k)
               PROVE  /\ \A i \in DOMAIN queue : Of(queue[i], k) => Newer(queue[i].call, proxy[k])
                      /\ Serves(k) =>
                           /\ serving.job.call <= proxy[k].calls
                           /\ serving.pc = "done" => Newer(serving.job.call, proxy[k])
                           /\ \A i \in DOMAIN queue :
                                Of(queue[i], k) => serving.job.call < queue[i].call
    BY <1>1, <1>3, <1>4 DEF PendingNewer
  <2> QED
    BY DEF PendingNewer
<1>6. AnswersRising'
  BY <1>3, <1>4 DEF AnswersRising
<1>7. OnTime'
  <2>1. ASSUME NEW k \in Hashes \ {h}
        PROVE  /\ Settled(k)' <=> Settled(k)
               /\ Awaits(k)' <=> Awaits(k)
               /\ InWait(k)' <=> InWait(k)
               /\ Current(k)' = Current(k)
    <3>1. Current(k)' = Current(k) /\ (InWait(k)' <=> InWait(k))
      BY <1>4 DEF Current, InWait
    <3>2. Settled(k)' <=> Settled(k)
      BY <1>1, <1>4 DEF Settled
    <3>3. Awaits(k)' <=> Awaits(k)
      BY <1>1, <1>4, <3>1 DEF Awaits
    <3> QED
      BY <3>1, <3>2, <3>3
  <2> QED
    BY <1>3, <1>4, <2>1 DEF OnTime
<1> QED
  BY <1>2, <1>5, <1>6, <1>7

(* The server takes the oldest call.                                         *)
LEMMA ServeAnswer ==
  ASSUME ServerInv, AnswerInv, Serve
  PROVE  AnswerInv'
<1> USE DEF AnswerInv
<1> DEFINE j == Head(queue)
           n == Len(queue)
<1>1. /\ n \in Nat /\ n > 0 /\ DOMAIN queue = 1..n /\ DOMAIN queue' = 1..(n - 1)
      /\ j = queue[1] /\ 1 \in 1..n
      /\ \A i \in 1..(n - 1) : queue'[i] = queue[i + 1] /\ i + 1 \in 1..n
  BY HeadTailProperties DEF Serve, ServerInv, ServerTypeOK
<1>2. serving.pc = "free" /\ serving' = [pc |-> "done", job |-> j] /\ proxy' = proxy
  BY DEF Serve
<1> HIDE DEF j, n
<1>3. \A i \in 1..n : /\ queue[i].hash \in Hashes
                      /\ queue[i].proxy \in Nat /\ queue[i].call \in Nat
  BY <1>1, Numbers
<1>4. ServedOrdered'
  BY <1>1, <1>2 DEF ServedOrdered, ServerInv, QueueOrdered
<1>5. QueueRising'
  <2>1. \A i, k \in 1..(n - 1) : i < k => i + 1 < k + 1
    BY <1>1
  <2>2. \A i, k \in 1..(n - 1) :
          i < k /\ queue[i + 1].hash = queue[k + 1].hash
                /\ queue[i + 1].proxy = queue[k + 1].proxy =>
            queue[i + 1].call < queue[k + 1].call
    BY <1>1, <2>1 DEF QueueRising
  <2> QED
    BY <1>1, <2>2 DEF QueueRising
<1>6. ASSUME NEW k \in Hashes
      PROVE  /\ Alive(k)' <=> Alive(k)
             /\ ~Serves(k)
             /\ Serves(k)' <=> Of(queue[1], k)
             /\ \A i \in 1..(n - 1) : Of(queue[i], k)' <=> Of(queue[i + 1], k)
  BY <1>1, <1>2 DEF Alive, Serves, Of
<1>7. PendingNewer'
  <2>1. ASSUME NEW k \in Hashes, Alive(k)
        PROVE  \A i \in 1..n : Of(queue[i], k) =>
                 Newer(queue[i].call, proxy[k]) /\ queue[i].call <= proxy[k].calls
    BY <1>1, <2>1 DEF PendingNewer, Newer
  <2>2. ASSUME NEW k \in Hashes, Of(queue[1], k)
        PROVE  \A i \in 1..(n - 1) : Of(queue[i + 1], k) => queue[1].call < queue[i + 1].call
    <3>1. \A i \in 1..(n - 1) : 1 < i + 1
      BY <1>1
    <3> QED
      BY <1>1, <2>2, <3>1 DEF QueueRising, Of
  <2> SUFFICES ASSUME NEW k \in Hashes, Alive(k)
               PROVE  /\ \A i \in 1..(n - 1) : Of(queue[i + 1], k) =>
                           Newer(queue[i + 1].call, proxy[k])
                      /\ Of(queue[1], k) =>
                           /\ queue[1].call <= proxy[k].calls
                           /\ Newer(queue[1].call, proxy[k])
                           /\ \A i \in 1..(n - 1) :
                                Of(queue[i + 1], k) => queue[1].call < queue[i + 1].call
    BY <1>1, <1>2, <1>6 DEF PendingNewer
  <2> QED
    BY <1>1, <2>1, <2>2
<1>8. AnswersRising'
  BY <1>2, <1>6 DEF AnswersRising
<1>9. OnTime'
  <2>1. ASSUME NEW k \in Hashes
        PROVE  /\ Settled(k) => Settled(k)'
               /\ Awaits(k) => Awaits(k)'
               /\ InWait(k)' <=> InWait(k)
               /\ Current(k)' = Current(k)
    <3>1. Current(k)' = Current(k) /\ (InWait(k)' <=> InWait(k))
      BY <1>2 DEF Current, InWait
    <3>2. Settled(k) => Settled(k)'
      BY <1>1, <1>6 DEF Settled
    <3>3. Awaits(k) => Awaits(k)'
      BY <1>1, <1>2, <1>6, <3>1 DEF Awaits
    <3> QED
      BY <3>1, <3>2, <3>3
  <2> QED
    BY <1>2, <1>6, <2>1 DEF OnTime
<1> QED
  BY <1>4, <1>5, <1>7, <1>8, <1>9

(* A proxy that is known is given the answer to a call of its own, which is  *)
(* newer than what it has been given and older than what is queued.          *)
LEMMA WriteAnswer ==
  ASSUME ServerInv, AnswerInv, WriteResult, NEW h \in Hashes, h = serving.job.hash
  PROVE  AnswerInv'
<1> USE DEF AnswerInv
<1>1. serving.pc = "done" /\ queue' = queue /\ h \in Hashes /\ serving.job.call \in Nat
  BY Numbers DEF WriteResult
<1>2. CASE h \notin clients
  <2>1. proxy' = proxy /\ serving'.pc = "free"
    BY <1>2 DEF WriteResult
  <2>2. ASSUME NEW k \in Hashes
        PROVE  /\ Alive(k)' <=> Alive(k)
               /\ ~Serves(k)'
               /\ \A i \in DOMAIN queue : Of(queue[i], k)' <=> Of(queue[i], k)
    BY <1>1, <2>1 DEF Alive, Serves, Of
  <2>3. ServedOrdered' /\ QueueRising' /\ AnswersRising'
    BY <1>1, <2>1, <2>2 DEF ServedOrdered, QueueRising, AnswersRising
  <2>4. PendingNewer'
    <3> SUFFICES ASSUME NEW k \in Hashes, Alive(k)
                 PROVE  \A i \in DOMAIN queue : Of(queue[i], k) => Newer(queue[i].call, proxy[k])
      BY <1>1, <2>1, <2>2 DEF PendingNewer
    <3> QED
      BY DEF PendingNewer
  <2>5. ASSUME NEW k \in Hashes
        PROVE  /\ Settled(k) => Settled(k)'
               /\ Awaits(k) => Awaits(k)'
               /\ InWait(k)' <=> InWait(k)
               /\ Current(k)' = Current(k)
    BY <1>1, <2>1, <2>2 DEF Settled, Awaits, InWait, Current
  <2>6. OnTime'
    BY <2>1, <2>2, <2>5 DEF OnTime
  <2> QED
    BY <2>3, <2>4, <2>6
<1>3. CASE h \in clients
  <2>1. /\ serving'.pc = "written" /\ serving'.job = serving.job
        /\ \A k \in Hashes \ {h} : proxy'[k] = proxy[k]
        /\ proxy'[h] = [proxy[h] EXCEPT !.result = serving.job]
    BY <1>1, <1>3 DEF WriteResult, ServerInv, ServerTypeOK
  <2>2. serving.job.proxy = proxy[h].number /\ proxy[h].pc # "gone"
    BY <1>1, <1>3 DEF ServerInv, KnownIsAlone
  <2>3. Alive(h) /\ Serves(h)
    BY <1>1, <2>2 DEF Alive, Serves, Of
  <2>4. /\ proxy'[h].result = serving.job
        /\ proxy'[h].pc = proxy[h].pc /\ proxy'[h].number = proxy[h].number
        /\ proxy'[h].calls = proxy[h].calls /\ proxy'[h].last = proxy[h].last
        /\ proxy'[h].got = proxy[h].got /\ proxy'[h].available = proxy[h].available
        /\ proxy'[h].late = proxy[h].late
    <3>1. proxy[h] \in Proxies
      BY <1>1 DEF ServerInv, ServerTypeOK
    <3> QED
      BY <2>1, <3>1 DEF Proxies
  <2>5. ASSUME NEW k \in Hashes
        PROVE  /\ proxy'[k].number = proxy[k].number /\ proxy'[k].calls = proxy[k].calls
               /\ Alive(k)' <=> Alive(k)
               /\ Serves(k)' <=> Serves(k)
               /\ InWait(k)' <=> InWait(k)
               /\ Current(k)' = Current(k)
               /\ \A i \in DOMAIN queue : Of(queue[i], k)' <=> Of(queue[i], k)
    <3>1. /\ proxy'[k].number = proxy[k].number /\ proxy'[k].calls = proxy[k].calls
          /\ proxy'[k].pc = proxy[k].pc /\ proxy'[k].available = proxy[k].available
      BY <2>1, <2>4
    <3> QED
      BY <1>1, <2>1, <3>1 DEF Alive, Serves, InWait, Current, Of
  <2>6. \A k \in Hashes \ {h} : ~Serves(k)
    BY DEF Serves, Of
  <2>7. ServedOrdered' /\ QueueRising'
    <3>1. \A k \in Hashes : proxy'[k].number = proxy[k].number
      BY <2>5
    <3> QED
      BY <1>1, <2>1, <3>1 DEF ServedOrdered, QueueRising
  <2>8. Newer(serving.job.call, proxy[h])
    BY <1>1, <2>3 DEF PendingNewer
  <2>9. PendingNewer'
    <3>1. ASSUME NEW i \in DOMAIN queue, Of(queue[i], h)
          PROVE  Newer(queue[i].call, proxy'[h])
      <4>1. Newer(queue[i].call, proxy[h]) /\ serving.job.call < queue[i].call
        BY <2>3, <3>1 DEF PendingNewer
      <4> QED
        BY <2>4, <4>1 DEF Newer
    <3>2. ASSUME NEW k \in Hashes, Alive(k), NEW i \in DOMAIN queue, Of(queue[i], k)
          PROVE  Newer(queue[i].call, proxy'[k])
      <4>1. CASE k = h
        BY <3>1, <3>2, <4>1
      <4>2. CASE k # h
        BY <2>1, <3>2, <4>2 DEF PendingNewer
      <4> QED
        BY <4>1, <4>2
    <3>3. ASSUME NEW k \in Hashes, Alive(k), Serves(k)
          PROVE  /\ serving.job.call <= proxy'[k].calls
                 /\ \A i \in DOMAIN queue : Of(queue[i], k) => serving.job.call < queue[i].call
      BY <2>5, <3>3 DEF PendingNewer
    <3> QED
      BY <1>1, <2>1, <2>5, <3>2, <3>3 DEF PendingNewer
  <2>10. AnswersRising'
    <3>1. serving.job.call > proxy[h].last /\ serving.job.call <= proxy[h].calls
      BY <2>8 DEF Newer
    <3>2. /\ proxy[h].got # NoCall => proxy[h].got.call > proxy[h].last
          /\ proxy[h].last <= proxy[h].calls /\ proxy[h].got.call <= proxy[h].calls
      BY <1>1, <2>3 DEF AnswersRising
    <3>3. ASSUME NEW k \in Hashes, Alive(k), k # h
          PROVE  /\ proxy'[k].result # NoCall => proxy'[k].result.call > proxy'[k].last
                 /\ proxy'[k].got # NoCall => proxy'[k].got.call > proxy'[k].last
                 /\ proxy'[k].last <= proxy'[k].calls
                 /\ proxy'[k].result.call <= proxy'[k].calls
                 /\ proxy'[k].got.call <= proxy'[k].calls
      BY <2>1, <3>3 DEF AnswersRising
    <3> QED
      BY <2>4, <2>5, <3>1, <3>2, <3>3 DEF AnswersRising
  <2>11. ASSUME ~proxy[h].late
         PROVE  InWait(h) /\ serving.job = Current(h) /\ Awaits(h)
    BY <1>1, <2>3, <2>11 DEF OnTime, Settled, Awaits
  <2>12. OnTime'
    <3>1. ASSUME ~proxy[h].late
          PROVE  InWait(h)' /\ Awaits(h)'
      BY <1>1, <2>1, <2>4, <2>5, <2>11, <3>1 DEF Awaits
    <3>2. ASSUME NEW k \in Hashes, k # h
          PROVE  /\ Settled(k) => Settled(k)'
                 /\ Awaits(k) => Awaits(k)'
      BY <1>1, <2>1, <2>5, <2>6, <3>2 DEF Settled, Awaits
    <3>3. ASSUME NEW k \in Hashes, k # h, Alive(k)', ~proxy'[k].late
          PROVE  /\ InWait(k)' => Awaits(k)'
                 /\ ~InWait(k)' => Settled(k)'
                 /\ proxy'[k].pc = "wait" /\ proxy'[k].available =>
                      proxy'[k].result = Current(k)'
                 /\ proxy'[k].pc = "woken" => proxy'[k].result = Current(k)'
                 /\ proxy'[k].pc = "got" => proxy'[k].got = Current(k)'
      BY <2>1, <2>5, <3>2, <3>3 DEF OnTime
    <3>4. ASSUME ~proxy'[h].late
          PROVE  InWait(h)' /\ Awaits(h)' /\ proxy'[h].pc = "wait" /\ ~proxy'[h].available
      BY <2>4, <3>1, <3>4 DEF InWait
    <3> QED
      BY <3>3, <3>4 DEF OnTime
  <2> QED
    BY <2>7, <2>9, <2>10, <2>12
<1> QED
  BY <1>2, <1>3

(* A proxy that is woken, and was not late, has the answer it waits for.     *)
LEMMA SetAnswer ==
  ASSUME ServerInv, AnswerInv, SetAvailable, NEW h \in Hashes, h = serving.job.hash
  PROVE  AnswerInv'
<1> USE DEF AnswerInv
<1>1. serving.pc = "written" /\ serving'.pc = "free" /\ queue' = queue /\ h \in Hashes
  BY Numbers DEF SetAvailable
<1>2. /\ \A k \in Hashes \ {h} : proxy'[k] = proxy[k]
      /\ proxy'[h].pc = proxy[h].pc /\ proxy'[h].number = proxy[h].number
      /\ proxy'[h].calls = proxy[h].calls /\ proxy'[h].last = proxy[h].last
      /\ proxy'[h].result = proxy[h].result
      /\ proxy'[h].got = proxy[h].got /\ proxy'[h].late = proxy[h].late
      /\ h \in clients => proxy'[h].available
      /\ h \notin clients => proxy'[h].available = proxy[h].available
  <2>1. proxy[h] \in Proxies
    BY <1>1 DEF ServerInv, ServerTypeOK
  <2>2. proxy' = IF h \in clients
                 THEN [proxy EXCEPT ![h] = [proxy[h] EXCEPT !.available = TRUE]] ELSE proxy
    BY DEF SetAvailable
  <2> QED
    BY <1>1, <2>1, <2>2 DEF ServerInv, ServerTypeOK, Proxies
<1>3. h \in clients => serving.job.proxy = proxy[h].number /\ proxy[h].pc # "gone"
  BY <1>1 DEF ServerInv, KnownIsAlone
<1>4. h \in clients => Serves(h) /\ Alive(h)
  BY <1>1, <1>3 DEF Serves, Alive, Of
<1>5. \A k \in Hashes \ {h} : ~Serves(k)
  BY DEF Serves, Of
<1>6. ASSUME NEW k \in Hashes
      PROVE  /\ proxy'[k].number = proxy[k].number /\ proxy'[k].calls = proxy[k].calls
             /\ proxy'[k].pc = proxy[k].pc /\ proxy'[k].last = proxy[k].last
             /\ proxy'[k].result = proxy[k].result /\ proxy'[k].got = proxy[k].got
             /\ proxy'[k].late = proxy[k].late
  BY <1>2
<1>7. ASSUME NEW k \in Hashes
      PROVE  /\ Alive(k)' <=> Alive(k)
             /\ ~Serves(k)'
             /\ Current(k)' = Current(k)
             /\ \A i \in DOMAIN queue : Of(queue[i], k)' <=> Of(queue[i], k)
  BY <1>1, <1>6 DEF Alive, Serves, Current, Of
<1>8. ServedOrdered' /\ QueueRising'
  BY <1>1 DEF ServedOrdered, QueueRising
<1>9. AnswersRising'
  BY <1>6, <1>7 DEF AnswersRising
<1>10. PendingNewer'
  <2>1. ASSUME NEW k \in Hashes, Alive(k), NEW i \in DOMAIN queue, Of(queue[i], k)
        PROVE  Newer(queue[i].call, proxy'[k])
    BY <1>6, <2>1 DEF PendingNewer, Newer
  <2> QED
    BY <1>1, <1>7, <2>1 DEF PendingNewer
<1>11. OnTime'
  <2>1. ASSUME NEW k \in Hashes
        PROVE  /\ Settled(k) => Settled(k)'
               /\ Awaits(k) => Awaits(k)'
    BY <1>1, <1>6, <1>7 DEF Settled, Awaits
  <2>2. ASSUME h \in clients, ~proxy[h].late
        PROVE  /\ proxy[h].pc = "wait" /\ proxy'[h].available
               /\ proxy'[h].result = Current(h)'
               /\ Settled(h)'
    <3>1. InWait(h) /\ Awaits(h)
      BY <1>1, <1>4, <2>2 DEF OnTime, Settled
    <3>2. proxy[h].result = Current(h) /\ serving.job = Current(h)
      BY <1>1, <1>4, <2>2, <3>1 DEF Awaits
    <3>3. \A i \in DOMAIN queue : ~Of(queue[i], h)
      <4>1. \A i \in DOMAIN queue : Of(queue[i], h) => serving.job.call < queue[i].call
        BY <1>1, <1>4, <2>2 DEF PendingNewer
      <4>2. \A i \in DOMAIN queue : Of(queue[i], h) => queue[i] = serving.job
        BY <3>1, <3>2 DEF Awaits
      <4>3. serving.job.call \in Nat
        BY <1>1, Numbers
      <4> QED
        BY <4>1, <4>2, <4>3
    <3>4. Settled(h)'
      BY <1>1, <1>7, <3>3 DEF Settled
    <3> QED
      BY <1>1, <1>2, <1>6, <1>7, <2>2, <3>1, <3>2, <3>4 DEF InWait
  <2>3. ASSUME NEW k \in Hashes, Alive(k)', ~proxy'[k].late
        PROVE  /\ InWait(k)' => Awaits(k)'
               /\ ~InWait(k)' => Settled(k)'
               /\ proxy'[k].pc = "wait" /\ proxy'[k].available =>
                    proxy'[k].result = Current(k)'
               /\ proxy'[k].pc = "woken" => proxy'[k].result = Current(k)'
               /\ proxy'[k].pc = "got" => proxy'[k].got = Current(k)'
    <3>1. CASE k = h /\ h \in clients
      <4>1. ~proxy[h].late
        BY <1>6, <2>3, <3>1
      <4>2. proxy'[h].pc = "wait" /\ proxy'[h].available
        BY <1>6, <2>2, <3>1, <4>1
      <4>3. ~InWait(h)'
        BY <4>2 DEF InWait
      <4>4. Settled(h)' /\ proxy'[h].result = Current(h)'
        BY <2>2, <3>1, <4>1
      <4>5. proxy'[h].pc # "woken" /\ proxy'[h].pc # "got"
        BY <4>2
      <4> QED
        BY <3>1, <4>3, <4>4, <4>5, Zenon
    <3>2. CASE ~(k = h /\ h \in clients)
      <4>1. proxy'[k].available = proxy[k].available
        BY <1>2, <3>2
      <4>2. InWait(k)' <=> InWait(k)
        BY <1>6, <4>1 DEF InWait
      <4> QED
        BY <1>6, <1>7, <2>1, <2>3, <4>1, <4>2 DEF OnTime
    <3> QED
      BY <3>1, <3>2
  <2> QED
    BY <2>3 DEF OnTime
<1> QED
  BY <1>8, <1>9, <1>10, <1>11

(* The order of pending calls and answers is kept by every step.             *)
THEOREM AnswerInvariant == ServerSpec => []AnswerInv
<1>1. ServerInit => AnswerInv
  BY InitAnswerInv
<1>2. ServerInv /\ AnswerInv /\ [ServerNext]_serverVars => AnswerInv'
  <2> SUFFICES ASSUME ServerInv, AnswerInv, [ServerNext]_serverVars
               PROVE  AnswerInv'
    OBVIOUS
  <2>1. CASE ServerStep
    <3>1. WriteResult \/ SetAvailable => serving.job.hash \in Hashes
      BY Numbers DEF WriteResult, SetAvailable
    <3> QED
      BY <2>1, <3>1, ServeAnswer, WriteAnswer, SetAnswer DEF ServerStep
  <2>2. ASSUME NEW h \in Hashes,
               \/ NewProxy(h) \/ Execute(h) \/ Wake(h) \/ Timeout(h) \/ Read(h)
               \/ Reset(h) \/ Forget(h)
        PROVE  AnswerInv'
    BY <2>2, CallAnswer, ProxyAnswer, ForgetAnswer
  <2>3. CASE UNCHANGED serverVars
    BY <2>3 DEF serverVars, AnswerInv, ServedOrdered, QueueRising, PendingNewer, AnswersRising,
                OnTime, Alive, Of, Serves, Newer, Settled, Awaits, InWait, Current
  <2> QED
    BY <2>1, <2>2, <2>3 DEF ServerNext
<1> QED
  BY <1>1, <1>2, ServerInvariant, PTL DEF ServerSpec

(* A call of a proxy that has never timed out is given its own answer.       *)
THEOREM OwnAnswerGiven == ServerSpec => []OwnAnswer
<1>1. AnswerInv => OwnAnswer
  BY DEF AnswerInv, OnTime, OwnAnswer, Alive
<1> QED
  BY <1>1, AnswerInvariant, PTL

(* No answer is returned twice or after a later one, even after timeouts,    *)
(* when a proxy can be given the answer to an earlier call.                  *)
THEOREM AnswersGivenInOrder == ServerSpec => []AnswersInOrder
<1>1. AnswerInv => AnswersInOrder
  BY DEF AnswerInv, AnswersRising, AnswersInOrder, Alive
<1> QED
  BY <1>1, AnswerInvariant, PTL

-----------------------------------------------------------------------------
(* No call is lost.                                                         *)

(* A proxy is known to the server, or the call that makes it known is       *)
(* queued, before all others of it.                                         *)
ComesToBeKnown ==
  \A h \in Hashes : Alive(h) =>
    h \in clients \/ \E i \in DOMAIN queue : Of(queue[i], h) /\ queue[i].call = 1

(* Who waits and was not woken has his call on the queue, or it is being    *)
(* served and the server will find him.                                     *)
CallKept ==
  \A h \in Hashes : InWait(h) =>
    \/ \E i \in DOMAIN queue : queue[i] = Current(h)
    \/ serving.pc # "free" /\ serving.job = Current(h) /\ h \in clients

(* A step of a thread that takes nothing off the queue: a proxy it leaves   *)
(* alone is as it was, and its own call, if it makes one, is queued.        *)
LEMMA ThreadKeeps ==
  ASSUME ServerInv, ComesToBeKnown, CallKept, NEW h \in Hashes,
         \/ NewProxy(h) \/ Execute(h) \/ Wake(h) \/ Timeout(h) \/ Read(h) \/ Reset(h)
         \/ Forget(h)
  PROVE  ComesToBeKnown' /\ CallKept'
<1>1. /\ serving' = serving
      /\ \A k \in Hashes \ {h} : /\ proxy'[k] = proxy[k] /\ Current(k)' = Current(k)
                                 /\ k \in clients' <=> k \in clients
  BY DEF NewProxy, Execute, Wake, Timeout, Read, Reset, Forget, Current, ServerInv, ServerTypeOK
<1>2. \A i \in DOMAIN queue : i \in DOMAIN queue' /\ queue'[i] = queue[i]
  <2>1. CASE queue' = queue
    BY <2>1
  <2>2. CASE queue' = Append(queue, Current(h)')
    BY <2>2 DEF ServerInv, ServerTypeOK
  <2> QED
    BY <2>1, <2>2 DEF NewProxy, Execute, Wake, Timeout, Read, Reset, Forget
<1>3. NewProxy(h) \/ Execute(h) => \E i \in DOMAIN queue' : queue'[i] = Current(h)'
  <2> SUFFICES ASSUME queue' = Append(queue, Current(h)')
               PROVE  \E i \in DOMAIN queue' : queue'[i] = Current(h)'
    BY DEF NewProxy, Execute
  <2> DEFINE j == Current(h)'
  <2>1. queue' = Append(queue, j) /\ queue \in Seq(Calls)
    BY DEF ServerInv, ServerTypeOK
  <2> HIDE DEF j
  <2>2. Len(queue) + 1 \in DOMAIN queue' /\ queue'[Len(queue) + 1] = j
    BY <2>1
  <2> QED
    BY <2>2 DEF j
<1>4. /\ NewProxy(h) => Alive(h)' /\ Current(h)'.call = 1 /\ Of(Current(h), h)'
      /\ Execute(h) \/ Wake(h) \/ Timeout(h) \/ Read(h) \/ Reset(h) =>
           /\ Alive(h) /\ proxy'[h].number = proxy[h].number /\ clients' = clients
      /\ Wake(h) \/ Timeout(h) \/ Read(h) \/ Reset(h) => ~InWait(h)'
      /\ Forget(h) => ~Alive(h)' /\ ~InWait(h)'
  <2>1. proxy[h] \in Proxies
    BY DEF ServerInv, ServerTypeOK
  <2>2. NewProxy(h) => Alive(h)' /\ Current(h)'.call = 1 /\ Of(Current(h), h)'
    BY DEF NewProxy, Alive, Current, Of, Gone, ServerInv, ServerTypeOK
  <2>3. Execute(h) \/ Wake(h) \/ Timeout(h) \/ Read(h) \/ Reset(h) =>
           /\ Alive(h) /\ proxy'[h].number = proxy[h].number /\ clients' = clients
    BY <2>1 DEF Execute, Wake, Timeout, Read, Reset, Alive, Proxies, ServerInv, ServerTypeOK
  <2>4. Wake(h) \/ Timeout(h) \/ Read(h) \/ Reset(h) => ~InWait(h)'
    BY <2>1 DEF Wake, Timeout, Read, Reset, InWait, Proxies, ServerInv, ServerTypeOK
  <2>5. Forget(h) => ~Alive(h)' /\ ~InWait(h)'
    BY DEF Forget, Alive, InWait, Gone, ServerInv, ServerTypeOK
  <2> QED
    BY <2>2, <2>3, <2>4, <2>5
<1>5. ComesToBeKnown'
  <2> SUFFICES ASSUME NEW k \in Hashes, Alive(k)'
               PROVE  \/ k \in clients'
                      \/ \E i \in DOMAIN queue' :
                           queue'[i].hash = k /\ queue'[i].proxy = proxy'[k].number /\ queue'[i].call = 1
    BY DEF ComesToBeKnown, Of
  <2>1. ASSUME Alive(k), proxy'[k].number = proxy[k].number, k \in clients' <=> k \in clients
        PROVE  \/ k \in clients'
               \/ \E i \in DOMAIN queue' :
                    queue'[i].hash = k /\ queue'[i].proxy = proxy'[k].number /\ queue'[i].call = 1
    BY <1>2, <2>1 DEF ComesToBeKnown, Of
  <2>2. CASE k # h
    BY <1>1, <2>1, <2>2 DEF Alive
  <2>3. CASE k = h /\ NewProxy(h)
    BY <1>3, <1>4, <2>3 DEF Of
  <2>4. CASE k = h /\ ~NewProxy(h)
    BY <1>4, <2>1, <2>4
  <2> QED
    BY <2>2, <2>3, <2>4
<1>6. CallKept'
  <2> SUFFICES ASSUME NEW k \in Hashes, InWait(k)'
               PROVE  \/ \E i \in DOMAIN queue' : queue'[i] = Current(k)'
                      \/ serving'.pc # "free" /\ serving'.job = Current(k)' /\ k \in clients'
    BY DEF CallKept
  <2>1. CASE k # h
    BY <1>1, <1>2, <2>1 DEF CallKept, InWait
  <2>2. CASE k = h
    BY <1>3, <1>4, <2>2
  <2> QED
    BY <2>1, <2>2
<1> QED
  BY <1>5, <1>6

(* The server takes the oldest call: when it takes another than the one     *)
(* that makes the proxy known, the proxy is known.                          *)
LEMMA ServeKeeps ==
  ASSUME ServerInv, AnswerInv, ComesToBeKnown, CallKept, Serve
  PROVE  ComesToBeKnown' /\ CallKept'
<1> DEFINE j == Head(queue)
           n == Len(queue)
<1>1. /\ n \in Nat /\ n > 0 /\ DOMAIN queue = 1..n /\ DOMAIN queue' = 1..(n - 1)
      /\ j = queue[1] /\ 1 \in 1..n
      /\ \A i \in 1..(n - 1) : queue'[i] = queue[i + 1] /\ i + 1 \in 1..n
  BY HeadTailProperties DEF Serve, ServerInv, ServerTypeOK
<1>2. /\ serving.pc = "free" /\ serving'.pc = "done" /\ serving'.job = j /\ proxy' = proxy
      /\ clients' = IF j.call = 1 THEN clients \cup {j.hash} ELSE clients
  BY DEF Serve
<1> HIDE DEF j, n
<1>3. \A i \in 1..n : i = 1 \/ (i - 1 \in 1..(n - 1) /\ queue'[i - 1] = queue[i])
  <2> SUFFICES ASSUME NEW i \in 1..n, i # 1
               PROVE  i - 1 \in 1..(n - 1) /\ queue'[i - 1] = queue[i]
    OBVIOUS
  <2>1. i - 1 \in 1..(n - 1) /\ (i - 1) + 1 = i
    BY <1>1
  <2> QED
    BY <1>1, <2>1
<1>4. \A i \in 1..n : queue[i] \in Calls /\ queue[i].call \in Nat /\ queue[i].call >= 1
  <2>1. \A i \in 1..n : queue[i] \in Calls
    BY <1>1, Numbers
  <2> QED
    BY <2>1, ServerAssumption DEF Calls
<1>5. ComesToBeKnown'
  <2> SUFFICES ASSUME NEW k \in Hashes, Alive(k)
               PROVE  \/ k \in clients'
                      \/ \E i \in 1..(n - 1) : Of(queue'[i], k) /\ queue'[i].call = 1
    BY <1>1, <1>2 DEF ComesToBeKnown, Alive, Of
  <2>1. CASE k \in clients
    BY <1>2, <2>1
  <2>2. ASSUME NEW i \in 1..n, Of(queue[i], k), queue[i].call = 1
        PROVE  \/ k \in clients'
               \/ \E e \in 1..(n - 1) : Of(queue'[e], k) /\ queue'[e].call = 1
    <3>1. CASE i = 1
      BY <1>1, <1>2, <2>2, <3>1 DEF Of
    <3>2. CASE i # 1
      BY <1>3, <2>2, <3>2
    <3> QED
      BY <3>1, <3>2
  <2> QED
    BY <1>1, <2>1, <2>2 DEF ComesToBeKnown
<1>6. CallKept'
  <2> SUFFICES ASSUME NEW k \in Hashes, InWait(k)
               PROVE  \/ \E i \in 1..(n - 1) : queue'[i] = Current(k)
                      \/ j = Current(k) /\ k \in clients'
    BY <1>1, <1>2 DEF CallKept, InWait, Current
  <2>1. PICK i \in 1..n : queue[i] = Current(k)
    BY <1>1, <1>2 DEF CallKept
  <2>2. CASE i # 1
    BY <1>3, <2>1, <2>2
  <2>3. CASE i = 1
    <3>1. j = Current(k) /\ j.hash = k /\ j.proxy = proxy[k].number
      BY <1>1, <2>1, <2>3 DEF Current
    <3>2. CASE j.call = 1
      BY <1>2, <3>1, <3>2
    <3>3. CASE j.call # 1
      <4>1. ASSUME NEW e \in 1..n, Of(queue[e], k), queue[e].call = 1
            PROVE  FALSE
        <5>1. e # 1 /\ 1 < e
          BY <1>1, <3>3, <4>1
        <5>2. queue[1].call < queue[e].call
          BY <1>1, <3>1, <4>1, <5>1 DEF AnswerInv, QueueRising, Of
        <5> QED
          BY <1>1, <1>4, <4>1, <5>2
      <4>2. Alive(k)
        BY DEF InWait, Alive
      <4>3. k \in clients
        BY <1>1, <4>1, <4>2 DEF ComesToBeKnown
      <4> QED
        BY <1>2, <3>1, <4>3
    <3> QED
      BY <3>2, <3>3
  <2> QED
    BY <2>2, <2>3
<1> QED
  BY <1>5, <1>6

(* The result is written for who waits, who is still there, and he is woken. *)
LEMMA AnswerKeeps ==
  ASSUME ServerInv, ComesToBeKnown, CallKept, WriteResult \/ SetAvailable
  PROVE  ComesToBeKnown' /\ CallKept'
<1> DEFINE h == serving.job.hash
<1>1. h \in Hashes /\ queue' = queue /\ clients' = clients
  BY Numbers DEF WriteResult, SetAvailable
<1>2. /\ WriteResult /\ h \in clients =>
           /\ serving'.pc = "written" /\ serving'.job = serving.job
           /\ proxy' = [proxy EXCEPT ![h] = [proxy[h] EXCEPT !.result = serving.job]]
      /\ WriteResult /\ h \notin clients => proxy' = proxy
      /\ SetAvailable =>
           proxy' = IF h \in clients
                    THEN [proxy EXCEPT ![h] = [proxy[h] EXCEPT !.available = TRUE]] ELSE proxy
  BY DEF WriteResult, SetAvailable, ServerInv, ServerTypeOK
<1>3. proxy[h] \in Proxies /\ proxy \in [Hashes -> Proxies]
  BY <1>1 DEF ServerInv, ServerTypeOK
<1> HIDE DEF h
<1>4. ASSUME NEW k \in Hashes
      PROVE  /\ proxy'[k].pc = proxy[k].pc /\ proxy'[k].number = proxy[k].number
             /\ proxy'[k].calls = proxy[k].calls
             /\ proxy[k].available => proxy'[k].available
             /\ SetAvailable /\ k = h /\ h \in clients => proxy'[k].available
  <2>1. proxy'[k] = proxy[k] \/ k = h
    BY <1>2, <1>3
  <2>2. /\ proxy'[h].pc = proxy[h].pc /\ proxy'[h].number = proxy[h].number
        /\ proxy'[h].calls = proxy[h].calls
        /\ proxy[h].available => proxy'[h].available
        /\ SetAvailable /\ h \in clients => proxy'[h].available
    BY <1>1, <1>2, <1>3 DEF Proxies
  <2> QED
    BY <2>1, <2>2
<1>5. ComesToBeKnown'
  BY <1>1, <1>4 DEF ComesToBeKnown, Alive, Of
<1>6. CallKept'
  <2> SUFFICES ASSUME NEW k \in Hashes, InWait(k)'
               PROVE  \/ \E i \in DOMAIN queue : queue[i] = Current(k)
                      \/ serving'.pc # "free" /\ serving'.job = Current(k) /\ k \in clients
    BY <1>1, <1>4 DEF CallKept, Current
  <2>1. InWait(k)
    BY <1>4 DEF InWait
  <2>2. CASE \E i \in DOMAIN queue : queue[i] = Current(k)
    BY <2>2
  <2>3. CASE serving.job = Current(k) /\ k \in clients
    <3>1. k = h
      BY <2>3 DEF Current, h
    <3>2. ~SetAvailable
      BY <1>4, <2>3, <3>1 DEF InWait
    <3> QED
      BY <1>2, <2>3, <3>1, <3>2
  <2> QED
    BY <2>1, <2>2, <2>3 DEF CallKept
<1> QED
  BY <1>5, <1>6

(* No thread waits for an answer that will not come: its call is queued, or *)
(* is being served while the server knows the proxy, whatever timed out and *)
(* whichever addresses are used again.                                      *)
THEOREM NoCallLost == ServerSpec => []CallKept
<1>1. ServerInit => ComesToBeKnown /\ CallKept
  BY DEF ServerInit, ComesToBeKnown, CallKept, Alive, InWait, Gone
<1>2. ServerInv /\ AnswerInv /\ ComesToBeKnown /\ CallKept /\ [ServerNext]_serverVars
      => ComesToBeKnown' /\ CallKept'
  <2> SUFFICES ASSUME ServerInv, AnswerInv, ComesToBeKnown, CallKept, [ServerNext]_serverVars
               PROVE  ComesToBeKnown' /\ CallKept'
    OBVIOUS
  <2>1. CASE UNCHANGED serverVars
    BY <2>1 DEF serverVars, ComesToBeKnown, CallKept, Alive, Of, InWait, Current
  <2> QED
    BY <2>1, ThreadKeeps, ServeKeeps, AnswerKeeps DEF ServerNext, ServerStep
<1> QED
  BY <1>1, <1>2, ServerInvariant, AnswerInvariant, PTL DEF ServerSpec
=============================================================================
