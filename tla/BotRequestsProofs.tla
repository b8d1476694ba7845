-------------------------- MODULE BotRequestsProofs --------------------------
(***************************************************************************)
(* The pool, and then the pool and the HTTP client together, for any       *)
(* number of coroutines, threads, connections and requests.                *)
(*                                                                         *)
(* What a worker does in its callable does not disturb the pool: with the  *)
(* client forgotten, a step of the two is a step of the pool or none.  So  *)
(* what is proved of the pool holds of the two.                            *)
(*                                                                         *)
(* The client spreads requests evenly because the counter, modulo the      *)
(* number of connections, is where the round stands: the connections       *)
(* before it have been leased once more than the others.                   *)
(*                                                                         *)
(* An answer reaches the request it is for because a worker has a place in *)
(* the line of a connection exactly while it waits there: every event that *)
(* takes it out of the wait takes away the place too, or gives it to       *)
(* nobody, before the worker can make its next request.                    *)
(***************************************************************************)
EXTENDS BotRequests, FiniteSetTheorems, SequenceTheorems, TLAPS

USE DEF Threads, Outcomes

-----------------------------------------------------------------------------
(* resolveBotWorkerThreadCount: the pool has a thread, whatever the        *)
(* environment says, and no more than 256.                                 *)
THEOREM WorkersExist ==
  \A env \in Environment : WorkerThreadCount(env) \in 1..MaxWorkers
<1>1. ASSUME NEW env \in Environment, env.kind = "digits",
             env.number \in 1..SizeMax
      PROVE  WorkerThreadCount(env) \in 1..MaxWorkers
  <2>1. env.number \in Nat \ {0}
    BY <1>1 DEF Environment
  <2> QED  BY <1>1, <2>1 DEF WorkerThreadCount, MaxWorkers
<1>2. ASSUME NEW env \in Environment,
             ~(env.kind = "digits" /\ env.number \in 1..SizeMax)
      PROVE  WorkerThreadCount(env) \in 1..MaxWorkers
  BY <1>2 DEF WorkerThreadCount, MaxWorkers, DefaultWorkers
<1> QED  BY <1>1, <1>2

-----------------------------------------------------------------------------
(* Types. *)

(* Init establishes the types. *)
LEMMA InitTypes == Init => PoolTypeOK
<1> SUFFICES ASSUME Init PROVE PoolTypeOK
  OBVIOUS
<1>1. tasks \in Seq(Coroutines) /\ calls \in 0..MaxCalls
  BY CallAssumption DEF Init
<1>2. /\ pc \in [Threads -> {"check", "asleep", "run", "resume", "notify",
                            "exited", "idle"}]
      /\ \A w \in Workers : pc[w] = "check"
      /\ \A l \in Loops : pc[l] = "idle"
  BY WorkerAssumption DEF Init
<1>3. /\ hand \in [Workers -> Coroutines \cup {NoTask}]
      /\ coro \in [Coroutines -> {"away", "awaiting", "here"}]
      /\ answer \in [Coroutines -> Outcomes \cup {"none"}]
  BY DEF Init
<1> QED  BY <1>1, <1>2, <1>3 DEF Init, PoolTypeOK, Running

(* post() keeps the types. *)
LEMMA PushTypes ==
  ASSUME PoolTypeOK, NEW t \in Threads, NEW k \in Coroutines, Push(t, k)
  PROVE  PoolTypeOK'
BY CallAssumption DEF PoolTypeOK, Push, Running

(* The notification of post() keeps the types. *)
LEMMA NotifyTypes ==
  ASSUME PoolTypeOK, NEW t \in Threads, NotifyOne(t)
  PROVE  PoolTypeOK'
BY WorkerAssumption DEF PoolTypeOK, NotifyOne, Asleep, AfterPost, Running

(* The steps of a worker keep the types. *)
LEMMA WorkerTypes ==
  ASSUME PoolTypeOK, NEW w \in Workers, WorkerStep(w) \/ WakeSpuriously(w)
  PROVE  PoolTypeOK'
<1>1. CASE Wait(w)
  BY <1>1, WorkerAssumption DEF PoolTypeOK, Wait, Running
<1>2. CASE WakeSpuriously(w)
  BY <1>2, WorkerAssumption DEF PoolTypeOK, WakeSpuriously, Running
<1>3. CASE Take(w)
  <2>1. Head(tasks) \in Coroutines /\ Tail(tasks) \in Seq(Coroutines)
    BY <1>3 DEF PoolTypeOK, Take
  <2> QED
    BY <1>3, <2>1, WorkerAssumption, TaskAssumption
       DEF PoolTypeOK, Take, Running
<1>4. CASE Exit(w)
  BY <1>4, WorkerAssumption DEF PoolTypeOK, Exit, Running
<1>5. CASE Call(w)
  BY <1>5, WorkerAssumption DEF PoolTypeOK, Call, Running
<1>6. CASE PostFromWorker(w)
  <2>1. hand[w] \in Coroutines
    BY <1>6 DEF PoolTypeOK, PostFromWorker, Running
  <2> QED  BY <1>6, <2>1, PushTypes DEF PostFromWorker
<1>7. CASE Leave(w)
  BY <1>7, WorkerAssumption DEF PoolTypeOK, Leave, Running
<1> QED
  BY <1>1, <1>2, <1>3, <1>4, <1>5, <1>6, <1>7 DEF WorkerStep

(* The end of the process keeps the types. *)
LEMMA ShutdownTypes ==
  ASSUME PoolTypeOK, MainReturns \/ Destroy
  PROVE  PoolTypeOK'
<1>1. CASE NotifyAll
  BY <1>1, WorkerAssumption DEF PoolTypeOK, NotifyAll, Asleep, Running
<1>2. CASE MainReturns \/ Stop \/ Join
  BY <1>2 DEF PoolTypeOK, MainReturns, Stop, Join, Running
<1> QED  BY <1>1, <1>2 DEF Destroy

(* Every step keeps the types. *)
LEMMA StepTypes == PoolTypeOK /\ [Next]_vars => PoolTypeOK'
<1> SUFFICES ASSUME PoolTypeOK, [Next]_vars PROVE PoolTypeOK'
  OBVIOUS
<1>1. CASE UNCHANGED vars
  BY <1>1 DEF PoolTypeOK, Running, vars
<1>2. ASSUME NEW l \in Loops, NEW k \in Coroutines, PostFromLoop(l, k)
      PROVE  PoolTypeOK'
  BY <1>2, PushTypes DEF PostFromLoop
<1> QED
  BY <1>1, <1>2, WorkerTypes, NotifyTypes, ShutdownTypes DEF Next

(* Type correctness of the pool. *)
THEOREM PoolTyping == Spec => []PoolTypeOK
BY InitTypes, StepTypes, PTL DEF Spec

-----------------------------------------------------------------------------
(* One thread per coroutine. *)

(* What post() does to the queue. *)
LEMMA AppendedTask ==
  ASSUME NEW q \in Seq(Coroutines), NEW k \in Coroutines
  PROVE  /\ Append(q, k) \in Seq(Coroutines)
         /\ Len(Append(q, k)) = Len(q) + 1
         /\ DOMAIN Append(q, k) = 1..(Len(q) + 1)
         /\ DOMAIN q = 1..Len(q)
         /\ Len(q) \in Nat
         /\ \A i \in 1..Len(q) : Append(q, k)[i] = q[i]
         /\ Append(q, k)[Len(q) + 1] = k
OBVIOUS

(* What a worker leaves in the queue. *)
LEMMA RemainingTasks ==
  ASSUME NEW q \in Seq(Coroutines), q # <<>>
  PROVE  /\ Tail(q) \in Seq(Coroutines)
         /\ Len(q) \in Nat \ {0}
         /\ Len(Tail(q)) = Len(q) - 1
         /\ DOMAIN Tail(q) = 1..(Len(q) - 1)
         /\ DOMAIN q = 1..Len(q)
         /\ \A i \in 1..(Len(q) - 1) : Tail(q)[i] = q[i + 1]
         /\ Head(q) = q[1]
         /\ Head(q) \in Coroutines
OBVIOUS

(* post() of a coroutine that no worker runs. *)
LEMMA PushAlone ==
  ASSUME PoolTypeOK, OneThreadPerCoroutine,
         NEW t \in Threads, NEW k \in Coroutines, Push(t, k),
         coro[k] # "awaiting",
         \A w \in Workers : Running(w) /\ hand[w] = k => w = t
  PROVE  OneThreadPerCoroutine'
<1>1. /\ tasks' = Append(tasks, k)
      /\ hand' = hand
      /\ coro' = [coro EXCEPT ![k] = "awaiting"]
      /\ pc' = [pc EXCEPT ![t] = "notify"]
  BY DEF Push
<1>2. tasks \in Seq(Coroutines)
  BY DEF PoolTypeOK
<1>3. \A w \in Workers : Running(w)' => Running(w) /\ w # t /\ pc'[w] = pc[w]
  BY <1>1 DEF PoolTypeOK, Running
<1>4. \A w \in Workers : Running(w)' => hand[w] # k /\ hand[w] \in Coroutines
  BY <1>3 DEF PoolTypeOK
<1>5. \A c \in Coroutines : c # k => coro'[c] = coro[c]
  BY <1>1 DEF PoolTypeOK
<1>6. coro'[k] = "awaiting"
  BY <1>1 DEF PoolTypeOK
<1>7. \A i \in DOMAIN tasks : tasks[i] # k /\ tasks[i] \in Coroutines
  BY <1>2 DEF OneThreadPerCoroutine
<1>8. ASSUME NEW i \in DOMAIN tasks'
      PROVE  /\ coro'[tasks'[i]] = "awaiting"
             /\ \A j \in DOMAIN tasks' : tasks'[i] = tasks'[j] => i = j
  BY <1>1, <1>2, <1>5, <1>6, <1>7, <1>8, AppendedTask
     DEF OneThreadPerCoroutine
<1>9. ASSUME NEW w \in Workers
      PROVE  /\ pc'[w] = "run" =>
                   /\ coro'[hand'[w]] = "awaiting"
                   /\ \A i \in DOMAIN tasks' : tasks'[i] # hand'[w]
             /\ pc'[w] = "resume" => coro'[hand'[w]] = "here"
  <2>1. ASSUME pc'[w] = "run" \/ pc'[w] = "resume"
        PROVE  /\ pc'[w] = pc[w] /\ hand[w] # k
               /\ coro'[hand'[w]] = coro[hand[w]]
    BY <2>1, <1>1, <1>3, <1>4, <1>5 DEF Running
  <2>2. ASSUME pc'[w] = "run", NEW i \in DOMAIN tasks'
        PROVE  tasks'[i] # hand'[w]
    BY <2>1, <2>2, <1>1, <1>2, AppendedTask DEF OneThreadPerCoroutine
  <2> QED  BY <2>1, <2>2 DEF OneThreadPerCoroutine
<1>10. \A v, w \in Workers :
         Running(v)' /\ Running(w)' /\ hand'[v] = hand'[w] => v = w
  BY <1>1, <1>3 DEF OneThreadPerCoroutine
<1> QED  BY <1>8, <1>9, <1>10 DEF OneThreadPerCoroutine

(* A step that gives no worker a task and no coroutine another place. *)
LEMMA ElsewhereAlone ==
  ASSUME OneThreadPerCoroutine, UNCHANGED <<tasks, hand, coro>>,
         \A w \in Workers : Running(w)' => pc'[w] = pc[w]
  PROVE  OneThreadPerCoroutine'
BY DEF OneThreadPerCoroutine, Running

(* A worker takes the request at the front. *)
LEMMA TakeAlone ==
  ASSUME PoolTypeOK, OneThreadPerCoroutine, NEW w \in Workers, Take(w)
  PROVE  OneThreadPerCoroutine'
<1>1. /\ tasks \in Seq(Coroutines) /\ tasks # <<>>
      /\ tasks' = Tail(tasks) /\ coro' = coro
      /\ pc' = [pc EXCEPT ![w] = "run"]
      /\ hand' = [hand EXCEPT ![w] = Head(tasks)]
  BY DEF PoolTypeOK, Take
<1>2. /\ pc'[w] = "run" /\ hand'[w] = tasks[1] /\ 1 \in DOMAIN tasks
      /\ \A v \in Workers : v # w => pc'[v] = pc[v] /\ hand'[v] = hand[v]
  BY <1>1, RemainingTasks DEF PoolTypeOK
<1>3. \A i \in DOMAIN tasks' :
        i + 1 \in DOMAIN tasks /\ tasks'[i] = tasks[i + 1] /\ i \in Nat \ {0}
  BY <1>1, RemainingTasks
<1>4. ASSUME NEW i \in DOMAIN tasks'
      PROVE  /\ coro'[tasks'[i]] = "awaiting"
             /\ tasks'[i] # tasks[1]
             /\ \A j \in DOMAIN tasks' : tasks'[i] = tasks'[j] => i = j
  BY <1>1, <1>2, <1>3 DEF OneThreadPerCoroutine
<1>5. ASSUME NEW v \in Workers, v # w, Running(v)'
      PROVE  /\ Running(v) /\ hand'[v] # tasks[1]
             /\ pc[v] = "run" => coro[hand'[v]] = "awaiting"
             /\ pc[v] = "run" => \A i \in DOMAIN tasks' : tasks'[i] # hand'[v]
             /\ pc[v] = "resume" => coro[hand'[v]] = "here"
  BY <1>2, <1>3, <1>5 DEF OneThreadPerCoroutine, Running
<1>6. ASSUME NEW v \in Workers
      PROVE  /\ pc'[v] = "run" =>
                   /\ coro'[hand'[v]] = "awaiting"
                   /\ \A i \in DOMAIN tasks' : tasks'[i] # hand'[v]
             /\ pc'[v] = "resume" => coro'[hand'[v]] = "here"
  <2>1. CASE v = w
    BY <2>1, <1>1, <1>2, <1>4 DEF OneThreadPerCoroutine
  <2>2. CASE v # w
    BY <2>2, <1>1, <1>2, <1>5 DEF Running
  <2> QED  BY <2>1, <2>2
<1>7. ASSUME NEW v \in Workers, NEW u \in Workers,
             Running(v)', Running(u)', hand'[v] = hand'[u]
      PROVE  v = u
  BY <1>2, <1>5, <1>7 DEF OneThreadPerCoroutine
<1> QED  BY <1>4, <1>6, <1>7 DEF OneThreadPerCoroutine

(* The callable ends and the coroutine is resumed here. *)
LEMMA CallAlone ==
  ASSUME PoolTypeOK, OneThreadPerCoroutine, NEW w \in Workers, Call(w)
  PROVE  OneThreadPerCoroutine'
<1>1. /\ tasks' = tasks /\ hand' = hand /\ pc[w] = "run"
      /\ pc' = [pc EXCEPT ![w] = "resume"]
      /\ coro' = [coro EXCEPT ![hand[w]] = "here"]
      /\ hand[w] \in Coroutines
  BY DEF PoolTypeOK, Call, Running
<1>2. /\ pc'[w] = "resume"
      /\ \A v \in Workers : v # w => pc'[v] = pc[v]
      /\ coro'[hand[w]] = "here"
      /\ \A c \in Coroutines : c # hand[w] => coro'[c] = coro[c]
  BY <1>1 DEF PoolTypeOK
<1>3. \A v \in Workers : Running(v)' => Running(v) /\ hand[v] \in Coroutines
  BY <1>1, <1>2 DEF Running, PoolTypeOK
<1>4. \A v \in Workers : v # w /\ Running(v) => hand[v] # hand[w]
  BY <1>1 DEF OneThreadPerCoroutine, Running
<1>5. \A i \in DOMAIN tasks : tasks[i] # hand[w] /\ tasks[i] \in Coroutines
  BY <1>1 DEF OneThreadPerCoroutine, PoolTypeOK
<1>6. \A v \in Workers :
        /\ pc'[v] = "run" => /\ coro'[hand'[v]] = "awaiting"
                             /\ \A i \in DOMAIN tasks' : tasks'[i] # hand'[v]
        /\ pc'[v] = "resume" => coro'[hand'[v]] = "here"
  BY <1>1, <1>2, <1>3, <1>4 DEF OneThreadPerCoroutine, Running
<1>7. \A v, u \in Workers :
        Running(v)' /\ Running(u)' /\ hand'[v] = hand'[u] => v = u
  BY <1>1, <1>3 DEF OneThreadPerCoroutine
<1> QED  BY <1>1, <1>2, <1>5, <1>6, <1>7 DEF OneThreadPerCoroutine

(* The coroutine leaves the worker. *)
LEMMA LeaveAlone ==
  ASSUME PoolTypeOK, OneThreadPerCoroutine, NEW w \in Workers, Leave(w)
  PROVE  OneThreadPerCoroutine'
<1>1. /\ tasks' = tasks /\ hand' = hand /\ pc[w] = "resume"
      /\ pc' = [pc EXCEPT ![w] = "check"]
      /\ coro' = [coro EXCEPT ![hand[w]] = "away"]
      /\ hand[w] \in Coroutines
  BY DEF PoolTypeOK, Leave, Running
<1>2. /\ pc'[w] = "check"
      /\ \A v \in Workers : v # w => pc'[v] = pc[v]
      /\ \A c \in Coroutines : c # hand[w] => coro'[c] = coro[c]
  BY <1>1 DEF PoolTypeOK
<1>3. \A v \in Workers :
        Running(v)' => v # w /\ Running(v) /\ hand[v] \in Coroutines
  BY <1>1, <1>2 DEF Running, PoolTypeOK
<1>4. \A v \in Workers : v # w /\ Running(v) => hand[v] # hand[w]
  BY <1>1 DEF OneThreadPerCoroutine, Running
<1>5. \A i \in DOMAIN tasks : tasks[i] # hand[w] /\ tasks[i] \in Coroutines
  BY <1>1 DEF OneThreadPerCoroutine, PoolTypeOK
<1>6. \A v \in Workers :
        /\ pc'[v] = "run" => /\ coro'[hand'[v]] = "awaiting"
                             /\ \A i \in DOMAIN tasks' : tasks'[i] # hand'[v]
        /\ pc'[v] = "resume" => coro'[hand'[v]] = "here"
  BY <1>1, <1>2, <1>3, <1>4 DEF OneThreadPerCoroutine, Running
<1>7. \A v, u \in Workers :
        Running(v)' /\ Running(u)' /\ hand'[v] = hand'[u] => v = u
  BY <1>1, <1>3 DEF OneThreadPerCoroutine
<1> QED  BY <1>1, <1>2, <1>5, <1>6, <1>7 DEF OneThreadPerCoroutine

(* A notification moves no coroutine. *)
LEMMA NotifyAlone ==
  ASSUME PoolTypeOK, OneThreadPerCoroutine, NEW t \in Threads, NotifyOne(t)
  PROVE  OneThreadPerCoroutine'
<1>1. \A w \in Workers : Running(w)' => pc'[w] = pc[w]
  BY WorkerAssumption DEF PoolTypeOK, NotifyOne, Asleep, AfterPost, Running
<1> QED  BY <1>1, ElsewhereAlone DEF NotifyOne

(* Every step keeps a coroutine on one thread. *)
LEMMA StepAlone ==
  PoolTypeOK /\ OneThreadPerCoroutine /\ [Next]_vars => OneThreadPerCoroutine'
<1> SUFFICES ASSUME PoolTypeOK, OneThreadPerCoroutine, [Next]_vars
             PROVE  OneThreadPerCoroutine'
  OBVIOUS
<1>1. CASE UNCHANGED vars
  BY <1>1, ElsewhereAlone DEF vars, Running
<1>2. ASSUME NEW l \in Loops, NEW k \in Coroutines, PostFromLoop(l, k)
      PROVE  OneThreadPerCoroutine'
  <2>1. \A w \in Workers : Running(w) => hand[w] # k
    BY <1>2 DEF PostFromLoop, OneThreadPerCoroutine, Running
  <2> QED  BY <1>2, <2>1, PushAlone DEF PostFromLoop
<1>3. ASSUME NEW w \in Workers, WorkerStep(w) \/ WakeSpuriously(w)
      PROVE  OneThreadPerCoroutine'
  <2>1. CASE Wait(w) \/ WakeSpuriously(w) \/ Exit(w)
    <3>1. \A v \in Workers : Running(v)' => pc'[v] = pc[v]
      BY <2>1 DEF PoolTypeOK, Wait, WakeSpuriously, Exit, Running
    <3> QED  BY <2>1, <3>1, ElsewhereAlone DEF Wait, WakeSpuriously, Exit
  <2>2. CASE PostFromWorker(w)
    <3>1. /\ hand[w] \in Coroutines /\ coro[hand[w]] = "here" /\ Running(w)
          /\ Push(w, hand[w])
      BY <2>2 DEF PoolTypeOK, PostFromWorker, Running, OneThreadPerCoroutine
    <3>2. \A v \in Workers : Running(v) /\ hand[v] = hand[w] => v = w
      BY <3>1 DEF OneThreadPerCoroutine
    <3> QED  BY <3>1, <3>2, PushAlone
  <2> QED
    BY <1>3, <2>1, <2>2, TakeAlone, CallAlone, LeaveAlone DEF WorkerStep
<1>4. CASE MainReturns \/ Destroy
  <2>1. \A v \in Workers : Running(v)' => pc'[v] = pc[v]
    BY <1>4 DEF PoolTypeOK, MainReturns, Destroy, Stop, NotifyAll, Join,
                Asleep, Running
  <2> QED
    BY <1>4, <2>1, ElsewhereAlone
       DEF MainReturns, Destroy, Stop, NotifyAll, Join
<1> QED  BY <1>1, <1>2, <1>3, <1>4, NotifyAlone DEF Next

(* A coroutine is resumed by one thread at a time and is queued at most    *)
(* once, whatever the interleaving of posts, workers and shutdown.         *)
THEOREM CoroutinesRunOnOneThread == Spec => []OneThreadPerCoroutine
<1>1. Init => OneThreadPerCoroutine
  BY WorkerAssumption DEF Init, OneThreadPerCoroutine, Running
<1> QED  BY <1>1, PoolTyping, StepAlone, PTL DEF Spec

-----------------------------------------------------------------------------
(* Lost wakeups. *)

(* The sets that the invariant counts are finite. *)
LEMMA CountedSetsAreFinite ==
  /\ IsFiniteSet(Notifying) /\ Cardinality(Notifying) \in Nat
  /\ IsFiniteSet(Checking) /\ Cardinality(Checking) \in Nat
<1>1. IsFiniteSet(Workers \cup Loops)
  BY WorkerAssumption, FS_Union
<1>2. Notifying \in SUBSET (Workers \cup Loops) /\ Checking \in SUBSET Workers
  BY DEF Notifying, Checking
<1> QED  BY <1>1, <1>2, WorkerAssumption, FS_Subset, FS_CardinalityType

(* The same of the next state. *)
LEMMA CountedSetsStayFinite ==
  /\ IsFiniteSet(Notifying') /\ Cardinality(Notifying') \in Nat
  /\ IsFiniteSet(Checking') /\ Cardinality(Checking') \in Nat
<1>1. IsFiniteSet(Workers \cup Loops)
  BY WorkerAssumption, FS_Union
<1>2. Notifying' \in SUBSET (Workers \cup Loops) /\ Checking' \in SUBSET Workers
  BY DEF Notifying, Checking
<1> QED  BY <1>1, <1>2, WorkerAssumption, FS_Subset, FS_CardinalityType

(* A step that leaves the queue alone, and takes nobody from those that    *)
(* notify or check.                                                        *)
LEMMA MoreAwake ==
  ASSUME WakeupForEachRequest, UNCHANGED tasks, tasks \in Seq(Coroutines),
         Asleep' # {} => Asleep # {},
         Notifying \subseteq Notifying', Checking \subseteq Checking'
  PROVE  WakeupForEachRequest'
<1>1. /\ Cardinality(Notifying) <= Cardinality(Notifying')
      /\ Cardinality(Checking) <= Cardinality(Checking')
  BY CountedSetsStayFinite, FS_Subset
<1>2. Len(tasks) \in Nat
  OBVIOUS
<1> QED
  BY <1>1, <1>2, CountedSetsAreFinite, CountedSetsStayFinite
     DEF WakeupForEachRequest

(* An empty queue needs no wakeup. *)
LEMMA EmptyQueueNeedsNone == tasks' = <<>> => WakeupForEachRequest'
BY CountedSetsStayFinite DEF WakeupForEachRequest

(* A post brings its own notification. *)
LEMMA PushWakes ==
  ASSUME PoolTypeOK, WakeupForEachRequest,
         NEW t \in Threads, NEW k \in Coroutines, Push(t, k),
         pc[t] \in {"idle", "resume"}
  PROVE  WakeupForEachRequest'
<1>1. /\ Asleep' = Asleep /\ Checking' = Checking
      /\ Notifying' = Notifying \cup {t} /\ t \notin Notifying
  BY DEF PoolTypeOK, Push, Asleep, Checking, Notifying
<1>2. Cardinality(Notifying') = Cardinality(Notifying) + 1
  BY <1>1, CountedSetsAreFinite, FS_AddElement
<1>3. Len(tasks') = Len(tasks) + 1 /\ Len(tasks) \in Nat
  BY AppendedTask DEF PoolTypeOK, Push
<1> QED
  BY <1>1, <1>2, <1>3, CountedSetsAreFinite DEF WakeupForEachRequest

(* A notification is replaced by the worker it wakes. *)
LEMMA NotifyWakes ==
  ASSUME PoolTypeOK, WakeupForEachRequest, NEW t \in Threads, NotifyOne(t)
  PROVE  WakeupForEachRequest'
<1>1. CASE Asleep = {}
  <2>1. Asleep' = {}
    BY <1>1, WorkerAssumption
       DEF PoolTypeOK, NotifyOne, Asleep, AfterPost
  <2> QED  BY <2>1 DEF WakeupForEachRequest
<1>2. ASSUME NEW w \in Asleep,
             pc' = [pc EXCEPT ![t] = AfterPost(t), ![w] = "check"],
             UNCHANGED tasks
      PROVE  WakeupForEachRequest'
  <2>1. pc[t] = "notify" /\ w \in Workers /\ pc[w] = "asleep" /\ w # t
    BY <1>2 DEF NotifyOne, Asleep
  <2>2. /\ Notifying' = Notifying \ {t} /\ t \in Notifying
        /\ Checking \cup {w} \subseteq Checking' /\ w \notin Checking
    BY <1>2, <2>1 DEF PoolTypeOK, Notifying, Checking, AfterPost
  <2>3. Cardinality(Notifying') = Cardinality(Notifying) - 1
    BY <2>2, CountedSetsAreFinite, FS_RemoveElement
  <2>4. Cardinality(Checking') >= Cardinality(Checking) + 1
    <3>1. Cardinality(Checking \cup {w}) = Cardinality(Checking) + 1
      BY <2>2, CountedSetsAreFinite, FS_AddElement
    <3>2. Cardinality(Checking \cup {w}) <= Cardinality(Checking')
      BY <2>2, CountedSetsStayFinite, FS_Subset
    <3> QED  BY <3>1, <3>2, CountedSetsAreFinite, CountedSetsStayFinite
  <2>5. Len(tasks) \in Nat /\ tasks' = tasks
    BY <1>2 DEF PoolTypeOK
  <2> QED
    BY <1>2, <2>3, <2>4, <2>5, CountedSetsAreFinite, CountedSetsStayFinite
       DEF WakeupForEachRequest
<1> QED  BY <1>1, <1>2 DEF NotifyOne

(* A worker that looked takes a request with it. *)
LEMMA TakeWakes ==
  ASSUME PoolTypeOK, WakeupForEachRequest, NEW w \in Workers, Take(w)
  PROVE  WakeupForEachRequest'
<1>1. /\ Asleep' = Asleep /\ Notifying' = Notifying
      /\ Checking' = Checking \ {w} /\ w \in Checking
  BY DEF PoolTypeOK, Take, Asleep, Checking, Notifying
<1>2. Cardinality(Checking') = Cardinality(Checking) - 1
  BY <1>1, CountedSetsAreFinite, FS_RemoveElement
<1>3. Len(tasks') = Len(tasks) - 1 /\ Len(tasks) \in Nat
  BY RemainingTasks DEF PoolTypeOK, Take
<1> QED
  BY <1>1, <1>2, <1>3, CountedSetsAreFinite DEF WakeupForEachRequest

(* The steps of a worker. *)
LEMMA WorkerWakes ==
  ASSUME PoolTypeOK, WakeupForEachRequest, NEW w \in Workers,
         WorkerStep(w) \/ WakeSpuriously(w)
  PROVE  WakeupForEachRequest'
<1>1. CASE Wait(w) \/ Exit(w)
  BY <1>1, EmptyQueueNeedsNone DEF Wait, Exit
<1>2. CASE WakeSpuriously(w) \/ Call(w) \/ Leave(w)
  <2>1. /\ Asleep' \subseteq Asleep /\ UNCHANGED tasks
        /\ Notifying \subseteq Notifying' /\ Checking \subseteq Checking'
    BY <1>2
       DEF PoolTypeOK, WakeSpuriously, Call, Leave, Asleep, Notifying, Checking
  <2> QED  BY <2>1, MoreAwake DEF PoolTypeOK
<1>3. CASE PostFromWorker(w)
  <2>1. hand[w] \in Coroutines
    BY <1>3 DEF PoolTypeOK, PostFromWorker, Running
  <2> QED  BY <1>3, <2>1, PushWakes DEF PostFromWorker
<1> QED  BY <1>1, <1>2, <1>3, TakeWakes DEF WorkerStep

(* The end of the process: notify_all leaves nobody asleep. *)
LEMMA ShutdownWakes ==
  ASSUME PoolTypeOK, WakeupForEachRequest, MainReturns \/ Destroy
  PROVE  WakeupForEachRequest'
<1>1. CASE NotifyAll
  <2>1. Asleep' = {}
    BY <1>1 DEF NotifyAll, Asleep
  <2> QED  BY <2>1 DEF WakeupForEachRequest
<1>2. CASE MainReturns \/ Stop \/ Join
  BY <1>2
     DEF MainReturns, Stop, Join, WakeupForEachRequest, Asleep, Notifying,
         Checking
<1> QED  BY <1>1, <1>2 DEF Destroy

(* No wakeup is lost, with any number of workers and posting threads: a    *)
(* request waits behind a sleeping worker only while somebody is on the    *)
(* way to it.                                                              *)
THEOREM NoWakeupIsLost == Spec => []WakeupForEachRequest
<1>1. Init => WakeupForEachRequest
  <2> SUFFICES ASSUME Init PROVE WakeupForEachRequest
    OBVIOUS
  <2>1. Asleep = {}
    BY DEF Init, Asleep
  <2> QED  BY <2>1 DEF WakeupForEachRequest
<1>2. PoolTypeOK /\ WakeupForEachRequest /\ [Next]_vars
        => WakeupForEachRequest'
  <2> SUFFICES ASSUME PoolTypeOK, WakeupForEachRequest, [Next]_vars
               PROVE  WakeupForEachRequest'
    OBVIOUS
  <2>1. CASE UNCHANGED vars
    BY <2>1 DEF vars, WakeupForEachRequest, Asleep, Notifying, Checking
  <2>2. ASSUME NEW l \in Loops, NEW k \in Coroutines, PostFromLoop(l, k)
        PROVE  WakeupForEachRequest'
    BY <2>2, PushWakes DEF PostFromLoop
  <2> QED
    BY <2>1, <2>2, NotifyWakes, WorkerWakes, ShutdownWakes DEF Next
<1> QED  BY <1>1, <1>2, PoolTyping, PTL DEF Spec

-----------------------------------------------------------------------------
(* Refinement of AwaitedCalls. *)

InHand == {w \in Workers : pc[w] = "run"}

Served == {hand[w] : w \in InHand}

(* A worker that takes a request leaves the capacity as it is. *)
LEMMA OneMoreFits ==
  ASSUME PoolTypeOK, NEW w \in Workers, pc[w] = "check"
  PROVE  IsFiniteSet(Served) /\ Cardinality(Served) < Cardinality(Workers)
<1> DEFINE f == [v \in InHand |-> hand[v]]
<1>1. InHand \in SUBSET (Workers \ {w})
  BY DEF InHand
<1>2. /\ IsFiniteSet(Workers \ {w})
      /\ Cardinality(Workers \ {w}) = Cardinality(Workers) - 1
      /\ Cardinality(Workers) \in Nat
  BY WorkerAssumption, FS_RemoveElement, FS_CardinalityType
<1>3. IsFiniteSet(InHand) /\ Cardinality(InHand) <= Cardinality(Workers) - 1
  BY <1>1, <1>2, FS_Subset
<1>4. f \in Surjection(InHand, Served)
  BY DEF Surjection, Served
<1>5. IsFiniteSet(Served) /\ Cardinality(Served) <= Cardinality(InHand)
  BY <1>3, <1>4, FS_Surjection
<1>6. Cardinality(Served) \in Nat /\ Cardinality(InHand) \in Nat
  BY <1>3, <1>5, FS_CardinalityType
<1> QED  BY <1>2, <1>3, <1>5, <1>6

(* A post is a new call of a caller that waits for none. *)
LEMMA PushAsks ==
  ASSUME PoolTypeOK, OneThreadPerCoroutine,
         NEW t \in Threads, NEW k \in Coroutines, Push(t, k),
         coro[k] # "awaiting", pc[t] # "run"
  PROVE  AwaitedCalls!Ask(k)
<1>1. k \notin AwaitedCalls!InLine
  BY DEF OneThreadPerCoroutine, AwaitedCalls!InLine
<1>2. k \notin Served
  BY DEF OneThreadPerCoroutine, Served, InHand
<1>3. Served' = Served
  BY DEF PoolTypeOK, Push, Served, InHand
<1> QED
  BY <1>1, <1>2, <1>3 DEF AwaitedCalls!Ask, Served, InHand, Push

(* Taking the request at the front begins the oldest call. *)
LEMMA TakeServes ==
  ASSUME PoolTypeOK, NEW w \in Workers, Take(w)
  PROVE  AwaitedCalls!Serve
<1>1. pc[w] = "check"
  BY DEF Take
<1>2. Cardinality(Served) < Cardinality(Workers)
  BY <1>1, OneMoreFits
<1>3. Served' = Served \cup {Head(tasks)}
  <2>1. InHand' = InHand \cup {w} /\ w \notin InHand
    BY DEF PoolTypeOK, Take, InHand
  <2>2. hand'[w] = Head(tasks) /\ \A v \in InHand : hand'[v] = hand[v]
    BY <2>1 DEF PoolTypeOK, Take, InHand
  <2> QED  BY <2>1, <2>2 DEF Served
<1>4. AwaitedCalls!Cardinality(Served) = Cardinality(Served)
  BY DEF AwaitedCalls!Cardinality, Cardinality
<1> QED
  BY <1>2, <1>3, <1>4 DEF AwaitedCalls!Serve, Served, InHand, Take

(* The end of a callable is the reply to its call. *)
LEMMA CallReplies ==
  ASSUME PoolTypeOK, OneThreadPerCoroutine, NEW w \in Workers, Call(w)
  PROVE  \E k \in Coroutines, r \in AwaitedCalls!Outcomes :
           AwaitedCalls!Reply(k, r)
<1>1. PICK r \in Outcomes : answer' = [answer EXCEPT ![hand[w]] = r]
  BY DEF Call
<1>2. hand[w] \in Coroutines /\ w \in InHand
  BY DEF PoolTypeOK, Call, Running, InHand
<1>3. Served' = Served \ {hand[w]}
  <2>1. InHand' = InHand \ {w} /\ hand' = hand
    BY DEF PoolTypeOK, Call, InHand
  <2>2. \A v \in InHand : v # w => hand[v] # hand[w]
    BY <1>2 DEF OneThreadPerCoroutine, Running, InHand
  <2> QED  BY <1>2, <2>1, <2>2 DEF Served
<1>4. AwaitedCalls!Reply(hand[w], r)
  BY <1>1, <1>2, <1>3
     DEF AwaitedCalls!Reply, Served, InHand, Call
<1> QED  BY <1>1, <1>2, <1>4 DEF AwaitedCalls!Outcomes

(* A step that no caller notices. *)
LEMMA Unnoticed ==
  ASSUME UNCHANGED <<tasks, hand, answer>>, InHand' = InHand
  PROVE  UNCHANGED AwaitedCalls!vars
BY DEF AwaitedCalls!vars, InHand

(* Every step of the pool is one of AwaitedCalls or a stutter. *)
LEMMA StepServes ==
  PoolTypeOK /\ OneThreadPerCoroutine /\ [Next]_vars
    => [AwaitedCalls!Next]_(AwaitedCalls!vars)
<1> SUFFICES ASSUME PoolTypeOK, OneThreadPerCoroutine, [Next]_vars
             PROVE  [AwaitedCalls!Next]_(AwaitedCalls!vars)
  OBVIOUS
<1>1. CASE UNCHANGED vars
  BY <1>1, Unnoticed DEF vars, InHand
<1>2. ASSUME NEW l \in Loops, NEW k \in Coroutines, PostFromLoop(l, k)
      PROVE  AwaitedCalls!Next
  <2>1. AwaitedCalls!Ask(k)
    BY <1>2, PushAsks DEF PostFromLoop
  <2> QED  BY <2>1 DEF AwaitedCalls!Next
<1>3. ASSUME NEW w \in Workers, PostFromWorker(w)
      PROVE  AwaitedCalls!Next
  <2>1. hand[w] \in Coroutines /\ coro[hand[w]] = "here"
    BY <1>3 DEF PoolTypeOK, PostFromWorker, Running, OneThreadPerCoroutine
  <2>2. AwaitedCalls!Ask(hand[w])
    BY <1>3, <2>1, PushAsks DEF PostFromWorker
  <2> QED  BY <2>1, <2>2 DEF AwaitedCalls!Next
<1>4. ASSUME NEW w \in Workers, Take(w) \/ Call(w)
      PROVE  AwaitedCalls!Next
  BY <1>4, TakeServes, CallReplies DEF AwaitedCalls!Next
<1>5. ASSUME NEW w \in Workers,
             Wait(w) \/ Exit(w) \/ Leave(w) \/ WakeSpuriously(w)
      PROVE  UNCHANGED AwaitedCalls!vars
  <2>1. InHand' = InHand
    BY <1>5 DEF PoolTypeOK, Wait, Exit, Leave, WakeSpuriously, InHand
  <2> QED  BY <1>5, <2>1, Unnoticed DEF Wait, Exit, Leave, WakeSpuriously
<1>6. ASSUME NEW t \in Threads, NotifyOne(t)
      PROVE  UNCHANGED AwaitedCalls!vars
  <2>1. InHand' = InHand
    BY <1>6 DEF PoolTypeOK, NotifyOne, Asleep, AfterPost, InHand
  <2> QED  BY <1>6, <2>1, Unnoticed DEF NotifyOne
<1>7. CASE MainReturns \/ Destroy
  <2>1. InHand' = InHand
    BY <1>7, WorkerAssumption
       DEF PoolTypeOK, MainReturns, Destroy, Stop, NotifyAll, Join, Asleep,
           InHand
  <2> QED
    BY <1>7, <2>1, Unnoticed DEF MainReturns, Destroy, Stop, NotifyAll, Join
<1> QED
  BY <1>1, <1>2, <1>3, <1>4, <1>5, <1>6, <1>7 DEF Next, WorkerStep

(* The pool implements AwaitedCalls: each request runs once, in the order  *)
(* of posting, with its own outcome, at most as many at a time as there    *)
(* are workers.                                                            *)
THEOREM PoolImplementsCalls == Spec => PoolServesCalls
<1>1. Init => AwaitedCalls!Init
  BY WorkerAssumption DEF Init, AwaitedCalls!Init
<1> QED
  BY <1>1, PoolTyping, CoroutinesRunOnOneThread, StepServes, PTL
     DEF Spec, PoolServesCalls, AwaitedCalls!Spec

-----------------------------------------------------------------------------
(* The pool and the client. *)

(* A step of the pool and the client is one of the pool, or leaves it      *)
(* alone.                                                                  *)
LEMMA StepIsOfThePool == [RequestsNext]_requestVars => [Next]_vars
<1> SUFFICES ASSUME [RequestsNext]_requestVars PROVE [Next]_vars
  OBVIOUS
<1>1. ASSUME NEW w \in Workers, Begin(w) \/ End(w) \/ Loop(w) \/ Expire(w)
      PROVE  [Next]_vars
  BY <1>1 DEF Begin, End, Loop, Expire, Next, WorkerStep
<1>2. ASSUME NEW t \in Threads, Notify(t) PROVE [Next]_vars
  BY <1>2 DEF Notify, Next
<1>3. CASE Network \/ Outside \/ Destructor
  BY <1>3 DEF Network, Outside, Destructor, Next
<1>4. CASE UNCHANGED requestVars
  BY <1>4 DEF requestVars
<1> QED
  BY <1>1, <1>2, <1>3, <1>4 DEF RequestsNext

(* BotApiExecutor with the requests it runs is BotApiExecutor: whatever    *)
(* the HTTP client and the network do, the pool behaves as specified.      *)
THEOREM RequestsUseThePool == RequestsSpec => Spec
<1>1. RequestsInit => Init
  BY DEF RequestsInit
<1> QED
  BY <1>1, StepIsOfThePool, PTL DEF RequestsSpec, Spec

(* So with the client attached each coroutine has one thread, no wakeup is *)
(* lost, and the requests are served as AwaitedCalls promises.             *)
THEOREM RequestsKeepThePromises ==
  RequestsSpec =>
    /\ []OneThreadPerCoroutine
    /\ []WakeupForEachRequest
    /\ PoolServesCalls
BY RequestsUseThePool, CoroutinesRunOnOneThread, NoWakeupIsLost,
   PoolImplementsCalls, PTL

-----------------------------------------------------------------------------
(* The turns of the client. *)

(* The bot talks to one host. *)
OneHost == \E h : Hosts = {h}

(* Connection c has been leased in the round that is under way. *)
Used(c) == IF c[2] < roundRobin % PoolSize THEN 1 ELSE 0

RoundsComplete(n) ==
  \A c \in Http!Connections : leases[c] = n + Used(c)

TurnInv ==
  /\ roundRobin \in 0..CounterSize - 1
  /\ leases \in [Http!Connections -> Nat]
  /\ OneHost => \E n \in Nat : RoundsComplete(n)

(* Quotient and remainder are unique. *)
LEMMA UniqueRemainder ==
  ASSUME NEW p \in Nat \ {0}, NEW q \in Int, NEW r \in 0..p - 1,
         NEW k \in Int, NEW s \in 0..p - 1, p * q + r = p * k + s
  PROVE  r = s
<1> DEFINE d == q - k
<1>1. d \in Int /\ p * d = s - r
  OBVIOUS
<1> HIDE DEF d
<1>2. CASE d >= 1
  <2>1. p * (d - 1) >= 0 /\ p * d = p * (d - 1) + p
    BY <1>1, <1>2
  <2> QED
    BY <1>1, <2>1
<1>3. CASE d <= -1
  <2>1. p * (-1 - d) >= 0 /\ p * d = -(p * (-1 - d)) - p
    BY <1>1, <1>3
  <2> QED
    BY <1>1, <2>1
<1>4. CASE d = 0
  BY <1>1, <1>4
<1> QED
  BY <1>1, <1>2, <1>3, <1>4

(* Remainders of successive numbers. *)
LEMMA NextRemainder ==
  ASSUME NEW p \in Nat \ {0}, NEW a \in Nat
  PROVE  /\ a % p \in 0..p - 1
         /\ (a + 1) % p = IF a % p = p - 1 THEN 0 ELSE (a % p) + 1
<1> DEFINE q == a \div p
           r == a % p
           k == (a + 1) \div p
           s == (a + 1) % p
<1>1. q \in Nat /\ r \in 0..p - 1 /\ a = p * q + r
  OBVIOUS
<1>2. k \in Nat /\ s \in 0..p - 1 /\ a + 1 = p * k + s
  OBVIOUS
<1> HIDE DEF q, r, k, s
<1>3. \A l \in Int, z \in 0..p - 1 : p * l + z = p * k + s => z = s
  <2>1. k \in Int
    BY <1>2
  <2> QED
    BY <1>2, <2>1, UniqueRemainder, Zenon
<1>4. CASE r = p - 1
  <2>1. p * (q + 1) + 0 = p * k + s
    BY <1>1, <1>2, <1>4
  <2>2. 0 \in 0..p - 1 /\ q + 1 \in Int
    BY <1>1
  <2>3. s = 0
    BY <2>1, <2>2, <1>3, Zenon
  <2> QED
    BY <1>1, <1>4, <2>3 DEF r, s
<1>5. CASE r # p - 1
  <2>1. p * q + (r + 1) = p * k + s
    BY <1>1, <1>2
  <2>2. r + 1 \in 0..p - 1
    BY <1>1, <1>5
  <2>3. s = r + 1
    BY <1>1, <2>1, <2>2, <1>3
  <2> QED
    BY <1>1, <1>5, <2>3 DEF r, s
<1> QED
  BY <1>4, <1>5

(* The turn goes round, also where the counter wraps. *)
LEMMA NextTurn ==
  ASSUME roundRobin \in 0..CounterSize - 1,
         roundRobin' = (roundRobin + 1) % CounterSize
  PROVE  /\ roundRobin' \in 0..CounterSize - 1
         /\ roundRobin % PoolSize \in 0..PoolSize - 1
         /\ roundRobin' % PoolSize =
              IF roundRobin % PoolSize = PoolSize - 1
                THEN 0 ELSE (roundRobin % PoolSize) + 1
<1>1. /\ PoolSize \in Nat \ {0} /\ CounterSize \in Nat \ {0}
      /\ CounterSize % PoolSize = 0 /\ roundRobin \in Nat
  BY ClientAssumption
<1>2. /\ roundRobin % PoolSize \in 0..PoolSize - 1
      /\ (roundRobin + 1) % PoolSize =
           IF roundRobin % PoolSize = PoolSize - 1
             THEN 0 ELSE (roundRobin % PoolSize) + 1
  BY <1>1, NextRemainder
<1>3. /\ (roundRobin + 1) % CounterSize =
           IF roundRobin % CounterSize = CounterSize - 1
             THEN 0 ELSE (roundRobin % CounterSize) + 1
      /\ roundRobin % CounterSize \in 0..CounterSize - 1
  BY <1>1, NextRemainder
<1>4. roundRobin % CounterSize = roundRobin
  <2> DEFINE k == roundRobin \div CounterSize
             s == roundRobin % CounterSize
  <2>1. k \in Nat /\ s \in 0..CounterSize - 1
        /\ roundRobin = CounterSize * k + s
    BY <1>1
  <2> HIDE DEF k, s
  <2>2. CounterSize * 0 + roundRobin = CounterSize * k + s
    BY <1>1, <2>1
  <2>3. roundRobin = s
    BY <1>1, <2>1, <2>2, UniqueRemainder
  <2> QED
    BY <2>3 DEF s
<1>5. CASE roundRobin = CounterSize - 1
  <2>1. roundRobin' = 0 /\ roundRobin + 1 = CounterSize
    BY <1>1, <1>3, <1>4, <1>5
  <2>2. 0 % PoolSize = 0
    <3> DEFINE k == 0 \div PoolSize
               s == 0 % PoolSize
    <3>1. k \in Int /\ s \in 0..PoolSize - 1 /\ 0 = PoolSize * k + s
      BY <1>1
    <3> HIDE DEF k, s
    <3>2. PoolSize * 0 + 0 = PoolSize * k + s /\ 0 \in 0..PoolSize - 1
      BY <1>1, <3>1
    <3>3. 0 = s
      BY <1>1, <3>1, <3>2, UniqueRemainder
    <3> QED
      BY <3>3 DEF s
  <2>3. roundRobin' % PoolSize = (roundRobin + 1) % PoolSize
    BY <1>1, <2>1, <2>2
  <2> QED
    BY <1>1, <1>2, <2>1, <2>3
<1>6. CASE roundRobin # CounterSize - 1
  <2>1. roundRobin' = roundRobin + 1
    BY <1>3, <1>4, <1>6
  <2> QED
    BY <1>1, <1>2, <1>6, <2>1
<1> QED
  BY <1>5, <1>6

(* A lease moves the round on by one connection. *)
LEMMA LeaseTurns ==
  ASSUME TurnInv, NEW w, NEW h \in Hosts, Http!LeaseClient(w, h)
  PROVE  TurnInv'
<1> DEFINE r  == roundRobin % PoolSize
           r1 == roundRobin' % PoolSize
           c  == <<h, r>>
<1>1. /\ roundRobin' \in 0..CounterSize - 1
      /\ r \in 0..PoolSize - 1
      /\ r1 = IF r = PoolSize - 1 THEN 0 ELSE r + 1
  BY NextTurn DEF TurnInv, Http!LeaseClient
<1>2. leases' = [leases EXCEPT ![c] = @ + 1]
  BY DEF Http!LeaseClient, Http!Turn
<1>3. \A d \in Http!Connections : Used(d) = IF d[2] < r THEN 1 ELSE 0
  BY DEF Used
<1>4. \A d \in Http!Connections : Used(d)' = IF d[2] < r1 THEN 1 ELSE 0
  BY DEF Used
<1> HIDE DEF r, r1
<1>5. c \in Http!Connections
  BY <1>1 DEF Http!Connections
<1>6. /\ leases' \in [Http!Connections -> Nat]
      /\ leases'[c] = leases[c] + 1
      /\ \A d \in Http!Connections : d # c => leases'[d] = leases[d]
  BY <1>2, <1>5 DEF TurnInv
<1>7. ASSUME OneHost, NEW n \in Nat, RoundsComplete(n)
      PROVE  \E k \in Nat : RoundsComplete(k)'
  <2>1. \A d \in Http!Connections :
          /\ d = <<h, d[2]>> /\ d[2] \in 0..PoolSize - 1
          /\ d # c => d[2] # r
    BY <1>7 DEF OneHost, Http!Connections
  <2>2. \A d \in Http!Connections :
          leases[d] = n + (IF d[2] < r THEN 1 ELSE 0)
    BY <1>3, <1>7 DEF RoundsComplete
  <2>3. \A d \in Http!Connections :
          leases'[d] = n + (IF d[2] <= r THEN 1 ELSE 0)
    <3> SUFFICES ASSUME NEW d \in Http!Connections
                 PROVE  leases'[d] = n + (IF d[2] <= r THEN 1 ELSE 0)
      OBVIOUS
    <3>1. CASE d = c
      <4>1. d[2] = r /\ leases[d] = n
        BY <1>1, <2>2, <3>1
      <4> QED
        BY <1>1, <1>6, <3>1, <4>1
    <3>2. CASE d # c
      <4>1. d[2] # r /\ d[2] \in 0..PoolSize - 1
        BY <2>1, <3>2
      <4>2. leases'[d] = n + (IF d[2] < r THEN 1 ELSE 0)
        BY <1>6, <2>2, <3>2
      <4> QED
        BY <1>1, <4>1, <4>2
    <3> QED
      BY <3>1, <3>2
  <2>4. PICK k \in Nat : k = IF r = PoolSize - 1 THEN n + 1 ELSE n
    OBVIOUS
  <2>5. \A d \in Http!Connections :
          leases'[d] = k + (IF d[2] < r1 THEN 1 ELSE 0)
    BY <1>1, <2>1, <2>3, <2>4, ClientAssumption
  <2>6. RoundsComplete(k)'
    BY <1>4, <2>5 DEF RoundsComplete
  <2> QED
    BY <2>6
<1>8. OneHost => \E k \in Nat : RoundsComplete(k)'
  BY <1>7 DEF TurnInv
<1> QED
  BY <1>1, <1>6, <1>8 DEF TurnInv

(* Everything else that happens leaves the turns alone. *)
LEMMA TurnStep == TurnInv /\ [RequestsNext]_requestVars => TurnInv'
<1> SUFFICES ASSUME TurnInv, [RequestsNext]_requestVars PROVE TurnInv'
  OBVIOUS
<1>1. CASE UNCHANGED <<roundRobin, leases>>
  BY <1>1 DEF TurnInv, RoundsComplete, Used
<1>2. ASSUME NEW w \in Workers, Begin(w) PROVE TurnInv'
  BY <1>1, <1>2, LeaseTurns DEF Begin, Http!SendRequest
<1>3. ASSUME NEW w \in Workers, End(w) \/ Loop(w) \/ Expire(w)
      PROVE  UNCHANGED <<roundRobin, leases>>
  BY <1>3 DEF End, Loop, Expire, Http!Return, Http!TimeOut, httpVars
<1>4. ASSUME \/ \E t \in Threads : Notify(t)
             \/ Network \/ Outside \/ Destructor
             \/ UNCHANGED requestVars
      PROVE  UNCHANGED <<roundRobin, leases>>
  BY <1>4 DEF Notify, Network, Outside, Destructor, Http!Respond, Http!Break,
              httpVars, requestVars
<1> QED
  BY <1>1, <1>2, <1>3, <1>4 DEF RequestsNext

(* leaseClient: the bot's client, whose one host is Telegram, spreads its  *)
(* requests evenly over its connections, for any number of connections,    *)
(* through the wrap of the counter and whichever threads ask.              *)
THEOREM ConnectionsTakeTurns ==
  OneHost => (RequestsSpec => []LeasesAreBalanced)
<1> SUFFICES ASSUME OneHost PROVE RequestsSpec => []LeasesAreBalanced
  OBVIOUS
<1>1. RequestsInit => TurnInv
  <2> SUFFICES ASSUME RequestsInit PROVE TurnInv
    OBVIOUS
  <2>1. roundRobin = 0 /\ leases = [c \in Http!Connections |-> 0]
    BY DEF RequestsInit, Http!Init
  <2>2. 0 % PoolSize \in 0..PoolSize - 1 /\ 0 \in 0..CounterSize - 1
    BY ClientAssumption, NextRemainder
  <2>3. 0 % PoolSize = 0
    BY ClientAssumption
  <2>4. \A c \in Http!Connections : Used(c) = 0
    BY <2>1, <2>3 DEF Used, Http!Connections
  <2>5. RoundsComplete(0)
    BY <2>1, <2>4 DEF RoundsComplete
  <2> QED
    BY <2>1, <2>2, <2>5 DEF TurnInv
<1>2. TurnInv => LeasesAreBalanced
  <2> SUFFICES ASSUME TurnInv,
                      NEW c \in Http!Connections, NEW d \in Http!Connections
               PROVE  leases[c] <= leases[d] + 1
    BY DEF LeasesAreBalanced, Http!LeasesAreBalanced
  <2>1. PICK n \in Nat : RoundsComplete(n)
    BY DEF TurnInv
  <2> QED
    BY <2>1 DEF RoundsComplete, Used
<1> QED
  BY <1>1, <1>2, TurnStep, PTL DEF RequestsSpec

-----------------------------------------------------------------------------
(* The requests of the client. *)

Stages == {"idle", "leased", "sent", "answered", "failed"}

ClientTypes ==
  /\ pools \subseteq Hosts
  /\ roundRobin \in 0..CounterSize - 1
  /\ stage \in [Workers -> Stages]
  /\ client \in [Workers -> Http!Connections]
  /\ line \in [Http!Connections -> Seq(Workers \cup {GivenUp})]
  /\ leases \in [Http!Connections -> Nat]
  /\ requests \in 0..MaxCalls

(* Each lease is of one request, and of a pool that has been opened. *)
LeasesCounted ==
  \A c \in Http!Connections :
    leases[c] <= requests /\ (leases[c] > 0 => c[1] \in pools)

(* Place i in the line of connection c is that of a request of worker w. *)
Holds(c, i, w) == i \in DOMAIN line[c] /\ line[c][i] = w

(* A worker has a place in a line exactly while it waits: one place, on    *)
(* the connection it has leased.                                           *)
OwnsPlace(w) ==
  /\ \A c \in Http!Connections : \A i \in Nat :
       Holds(c, i, w) => stage[w] = "sent" /\ c = client[w]
  /\ \A c \in Http!Connections : \A i, j \in Nat :
       Holds(c, i, w) /\ Holds(c, j, w) => i = j
  /\ stage[w] = "sent" => \E i \in Nat : Holds(client[w], i, w)

PlacesOwned == \A w \in Workers : OwnsPlace(w)

BusyInCall == \A w \in Workers : stage[w] # "idle" => pc[w] = "run"

ClientInv == ClientTypes /\ LeasesCounted /\ PlacesOwned /\ BusyInCall

(* Appending a request to a line adds the last place to it. *)
LEMMA AppendedPlace ==
  ASSUME NEW S, NEW q \in Seq(S), NEW x \in S
  PROVE  /\ Append(q, x) \in Seq(S)
         /\ \A i \in Nat : \A y :
              i \in DOMAIN Append(q, x) /\ Append(q, x)[i] = y
              <=> \/ i \in DOMAIN q /\ q[i] = y
                  \/ i = Len(q) + 1 /\ x = y
  BY DOMAIN Append(q, x) = 1..Len(q) + 1, DOMAIN q = 1..Len(q)

(* Answering the first request moves the others up. *)
LEMMA RemainingPlaces ==
  ASSUME NEW S, NEW q \in Seq(S), q # <<>>
  PROVE  /\ Tail(q) \in Seq(S)
         /\ Head(q) \in S /\ 1 \in DOMAIN q /\ q[1] = Head(q)
         /\ \A i \in Nat : \A y : i \in DOMAIN Tail(q) /\ Tail(q)[i] = y
              <=> i # 0 /\ i + 1 \in DOMAIN q /\ q[i + 1] = y
<1>1. /\ Tail(q) \in Seq(S) /\ Head(q) \in S
      /\ Len(Tail(q)) = Len(q) - 1
      /\ \A i \in 1..Len(Tail(q)) : Tail(q)[i] = q[i + 1]
  BY HeadTailProperties
<1>2. Len(q) \in Nat \ {0} /\ DOMAIN q = 1..Len(q)
      /\ DOMAIN Tail(q) = 1..Len(Tail(q))
  BY <1>1, EmptySeq
<1>3. 1 \in DOMAIN q /\ q[1] = Head(q)
  BY <1>2
<1> QED
  BY <1>1, <1>2, <1>3

(* leaseClient takes a turn; the caller has no place yet. *)
LEMMA LeaseKeepsClient ==
  ASSUME ClientInv, NEW w \in Workers, pc[w] = "run",
         NEW h \in Hosts, Http!LeaseClient(w, h), UNCHANGED pc
  PROVE  ClientInv'
<1> DEFINE c == <<h, Http!Turn(roundRobin)>>
<1>1. c \in Http!Connections /\ roundRobin' \in 0..CounterSize - 1
  BY NextTurn DEF ClientInv, ClientTypes, Http!LeaseClient, Http!Turn,
                  Http!Connections
<1>2. /\ requests' = requests + 1 /\ requests < MaxCalls
      /\ pools' = pools \cup {h}
      /\ client' = [client EXCEPT ![w] = c]
      /\ leases' = [leases EXCEPT ![c] = @ + 1]
      /\ stage[w] = "idle" /\ stage' = [stage EXCEPT ![w] = "leased"]
      /\ line' = line
  BY DEF Http!LeaseClient
<1>3. c[1] = h
  OBVIOUS
<1> HIDE DEF c
<1>4. ClientTypes'
  BY <1>1, <1>2, CallAssumption DEF ClientInv, ClientTypes, Stages
<1>5. LeasesCounted'
  BY <1>1, <1>2, <1>3 DEF ClientInv, ClientTypes, LeasesCounted
<1>6. ASSUME NEW v \in Workers PROVE OwnsPlace(v)'
  <2>1. v # w => client'[v] = client[v] /\ stage'[v] = stage[v]
    BY <1>2 DEF ClientInv, ClientTypes
  <2>2. stage'[w] # "sent"
    BY <1>2 DEF ClientInv, ClientTypes
  <2> QED
    BY <1>2, <2>1, <2>2 DEF ClientInv, PlacesOwned, OwnsPlace, Holds
<1>7. BusyInCall'
  BY <1>2 DEF ClientInv, ClientTypes, BusyInCall
<1> QED
  BY <1>4, <1>5, <1>6, <1>7 DEF ClientInv, PlacesOwned

(* sendRequest puts the caller at the end of the line it has leased. *)
LEMMA SendKeepsClient ==
  ASSUME ClientInv, NEW w \in Workers, Http!SendRequest(w), UNCHANGED pc
  PROVE  ClientInv'
<1> DEFINE c == client[w]
<1>1. c \in Http!Connections /\ line[c] \in Seq(Workers \cup {GivenUp})
  BY DEF ClientInv, ClientTypes
<1>2. /\ stage[w] = "leased" /\ stage' = [stage EXCEPT ![w] = "sent"]
      /\ line' = [line EXCEPT ![c] = Append(line[c], w)]
      /\ UNCHANGED <<pools, roundRobin, client, leases, requests>>
  BY DEF Http!SendRequest
<1>3. PICK n \in Nat : n = Len(line[c]) + 1
  BY <1>1
<1>4. /\ Append(line[c], w) \in Seq(Workers \cup {GivenUp})
      /\ \A i \in Nat : \A y :
           i \in DOMAIN Append(line[c], w) /\ Append(line[c], w)[i] = y
             <=> Holds(c, i, y) \/ (i = n /\ y = w)
  BY <1>1, <1>3, AppendedPlace DEF Holds
<1>5. \A d \in Http!Connections, i \in Nat : \A y :
        Holds(d, i, y)' <=> Holds(d, i, y) \/ (d = c /\ i = n /\ y = w)
  <2>1. \A d \in Http!Connections :
          line'[d] = IF d = c THEN Append(line[c], w) ELSE line[d]
    BY <1>2 DEF ClientInv, ClientTypes
  <2>2. ASSUME NEW d \in Http!Connections, NEW i \in Nat, NEW y
        PROVE  Holds(d, i, y)' <=>
                 Holds(d, i, y) \/ (d = c /\ i = n /\ y = w)
    <3>1. CASE d = c
      <4>1. line'[d] = Append(line[c], w)
        BY <2>1, <3>1
      <4> QED
        BY <1>4, <3>1, <4>1 DEF Holds
    <3>2. CASE d # c
      <4>1. line'[d] = line[d]
        BY <2>1, <3>2
      <4> QED
        BY <3>2, <4>1 DEF Holds
    <3> QED
      BY <3>1, <3>2
  <2> QED
    BY <2>2
<1>6. ClientTypes'
  BY <1>1, <1>2, <1>4 DEF ClientInv, ClientTypes, Stages
<1>7. LeasesCounted'
  BY <1>2 DEF ClientInv, LeasesCounted
<1>8. /\ client'[w] = c /\ stage'[w] = "sent"
      /\ \A v \in Workers :
           client'[v] = client[v] /\ (v # w => stage'[v] = stage[v])
  BY <1>2 DEF ClientInv, ClientTypes
<1> HIDE DEF c
<1>9. ASSUME NEW v \in Workers PROVE OwnsPlace(v)'
  <2>1. CASE v = w
    <3>1. \A d \in Http!Connections, i \in Nat : ~Holds(d, i, w)
      BY <1>2 DEF ClientInv, PlacesOwned, OwnsPlace
    <3>2. \A d \in Http!Connections, i \in Nat :
            Holds(d, i, w)' <=> d = c /\ i = n
      BY <1>5, <3>1
    <3> QED
      BY <1>1, <1>8, <2>1, <3>2, Zenon DEF OwnsPlace
  <2>2. CASE v # w
    <3>1. \A d \in Http!Connections, i \in Nat :
            Holds(d, i, v)' <=> Holds(d, i, v)
      BY <1>5, <2>2
    <3>2. OwnsPlace(v) /\ client[v] \in Http!Connections
      BY DEF ClientInv, PlacesOwned, ClientTypes
    <3> QED
      BY <1>8, <2>2, <3>1, <3>2, Zenon DEF OwnsPlace
  <2> QED
    BY <2>1, <2>2
<1>10. BusyInCall'
  BY <1>2, <1>8 DEF ClientInv, BusyInCall
<1> QED
  BY <1>6, <1>7, <1>9, <1>10 DEF ClientInv, PlacesOwned

(* The host answers the first request of a line: its caller, if it still   *)
(* waits, has no place left, and the places of the others move up.         *)
LEMMA RespondKeepsClient ==
  ASSUME ClientInv, NEW c \in Http!Connections, Http!Respond(c), UNCHANGED pc
  PROVE  ClientInv'
<1> DEFINE q == line[c]
<1>1. /\ q # <<>> /\ q \in Seq(Workers \cup {GivenUp})
      /\ line' = [line EXCEPT ![c] = Tail(q)]
      /\ stage' = [w \in Workers |->
                     IF w = Head(q) THEN "answered" ELSE stage[w]]
      /\ UNCHANGED <<pools, roundRobin, client, leases, requests>>
  BY DEF Http!Respond, ClientInv, ClientTypes
<1>2. /\ Tail(q) \in Seq(Workers \cup {GivenUp})
      /\ Holds(c, 1, Head(q))
      /\ \A i \in Nat : \A y : i \in DOMAIN Tail(q) /\ Tail(q)[i] = y
           <=> i # 0 /\ Holds(c, i + 1, y)
  BY <1>1, RemainingPlaces DEF Holds
<1>3. \A d \in Http!Connections, i \in Nat : \A y :
        Holds(d, i, y)' <=>
          IF d = c THEN i # 0 /\ Holds(c, i + 1, y) ELSE Holds(d, i, y)
  <2>1. \A d \in Http!Connections :
          line'[d] = IF d = c THEN Tail(q) ELSE line[d]
    BY <1>1 DEF ClientInv, ClientTypes
  <2> QED
    BY <1>2, <2>1 DEF Holds
<1>4. ClientTypes'
  BY <1>1, <1>2 DEF ClientInv, ClientTypes, Stages
<1>5. LeasesCounted'
  BY <1>1 DEF ClientInv, LeasesCounted
<1>6. \A i \in Nat : \A y : Holds(c, i, y) => i # 0
  BY <1>1 DEF Holds
<1> HIDE DEF q
<1>7. ASSUME NEW v \in Workers PROVE OwnsPlace(v)'
  <2>1. /\ OwnsPlace(v) /\ client'[v] = client[v]
        /\ client[v] \in Http!Connections
        /\ stage'[v] = IF v = Head(q) THEN "answered" ELSE stage[v]
    BY <1>1 DEF ClientInv, PlacesOwned, ClientTypes
  <2>2. CASE v = Head(q)
    <3>1. \A d \in Http!Connections, i \in Nat :
            Holds(d, i, v) => d = c /\ i = 1
      BY <1>2, <2>1, <2>2 DEF OwnsPlace
    <3>2. \A d \in Http!Connections, i \in Nat : ~Holds(d, i, v)'
      BY <1>3, <3>1
    <3> QED
      BY <2>1, <2>2, <3>2 DEF OwnsPlace
  <2>3. CASE v # Head(q)
    <3>1. stage'[v] = stage[v]
      BY <2>1, <2>3
    <3>2. \A i \in Nat : Holds(c, i, v) => i # 1
      BY <1>1, <2>3 DEF Holds, q
    <3>3. \A d \in Http!Connections, i \in Nat :
            Holds(d, i, v)' => stage[v] = "sent" /\ d = client[v]
      BY <1>3, <2>1 DEF OwnsPlace
    <3>4. \A d \in Http!Connections, i, j \in Nat :
            Holds(d, i, v)' /\ Holds(d, j, v)' => i = j
      <4>1. SUFFICES ASSUME NEW d \in Http!Connections, NEW i \in Nat,
                            NEW j \in Nat, Holds(d, i, v)', Holds(d, j, v)'
                     PROVE  i = j
        OBVIOUS
      <4>2. CASE d = c
        <5>1. Holds(c, i + 1, v) /\ Holds(c, j + 1, v)
          BY <1>3, <4>1, <4>2
        <5>2. i + 1 \in Nat /\ j + 1 \in Nat
          OBVIOUS
        <5>3. i + 1 = j + 1
          BY <2>1, <5>1, <5>2, Zenon DEF OwnsPlace
        <5> QED
          BY <5>3
      <4>3. CASE d # c
        BY <1>3, <2>1, <4>1, <4>3 DEF OwnsPlace
      <4> QED
        BY <4>2, <4>3
    <3>5. ASSUME stage[v] = "sent"
          PROVE  \E i \in Nat : Holds(client[v], i, v)'
      <4>1. PICK i \in Nat : Holds(client[v], i, v)
        BY <2>1, <3>5 DEF OwnsPlace
      <4>2. CASE client[v] = c
        <5>1. i # 0 /\ i # 1
          BY <1>6, <3>2, <4>1, <4>2
        <5>2. i - 1 \in Nat /\ i - 1 # 0 /\ (i - 1) + 1 = i
          BY <5>1
        <5>3. Holds(c, i - 1, v)'
          BY <1>3, <4>1, <4>2, <5>2
        <5> QED
          BY <2>1, <4>2, <5>2, <5>3
      <4>3. CASE client[v] # c
        BY <1>3, <2>1, <4>1, <4>3
      <4> QED
        BY <4>2, <4>3
    <3> QED
      BY <2>1, <3>1, <3>3, <3>4, <3>5, Zenon DEF OwnsPlace
  <2> QED
    BY <2>2, <2>3
<1>8. BusyInCall'
  <2>1. \A v \in Workers : v = Head(q) => stage[v] = "sent"
    BY <1>2 DEF ClientInv, PlacesOwned, OwnsPlace
  <2> QED
    BY <1>1, <2>1 DEF ClientInv, BusyInCall
<1> QED
  BY <1>4, <1>5, <1>7, <1>8 DEF ClientInv, PlacesOwned

(* A caller that gives up leaves its place to a request of nobody. *)
LEMMA TimeOutKeepsClient ==
  ASSUME ClientInv, NEW w \in Workers, Http!TimeOut(w), UNCHANGED pc
  PROVE  ClientInv'
<1> PICK c \in Http!Connections : c = client[w]
  BY DEF ClientInv, ClientTypes
<1> PICK q \in Seq(Workers \cup {GivenUp}) : q = line[c]
  BY DEF ClientInv, ClientTypes
<1> DEFINE given == [i \in DOMAIN q |-> IF q[i] = w THEN GivenUp ELSE q[i]]
<1>1. /\ stage[w] = "sent" /\ stage' = [stage EXCEPT ![w] = "failed"]
      /\ line' = [line EXCEPT ![c] = given]
      /\ UNCHANGED <<pools, roundRobin, client, leases, requests>>
  BY DEF Http!TimeOut
<1>2. given \in Seq(Workers \cup {GivenUp}) /\ DOMAIN given = DOMAIN q
  <2>1. Len(q) \in Nat /\ DOMAIN q = 1..Len(q)
        /\ q \in [1..Len(q) -> Workers \cup {GivenUp}]
    BY LenProperties
  <2>2. given \in [1..Len(q) -> Workers \cup {GivenUp}]
    BY <2>1
  <2> QED
    BY <2>1, <2>2
<1>3. \A d \in Http!Connections, i \in Nat, v \in Workers :
        Holds(d, i, v)' <=> Holds(d, i, v) /\ ~(d = c /\ v = w)
  <2>1. \A d \in Http!Connections :
          line'[d] = IF d = c THEN given ELSE line[d]
    BY <1>1 DEF ClientInv, ClientTypes
  <2>2. ASSUME NEW i \in Nat, NEW v \in Workers
        PROVE  Holds(c, i, v)' <=> Holds(c, i, v) /\ v # w
    <3>1. line'[c] = given
      BY <2>1
    <3>2. Holds(c, i, v)' <=> i \in DOMAIN q /\ given[i] = v
      BY <1>2, <3>1 DEF Holds
    <3> QED
      BY <3>2, ClientAssumption DEF Holds
  <2>3. ASSUME NEW d \in Http!Connections, d # c,
               NEW i \in Nat, NEW v \in Workers
        PROVE  Holds(d, i, v)' <=> Holds(d, i, v)
    BY <2>1, <2>3 DEF Holds
  <2> HIDE DEF given
  <2> QED
    BY <2>2, <2>3
<1>4. ClientTypes'
  BY <1>1, <1>2 DEF ClientInv, ClientTypes, Stages
<1>5. LeasesCounted'
  BY <1>1 DEF ClientInv, LeasesCounted
<1>6. /\ client' = client /\ stage'[w] = "failed"
      /\ \A v \in Workers : v # w => stage'[v] = stage[v]
  BY <1>1 DEF ClientInv, ClientTypes
<1> HIDE DEF given
<1>7. ASSUME NEW v \in Workers PROVE OwnsPlace(v)'
  <2>1. OwnsPlace(v) /\ client[v] \in Http!Connections
    BY DEF ClientInv, PlacesOwned, ClientTypes
  <2>2. CASE v = w
    <3>1. \A d \in Http!Connections, i \in Nat : ~Holds(d, i, v)'
      BY <1>3, <2>1, <2>2 DEF OwnsPlace
    <3> QED
      BY <1>6, <2>2, <3>1 DEF OwnsPlace
  <2>3. CASE v # w
    <3>1. \A d \in Http!Connections, i \in Nat :
            Holds(d, i, v)' <=> Holds(d, i, v)
      BY <1>3, <2>3
    <3> QED
      BY <1>6, <2>1, <2>3, <3>1, Zenon DEF OwnsPlace
  <2> QED
    BY <2>2, <2>3
<1>8. BusyInCall'
  BY <1>1, <1>6 DEF ClientInv, BusyInCall
<1> QED
  BY <1>4, <1>5, <1>7, <1>8 DEF ClientInv, PlacesOwned

(* A connection that breaks fails every caller in its line. *)
LEMMA BreakKeepsClient ==
  ASSUME ClientInv, NEW c \in Http!Connections, Http!Break(c), UNCHANGED pc
  PROVE  ClientInv'
<1>1. /\ line' = [line EXCEPT ![c] = <<>>]
      /\ stage' = [w \in Workers |->
                     IF \E i \in DOMAIN line[c] : line[c][i] = w
                       THEN "failed" ELSE stage[w]]
      /\ UNCHANGED <<pools, roundRobin, client, leases, requests>>
  BY DEF Http!Break
<1>2. \A i \in DOMAIN line[c] : i \in Nat
  BY DEF ClientInv, ClientTypes
<1>3. \A d \in Http!Connections, i \in Nat : \A y :
        Holds(d, i, y)' <=> d # c /\ Holds(d, i, y)
  <2>1. \A d \in Http!Connections :
          line'[d] = IF d = c THEN <<>> ELSE line[d]
    BY <1>1 DEF ClientInv, ClientTypes
  <2> QED
    BY <2>1 DEF Holds
<1>4. ClientTypes'
  BY <1>1 DEF ClientInv, ClientTypes, Stages
<1>5. LeasesCounted'
  BY <1>1 DEF ClientInv, LeasesCounted
<1>6. \A v \in Workers :
        stage'[v] = IF \E i \in Nat : Holds(c, i, v)
                      THEN "failed" ELSE stage[v]
  BY <1>1, <1>2 DEF Holds
<1>7. ASSUME NEW v \in Workers PROVE OwnsPlace(v)'
  <2>1. /\ OwnsPlace(v) /\ client[v] \in Http!Connections
        /\ client'[v] = client[v]
    BY <1>1 DEF ClientInv, PlacesOwned, ClientTypes
  <2>2. CASE \E i \in Nat : Holds(c, i, v)
    <3>1. client[v] = c /\ stage'[v] = "failed"
      BY <1>6, <2>1, <2>2 DEF OwnsPlace
    <3>2. \A d \in Http!Connections, i \in Nat : ~Holds(d, i, v)'
      BY <1>3, <2>1, <3>1 DEF OwnsPlace
    <3> QED
      BY <3>1, <3>2 DEF OwnsPlace
  <2>3. CASE ~ \E i \in Nat : Holds(c, i, v)
    <3>1. stage'[v] = stage[v]
      BY <1>6, <2>3
    <3>2. \A d \in Http!Connections, i \in Nat :
            Holds(d, i, v)' <=> Holds(d, i, v)
      BY <1>3, <2>3
    <3> QED
      BY <2>1, <3>1, <3>2, Zenon DEF OwnsPlace
  <2> QED
    BY <2>2, <2>3
<1>8. BusyInCall'
  <2>1. \A v \in Workers : stage'[v] # "idle" => stage[v] # "idle"
    <3> SUFFICES ASSUME NEW v \in Workers, stage'[v] # "idle"
                 PROVE  stage[v] # "idle"
      OBVIOUS
    <3>1. CASE \E i \in Nat : Holds(c, i, v)
      BY <3>1 DEF ClientInv, PlacesOwned, OwnsPlace
    <3>2. CASE ~ \E i \in Nat : Holds(c, i, v)
      BY <1>6, <3>2
    <3> QED
      BY <3>1, <3>2
  <2> QED
    BY <2>1 DEF ClientInv, BusyInCall
<1> QED
  BY <1>4, <1>5, <1>7, <1>8 DEF ClientInv, PlacesOwned

(* The callable ends: the worker has no request while the coroutine that   *)
(* it resumes runs.                                                        *)
LEMMA EndKeepsClient ==
  ASSUME PoolTypeOK, ClientInv, NEW w \in Workers, End(w)
  PROVE  ClientInv'
<1>1. /\ stage[w] \in {"answered", "failed"}
      /\ stage' = [stage EXCEPT ![w] = "idle"]
      /\ UNCHANGED <<pools, roundRobin, client, line, leases, requests>>
  BY DEF End, Http!Return
<1>2. \A v \in Workers : v # w => pc'[v] = pc[v]
  BY DEF End, Call, PoolTypeOK
<1>3. /\ stage'[w] = "idle"
      /\ \A v \in Workers : v # w => stage'[v] = stage[v]
  BY <1>1 DEF ClientInv, ClientTypes
<1>4. ASSUME NEW v \in Workers PROVE OwnsPlace(v)'
  <2>1. OwnsPlace(v)
    BY DEF ClientInv, PlacesOwned
  <2>2. stage'[v] = "sent" <=> stage[v] = "sent"
    BY <1>1, <1>3
  <2> QED
    BY <1>1, <2>1, <2>2 DEF OwnsPlace, Holds
<1>5. ClientTypes' /\ LeasesCounted'
  BY <1>1 DEF ClientInv, ClientTypes, LeasesCounted, Stages
<1>6. BusyInCall'
  BY <1>2, <1>3 DEF ClientInv, BusyInCall
<1> QED
  BY <1>4, <1>5, <1>6 DEF ClientInv, PlacesOwned

(* Nothing but the end of the callable takes a worker out of it. *)
LEMMA PoolKeepsClient ==
  ASSUME PoolTypeOK, ClientInv,
         \/ \E w \in Workers : Loop(w)
         \/ \E t \in Threads : Notify(t)
         \/ Outside \/ Destructor
         \/ UNCHANGED requestVars
  PROVE  ClientInv'
<1>1. UNCHANGED httpVars
  BY DEF Loop, Notify, Outside, Destructor, requestVars
<1>2. \A v \in Workers : pc[v] = "run" => pc'[v] = "run"
  <2>1. ASSUME NEW w \in Workers, Loop(w)
        PROVE  \A v \in Workers : pc[v] = "run" => pc'[v] = "run"
    BY <2>1 DEF Loop, Wait, Take, Exit, PostFromWorker, Push, Leave,
                PoolTypeOK
  <2>2. ASSUME NEW t \in Threads, Notify(t)
        PROVE  \A v \in Workers : pc[v] = "run" => pc'[v] = "run"
    BY <2>2 DEF Notify, NotifyOne, AfterPost, Asleep, PoolTypeOK
  <2>3. CASE Outside
    BY <2>3, WorkerAssumption
       DEF Outside, WakeSpuriously, PostFromLoop, Push, MainReturns, PoolTypeOK
  <2>4. CASE Destructor
    BY <2>4 DEF Destructor, Destroy, Stop, NotifyAll, Join, Asleep, PoolTypeOK
  <2>5. CASE UNCHANGED requestVars
    BY <2>5 DEF requestVars, vars
  <2> QED
    BY <2>1, <2>2, <2>3, <2>4, <2>5
<1>3. ClientTypes' /\ LeasesCounted'
  BY <1>1 DEF httpVars, ClientInv, ClientTypes, LeasesCounted
<1>4. PlacesOwned'
  BY <1>1 DEF httpVars, ClientInv, PlacesOwned, OwnsPlace, Holds
<1>5. BusyInCall'
  BY <1>1, <1>2 DEF httpVars, ClientInv, BusyInCall
<1> QED
  BY <1>3, <1>4, <1>5 DEF ClientInv

(* Every step keeps the requests of the client in their places. *)
LEMMA ClientStep ==
  PoolTypeOK /\ ClientInv /\ [RequestsNext]_requestVars => ClientInv'
<1> SUFFICES ASSUME PoolTypeOK, ClientInv, [RequestsNext]_requestVars
             PROVE  ClientInv'
  OBVIOUS
<1>1. ASSUME NEW w \in Workers, Begin(w) PROVE ClientInv'
  <2>1. pc[w] = "run" /\ UNCHANGED pc
    BY <1>1 DEF Begin, vars
  <2>2. CASE \E h \in Hosts : Http!LeaseClient(w, h)
    BY <2>1, <2>2, LeaseKeepsClient
  <2>3. CASE Http!SendRequest(w)
    BY <2>1, <2>3, SendKeepsClient
  <2> QED
    BY <1>1, <2>2, <2>3 DEF Begin
<1>2. ASSUME NEW w \in Workers, End(w) PROVE ClientInv'
  BY <1>2, EndKeepsClient
<1>3. ASSUME NEW w \in Workers, Expire(w) PROVE ClientInv'
  BY <1>3, TimeOutKeepsClient DEF Expire, vars
<1>4. CASE Network
  BY <1>4, RespondKeepsClient, BreakKeepsClient DEF Network, vars
<1>5. CASE \/ \E w \in Workers : Loop(w)
           \/ \E t \in Threads : Notify(t)
           \/ Outside \/ Destructor
           \/ UNCHANGED requestVars
  BY <1>5, PoolKeepsClient
<1> QED
  BY <1>1, <1>2, <1>3, <1>4, <1>5 DEF RequestsNext

(* What a worker owns is what ClientTypeOK counts: no place, or one. *)
LEMMA PlacesOfWorker ==
  ASSUME ClientInv, NEW w \in Workers
  PROVE  IF stage[w] = "sent"
           THEN \E i \in DOMAIN line[client[w]] :
                  Http!Places(w) = {<<client[w], i>>}
           ELSE Http!Places(w) = {}
<1>1. \A p : p \in Http!Places(w) <=>
        \E c \in Http!Connections : \E i \in Nat :
          p = <<c, i>> /\ Holds(c, i, w)
  <2>1. \A c \in Http!Connections : \A i \in DOMAIN line[c] : i \in Nat
    BY DEF ClientInv, ClientTypes
  <2> QED
    BY <2>1 DEF Http!Places, Holds
<1>2. OwnsPlace(w) /\ client[w] \in Http!Connections
  BY DEF ClientInv, PlacesOwned, ClientTypes
<1>3. CASE stage[w] = "sent"
  <2>1. PICK i \in Nat : Holds(client[w], i, w)
    BY <1>2, <1>3 DEF OwnsPlace
  <2>2. \A p : p \in Http!Places(w) <=> p = <<client[w], i>>
    <3>1. \A c \in Http!Connections, j \in Nat :
            Holds(c, j, w) <=> c = client[w] /\ j = i
      <4>1. ASSUME NEW c \in Http!Connections, NEW j \in Nat, Holds(c, j, w)
            PROVE  c = client[w] /\ j = i
        <5>1. c = client[w]
          BY <1>2, <4>1, Zenon DEF OwnsPlace
        <5>2. Holds(client[w], j, w)
          BY <4>1, <5>1
        <5> QED
          BY <1>2, <2>1, <5>1, <5>2, Zenon DEF OwnsPlace
      <4> QED
        BY <2>1, <4>1
    <3>2. \A p : p \in Http!Places(w) => p = <<client[w], i>>
      BY <1>1, <3>1, Zenon
    <3>3. <<client[w], i>> \in Http!Places(w)
      BY <1>1, <1>2, <2>1, Zenon
    <3> QED
      BY <3>2, <3>3, Zenon
  <2>3. Http!Places(w) = {<<client[w], i>>}
    BY <2>2
  <2> QED
    BY <1>3, <2>1, <2>3 DEF Holds
<1>4. CASE stage[w] # "sent"
  BY <1>1, <1>2, <1>4 DEF OwnsPlace
<1> QED
  BY <1>3, <1>4

(* makeRequest: a worker that waits has one request, on the connection     *)
(* that it leased, and a worker that does not wait has none, whoever gave  *)
(* up before on that connection.  So an answer that comes late is not      *)
(* taken for the answer to another request, and a worker outside of its    *)
(* callable is given none.                                                 *)
THEOREM AnswersReachTheirRequests == RequestsSpec => []ClientTypeOK
<1>1. RequestsInit => ClientInv
  <2> SUFFICES ASSUME RequestsInit PROVE ClientInv
    OBVIOUS
  <2>1. /\ pools = {} /\ roundRobin = 0 /\ requests = 0
        /\ stage = [w \in Workers |-> "idle"]
        /\ client = [w \in Workers |-> CHOOSE c \in Http!Connections : TRUE]
        /\ line = [c \in Http!Connections |-> <<>>]
        /\ leases = [c \in Http!Connections |-> 0]
    BY DEF RequestsInit, Http!Init
  <2>2. \E c : c \in Http!Connections
    <3>1. PICK h : h \in Hosts
      BY ClientAssumption
    <3>2. 0 \in 0..PoolSize - 1
      BY ClientAssumption
    <3>3. <<h, 0>> \in Http!Connections
      BY <3>1, <3>2 DEF Http!Connections
    <3> QED
      BY <3>3
  <2>3. (CHOOSE c \in Http!Connections : TRUE) \in Http!Connections
    BY <2>2, Zenon
  <2>4. ClientTypes
    BY <2>1, <2>3, ClientAssumption, CallAssumption DEF ClientTypes, Stages
  <2>5. LeasesCounted
    BY <2>1 DEF LeasesCounted
  <2>6. PlacesOwned
    BY <2>1 DEF PlacesOwned, OwnsPlace, Holds
  <2>7. BusyInCall
    BY <2>1 DEF BusyInCall
  <2> QED
    BY <2>4, <2>5, <2>6, <2>7 DEF ClientInv
<1>2. ClientInv => ClientTypeOK
  <2> SUFFICES ASSUME ClientInv PROVE ClientTypeOK
    OBVIOUS
  <2>1. leases \in [Http!Connections -> 0..MaxCalls]
    BY CallAssumption DEF ClientInv, ClientTypes, LeasesCounted
  <2>2. Http!HttpTypeOK
    BY <2>1, PlacesOfWorker, Zenon
       DEF Http!HttpTypeOK, ClientInv, ClientTypes, LeasesCounted, Stages
  <2> QED
    BY <2>2 DEF ClientTypeOK, ClientInv, BusyInCall
<1>3. RequestsSpec => []PoolTypeOK
  BY RequestsUseThePool, PoolTyping, PTL
<1> QED
  BY <1>1, <1>2, <1>3, ClientStep, PTL DEF RequestsSpec

=============================================================================
