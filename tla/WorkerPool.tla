----------------------------- MODULE WorkerPool -----------------------------
(***************************************************************************)
(* The pool that runs blocking Bot API requests (BotApiExecutor): a task   *)
(* queue under one mutex, a condition variable, worker threads, and the    *)
(* coroutines that suspend themselves by posting a task.  The task of a    *)
(* coroutine runs the callable, keeps its outcome in the awaiter, and      *)
(* resumes the coroutine in the worker thread, where it runs to its next   *)
(* suspension, which may be another post.                                  *)
(*                                                                         *)
(* A critical section is one step.  The notification after it is another   *)
(* one, so whatever the other threads do in between is covered: a worker   *)
(* may run the task and the coroutine finish before the poster notifies.   *)
(***************************************************************************)
EXTENDS Naturals, Sequences, FiniteSets

CONSTANTS
  Coroutines,   \* the handlers that await requests
  Workers,      \* the threads of the pool
  NoTask,       \* an empty std::function
  Loops,        \* the other threads that run handlers: event loops, database
  MaxCalls      \* bound: requests posted

ASSUME WorkerAssumption ==
  /\ Workers # {} /\ IsFiniteSet(Workers)
  /\ IsFiniteSet(Loops)
  /\ Workers \cap Loops = {}
ASSUME TaskAssumption == NoTask \notin Coroutines
ASSUME CallAssumption == MaxCalls \in Nat

VARIABLES
  tasks,     \* _tasks: coroutines whose request is queued
  stopped,   \* _stopped
  pc,        \* where each thread is
  hand,      \* the coroutine whose task a worker took last
  coro,      \* "away": on another thread; "awaiting" in onBotPool; "here": on
             \* a worker
  answer,    \* result / exception of the awaiter
  main,      \* how far main() and the destructor of the pool have come
  calls      \* requests posted so far

vars == <<tasks, stopped, pc, hand, coro, answer, main, calls>>

Threads == Workers \cup Loops

Outcomes == {"value", "exception"}

Queued == {tasks[i] : i \in DOMAIN tasks}

(* Threads between the unlock of post() and its notify_one(). *)
Notifying == {t \in Threads : pc[t] = "notify"}

(* Workers that are about to evaluate the predicate of _cv.wait(). *)
Checking == {w \in Workers : pc[w] = "check"}

(* Workers asleep in _cv.wait(). *)
Asleep == {w \in Workers : pc[w] = "asleep"}

AllExited == \A w \in Workers : pc[w] = "exited"

Running(w) == pc[w] \in {"run", "resume"}

-----------------------------------------------------------------------------
(* How many threads the pool has.  BOT_WORKER_THREADS is unset, or it is a *)
(* text that begins with the digits of a number, or with something else.   *)

DefaultWorkers == 32

MaxWorkers == 256

SizeMax == 2^64 - 1

Environment ==
  [kind : {"unset", "text"}] \cup [kind : {"digits"}, number : Nat]

(* from_chars reads the digits in front and refuses what does not fit.     *)
WorkerThreadCount(env) ==
  IF env.kind = "digits" /\ env.number \in 1..SizeMax
    THEN IF env.number < MaxWorkers THEN env.number ELSE MaxWorkers
    ELSE DefaultWorkers

-----------------------------------------------------------------------------
(* WorkerPool::post, the critical section.  The pool may still be posted   *)
(* to while it shuts down; using it after its destruction is undefined.    *)
Push(t, k) ==
  /\ main # "destroyed"
  /\ calls < MaxCalls
  /\ calls' = calls + 1
  /\ tasks' = Append(tasks, k)
  /\ pc' = [pc EXCEPT ![t] = "notify"]
  /\ coro' = [coro EXCEPT ![k] = "awaiting"]
  /\ answer' = [answer EXCEPT ![k] = "none"]   \* a new awaiter
  /\ UNCHANGED <<stopped, hand, main>>

(* A handler that runs on another thread awaits a request. *)
PostFromLoop(l, k) == pc[l] = "idle" /\ coro[k] = "away" /\ Push(l, k)

(* A handler that was resumed on worker w awaits its next request. *)
PostFromWorker(w) == pc[w] = "resume" /\ Push(w, hand[w])

(* Seeded slip: no thread returns from post() into the loop of a worker. *)
AfterPostIdle(t) == "idle"

AfterPost(t) == IF t \in Workers THEN "check" ELSE "idle"

(* Seeded slip: post() notifies nobody. *)
NotifyNobody(t) ==
  /\ pc[t] = "notify"
  /\ pc' = [pc EXCEPT ![t] = AfterPost(t)]
  /\ UNCHANGED <<tasks, stopped, hand, coro, answer, main, calls>>

(* WorkerPool::post, notify_one(): wakes one of the sleeping workers. *)
NotifyOne(t) ==
  /\ pc[t] = "notify"
  /\ \/ /\ Asleep = {}
        /\ pc' = [pc EXCEPT ![t] = AfterPost(t)]
     \/ \E w \in Asleep :
          pc' = [pc EXCEPT ![t] = AfterPost(t), ![w] = "check"]
  /\ UNCHANGED <<tasks, stopped, hand, coro, answer, main, calls>>

-----------------------------------------------------------------------------
(* WorkerPool::workerLoop *)

(* The predicate is false: the worker goes to sleep. *)
Wait(w) ==
  /\ pc[w] = "check"
  /\ ~stopped /\ tasks = <<>>
  /\ pc' = [pc EXCEPT ![w] = "asleep"]
  /\ UNCHANGED <<tasks, stopped, hand, coro, answer, main, calls>>

(* A condition variable may wake without a notification. *)
WakeSpuriously(w) ==
  /\ pc[w] = "asleep"
  /\ pc' = [pc EXCEPT ![w] = "check"]
  /\ UNCHANGED <<tasks, stopped, hand, coro, answer, main, calls>>

(* Seeded slip: the task at the front is copied and not popped. *)
TakeWithoutPop(w) ==
  /\ pc[w] = "check"
  /\ tasks # <<>>
  /\ pc' = [pc EXCEPT ![w] = "run"]
  /\ hand' = [hand EXCEPT ![w] = Head(tasks)]
  /\ UNCHANGED <<tasks, stopped, coro, answer, main, calls>>

Take(w) ==
  /\ pc[w] = "check"
  /\ tasks # <<>>
  /\ tasks' = Tail(tasks)
  /\ pc' = [pc EXCEPT ![w] = "run"]
  /\ hand' = [hand EXCEPT ![w] = Head(tasks)]
  /\ UNCHANGED <<stopped, coro, answer, main, calls>>

(* Seeded slip: a stopped worker leaves whatever is in the queue. *)
ExitAtOnce(w) ==
  /\ pc[w] = "check"
  /\ stopped
  /\ pc' = [pc EXCEPT ![w] = "exited"]
  /\ UNCHANGED <<tasks, stopped, hand, coro, answer, main, calls>>

Exit(w) ==
  /\ pc[w] = "check"
  /\ stopped /\ tasks = <<>>
  /\ pc' = [pc EXCEPT ![w] = "exited"]
  /\ UNCHANGED <<tasks, stopped, hand, coro, answer, main, calls>>

-----------------------------------------------------------------------------
(* The task that await_suspend posts. *)

(* The callable returns or throws; handle.resume() starts the coroutine on *)
(* this thread, and await_resume returns the result or rethrows.           *)
Call(w) ==
  /\ pc[w] = "run"
  /\ \E r \in Outcomes : answer' = [answer EXCEPT ![hand[w]] = r]
  /\ pc' = [pc EXCEPT ![w] = "resume"]
  /\ coro' = [coro EXCEPT ![hand[w]] = "here"]
  /\ UNCHANGED <<tasks, stopped, hand, main, calls>>

(* Seeded slip: wait() has no predicate: the worker sleeps until it is     *)
(* notified, and does not look at the queue before.                        *)
LeaveToSleep(w) ==
  /\ pc[w] = "resume"
  /\ pc' = [pc EXCEPT ![w] = "asleep"]
  /\ coro' = [coro EXCEPT ![hand[w]] = "away"]
  /\ UNCHANGED <<tasks, stopped, hand, answer, main, calls>>

(* The coroutine ends or awaits something else, a statement for instance:  *)
(* resume() returns and the worker goes back to its loop.                  *)
Leave(w) ==
  /\ pc[w] = "resume"
  /\ pc' = [pc EXCEPT ![w] = "check"]
  /\ coro' = [coro EXCEPT ![hand[w]] = "away"]
  /\ UNCHANGED <<tasks, stopped, hand, answer, main, calls>>

-----------------------------------------------------------------------------
(* The end of the process: main() leaves app().run() after a signal and    *)
(* destroys its locals, the Bot and its HTTP client among them; then the   *)
(* static pool is destroyed.                                               *)
MainReturns ==
  /\ main = "serving"
  /\ main' = "returned"
  /\ UNCHANGED <<tasks, stopped, pc, hand, coro, answer, calls>>

(* WorkerPool::~WorkerPool *)
Stop ==
  /\ main = "returned"
  /\ main' = "stopping"
  /\ stopped' = TRUE
  /\ UNCHANGED <<tasks, pc, hand, coro, answer, calls>>

(* Seeded slip: one sleeping worker is woken instead of all. *)
NotifyOneOfAll ==
  /\ main = "stopping"
  /\ main' = "joining"
  /\ \/ Asleep = {} /\ UNCHANGED pc
     \/ \E w \in Asleep : pc' = [pc EXCEPT ![w] = "check"]
  /\ UNCHANGED <<tasks, stopped, hand, coro, answer, calls>>

NotifyAll ==
  /\ main = "stopping"
  /\ main' = "joining"
  /\ pc' = [t \in Threads |-> IF t \in Asleep THEN "check" ELSE pc[t]]
  /\ UNCHANGED <<tasks, stopped, hand, coro, answer, calls>>

Join ==
  /\ main = "joining"
  /\ AllExited
  /\ main' = "destroyed"
  /\ UNCHANGED <<tasks, stopped, pc, hand, coro, answer, calls>>

-----------------------------------------------------------------------------
Init ==
  /\ tasks = <<>>
  /\ stopped = FALSE
  /\ pc = [t \in Threads |-> IF t \in Workers THEN "check" ELSE "idle"]
  /\ hand = [w \in Workers |-> NoTask]
  /\ coro = [k \in Coroutines |-> "away"]
  /\ answer = [k \in Coroutines |-> "none"]
  /\ main = "serving"
  /\ calls = 0

WorkerStep(w) ==
  \/ Wait(w) \/ Take(w) \/ Exit(w) \/ Call(w) \/ PostFromWorker(w)
  \/ Leave(w)

Destroy == Stop \/ NotifyAll \/ Join

Next ==
  \/ \E w \in Workers : WorkerStep(w) \/ WakeSpuriously(w)
  \/ \E l \in Loops, k \in Coroutines : PostFromLoop(l, k)
  \/ \E t \in Threads : NotifyOne(t)
  \/ MainReturns \/ Destroy

Spec == Init /\ [][Next]_vars

-----------------------------------------------------------------------------
PoolTypeOK ==
  /\ tasks \in Seq(Coroutines)
  /\ stopped \in BOOLEAN
  /\ pc \in [Threads -> {"check", "asleep", "run", "resume", "notify",
                         "exited", "idle"}]
  /\ \A w \in Workers : pc[w] # "idle"
  /\ \A l \in Loops : pc[l] \in {"idle", "notify"}
  /\ hand \in [Workers -> Coroutines \cup {NoTask}]
  /\ \A w \in Workers : Running(w) => hand[w] # NoTask
  /\ coro \in [Coroutines -> {"away", "awaiting", "here"}]
  /\ answer \in [Coroutines -> Outcomes \cup {"none"}]
  /\ main \in {"serving", "returned", "stopping", "joining", "destroyed"}
  /\ stopped = (main \notin {"serving", "returned"})
  /\ calls \in 0..MaxCalls

(* A coroutine is resumed by one thread at a time, and by none while it is *)
(* queued: its frame, and the awaiter in it, has one user.                 *)
OneThreadPerCoroutine ==
  /\ \A i \in DOMAIN tasks :
       /\ coro[tasks[i]] = "awaiting"
       /\ \A j \in DOMAIN tasks : tasks[i] = tasks[j] => i = j
  /\ \A w \in Workers :
       /\ pc[w] = "run" => /\ coro[hand[w]] = "awaiting"
                           /\ \A i \in DOMAIN tasks : tasks[i] # hand[w]
       /\ pc[w] = "resume" => coro[hand[w]] = "here"
  /\ \A v, w \in Workers :
       Running(v) /\ Running(w) /\ hand[v] = hand[w] => v = w

(* No wakeup is lost: while a worker sleeps, every queued request has a    *)
(* worker about to look at the queue or a notification on its way, although *)
(* post() notifies outside of the critical section.                        *)
WakeupForEachRequest ==
  Asleep # {} =>
    Len(tasks) <= Cardinality(Notifying) + Cardinality(Checking)

AwaitedCalls == INSTANCE AwaitedCalls WITH
  Callers  <- Coroutines,
  Capacity <- Cardinality(Workers),
  line     <- tasks,
  served   <- {hand[w] : w \in {v \in Workers : pc[v] = "run"}}

(* onBotPool keeps the promise of AwaitedCalls, before, during and after   *)
(* a shutdown: each request is run once, in the order of posting, and its  *)
(* coroutine is resumed with the outcome of that request.                  *)
PoolServesCalls == AwaitedCalls!Spec

=============================================================================
