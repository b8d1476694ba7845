---------------------------- MODULE BotRequests ----------------------------
(***************************************************************************)
(* The pool and the HTTP client together: the callable that a worker runs  *)
(* is one Bot API request, made through DrogonHttpClient in that worker's  *)
(* thread.                                                                 *)
(***************************************************************************)
EXTENDS WorkerPool

CONSTANTS Hosts, PoolSize, CounterSize, GivenUp   \* see HttpClient

VARIABLES pools, roundRobin, stage, client, line, leases, requests

Http == INSTANCE HttpClient WITH Callers <- Workers, MaxRequests <- MaxCalls

ASSUME ClientAssumption ==
  /\ Hosts # {}
  /\ PoolSize \in Nat \ {0}
  /\ CounterSize \in Nat \ {0}
  /\ CounterSize % PoolSize = 0
  /\ GivenUp \notin Workers

httpVars == <<pools, roundRobin, stage, client, line, leases, requests>>

requestVars == <<vars, httpVars>>

-----------------------------------------------------------------------------
(* The worker in its callable. *)
Begin(w) ==
  /\ pc[w] = "run"
  /\ (\E h \in Hosts : Http!LeaseClient(w, h)) \/ Http!SendRequest(w)
  /\ UNCHANGED vars

(* The end of the callable: a transport error is an exception, and so is   *)
(* an answer in which Telegram refuses the request.                        *)
End(w) ==
  /\ Http!Return(w)
  /\ Call(w)
  /\ stage[w] = "failed" => answer'[hand[w]] = "exception"

(* The rest of the loop of a worker. *)
Loop(w) ==
  /\ Wait(w) \/ Take(w) \/ Exit(w) \/ PostFromWorker(w) \/ Leave(w)
  /\ UNCHANGED httpVars

(* Events of the loop of the client. *)
Expire(w) == Http!TimeOut(w) /\ UNCHANGED vars

Network ==
  /\ \E c \in Http!Connections : Http!Respond(c) \/ Http!Break(c)
  /\ UNCHANGED vars

Outside ==
  /\ \/ \E w \in Workers : WakeSpuriously(w)
     \/ \E l \in Loops, k \in Coroutines : PostFromLoop(l, k)
     \/ MainReturns
  /\ UNCHANGED httpVars

Notify(t) == NotifyOne(t) /\ UNCHANGED httpVars

Destructor == Destroy /\ UNCHANGED httpVars

RequestsNext ==
  \/ \E w \in Workers : Begin(w) \/ End(w) \/ Loop(w) \/ Expire(w)
  \/ \E t \in Threads : Notify(t)
  \/ Network \/ Outside \/ Destructor

RequestsInit == Init /\ Http!Init

RequestsSpec == RequestsInit /\ [][RequestsNext]_requestVars

(* Threads that can run do run, and a shutdown that has begun goes on.     *)
(* While main() runs, the loop of the client does too and its timers fire; *)
(* afterwards ~DrogonHttpClient has stopped it, and a request that is in   *)
(* flight, or that a worker begins then, may end or not.  Nothing is       *)
(* assumed of the host and of the network, and nobody has to post, to send *)
(* a signal, or to wake a thread that is not notified.                     *)
FairRequestsSpec ==
  /\ RequestsSpec
  /\ \A w \in Workers :
       /\ WF_requestVars(Loop(w))
       /\ WF_requestVars(main = "serving" /\ (Begin(w) \/ End(w)))
       /\ WF_requestVars(main = "serving" /\ Expire(w))
  /\ \A t \in Threads : WF_requestVars(Notify(t))
  /\ WF_requestVars(Destructor)

-----------------------------------------------------------------------------
(* Types of the client, and no answer goes to the wrong request; a worker  *)
(* outside of its callable has no request.                                 *)
ClientTypeOK ==
  /\ Http!HttpTypeOK
  /\ \A w \in Workers : stage[w] # "idle" => pc[w] = "run"

LeasesAreBalanced == Http!LeasesAreBalanced

(* As long as the bot serves, a posted request comes back to its coroutine, *)
(* whatever the host answers: behind a queue, behind a request that is     *)
(* never answered, and when coroutines post from the workers that resumed  *)
(* them.                                                                   *)
EveryCallReturns ==
  \A k \in Coroutines :
    coro[k] = "awaiting" ~> (coro[k] # "awaiting" \/ main # "serving")

(* The destructor waits for nothing but requests: every worker, asleep or  *)
(* not, sees the stop and is joined, unless one is in a call for ever.     *)
DestructorReturns ==
  main = "stopping" ~>
    (main = "destroyed" \/ [](\E w \in Workers : pc[w] = "run"))

(* A stop abandons no request, unless it is posted when no thread is left: *)
(* the workers leave when the queue is empty, not when they see the stop.  *)
QueueIsDrained ==
  \A k \in Coroutines :
    (main = "stopping" /\ k \in Queued /\ ~AllExited) ~>
      (k \notin Queued \/ [](\E w \in Workers : pc[w] = "run"))

=============================================================================
