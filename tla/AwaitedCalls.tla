---------------------------- MODULE AwaitedCalls ----------------------------
(***************************************************************************)
(* What onBotPool promises to the coroutines: an awaited call is run once, *)
(* calls are begun in the order in which they were made, only so many run  *)
(* at a time, and the caller goes on with the outcome of its own call.     *)
(***************************************************************************)
EXTENDS Naturals, Sequences, FiniteSets

CONSTANTS
  Callers,    \* the coroutines
  Capacity    \* calls that may run at once

VARIABLES
  line,     \* callers whose call has not begun, oldest first
  served,   \* callers whose call is running
  answer    \* outcome of the last call of each caller

vars == <<line, served, answer>>

Outcomes == {"value", "exception"}

TypeOK ==
  /\ line \in Seq(Callers)
  /\ served \in SUBSET Callers
  /\ answer \in [Callers -> Outcomes \cup {"none"}]

InLine == {line[i] : i \in DOMAIN line}

Init ==
  /\ line = <<>>
  /\ served = {}
  /\ answer = [k \in Callers |-> "none"]

(* A caller suspends itself in co_await onBotPool(...). *)
Ask(k) ==
  /\ k \notin InLine \cup served
  /\ line' = Append(line, k)
  /\ answer' = [answer EXCEPT ![k] = "none"]
  /\ UNCHANGED served

(* The oldest call begins. *)
Serve ==
  /\ line # <<>>
  /\ Cardinality(served) < Capacity
  /\ line' = Tail(line)
  /\ served' = served \cup {Head(line)}
  /\ UNCHANGED answer

(* A call ends, with a result or an exception. *)
Reply(k, r) ==
  /\ k \in served
  /\ served' = served \ {k}
  /\ answer' = [answer EXCEPT ![k] = r]
  /\ UNCHANGED line

Next ==
  \/ \E k \in Callers : Ask(k) \/ \E r \in Outcomes : Reply(k, r)
  \/ Serve

Spec == Init /\ [][Next]_vars

=============================================================================
