---------------------------- MODULE WebhookProofs ----------------------------
(***************************************************************************)
(* Theorems about Webhook, for any updates and any number of failures.     *)
(*                                                                         *)
(* AgainOnlyIfAckLost is not inductive: it does not say that an update     *)
(* which still waits at Telegram has been delivered only as often as its   *)
(* acknowledgement was lost.  Delivered says so.                           *)
(***************************************************************************)
EXTENDS Webhook, TLAPS

Delivered == \A u \in Updates : accepted[u] + handled[u] <= Allowance(u)

IInv == WebhookTypeOK /\ Delivered

(* Init establishes the invariant. *)
LEMMA InitDelivers == Init => IInv
BY UpdatesAssumption
   DEF Init, IInv, WebhookTypeOK, Delivered, Allowance

(* Accepting an update uses its delivery or loses its acknowledgement. *)
LEMMA AcceptDelivers ==
  ASSUME IInv, NEW u \in Updates, Accept(u)
  PROVE  IInv'
<1>1. WebhookTypeOK'
  <2>1. pending' \subseteq pending /\ made' = made
    BY DEF Accept
  <2>2. accepted' \in [Updates -> Nat] /\ lostAcks' \in [Updates -> Nat]
    BY DEF IInv, WebhookTypeOK, Accept
  <2>3. faults' \in 0..MaxFaults
    BY UpdatesAssumption DEF IInv, WebhookTypeOK, Accept, Fault
  <2> QED  BY <2>1, <2>2, <2>3 DEF IInv, WebhookTypeOK, Accept
<1>2. ASSUME NEW v \in Updates
      PROVE  accepted'[v] + handled'[v] <= Allowance(v)'
  <2>1. u \in made /\ u \in pending
    BY DEF IInv, WebhookTypeOK, Accept
  <2>2. /\ accepted[v] \in Nat /\ handled[v] \in Nat /\ lostAcks[v] \in Nat
        /\ accepted[v] + handled[v] <= Allowance(v)
    BY DEF IInv, WebhookTypeOK, Delivered
  <2>3. CASE v = u
    <3>1. /\ accepted'[u] = accepted[u] + 1 /\ handled'[u] = handled[u]
          /\ made' = made
      BY DEF IInv, WebhookTypeOK, Accept
    <3>2. CASE pending' = pending \ {u} /\ lostAcks' = lostAcks
      BY <2>1, <2>2, <2>3, <3>1, <3>2 DEF Allowance
    <3>3. CASE pending' = pending
                 /\ lostAcks' = [lostAcks EXCEPT ![u] = @ + 1]
      <4>1. lostAcks'[u] = lostAcks[u] + 1
        BY <3>3 DEF IInv, WebhookTypeOK
      <4> QED  BY <2>1, <2>2, <2>3, <3>1, <3>3, <4>1 DEF Allowance
    <3> QED  BY <3>2, <3>3 DEF Accept
  <2>4. CASE v # u
    <3>1. /\ accepted'[v] = accepted[v] /\ handled'[v] = handled[v]
          /\ lostAcks'[v] = lostAcks[v]
          /\ v \in made' \ pending' <=> v \in made \ pending
      BY <2>4 DEF IInv, WebhookTypeOK, Accept
    <3> QED  BY <2>2, <3>1 DEF Allowance
  <2> QED  BY <2>3, <2>4
<1> QED  BY <1>1, <1>2 DEF IInv, Delivered

(* Handling an update moves it from accepted to handled, or drops it. *)
LEMMA HandleDelivers ==
  ASSUME IInv, NEW u \in Updates, Handle(u)
  PROVE  IInv'
<1>1. accepted[u] \in Nat \ {0} /\ handled[u] \in Nat
  BY DEF IInv, WebhookTypeOK, Handle
<1>2. /\ accepted'[u] = accepted[u] - 1
      /\ handled'[u] \in {handled[u], handled[u] + 1}
      /\ \A v \in Updates : v # u => /\ accepted'[v] = accepted[v]
                                     /\ handled'[v] = handled[v]
  BY DEF IInv, WebhookTypeOK, Handle
<1>3. /\ accepted' \in [Updates -> Nat]
      /\ handled' \in [Updates -> Nat]
  BY <1>1 DEF IInv, WebhookTypeOK, Handle
<1>4. WebhookTypeOK'
  BY <1>3 DEF IInv, WebhookTypeOK, Handle
<1>5. ASSUME NEW v \in Updates
      PROVE  accepted'[v] + handled'[v] <= Allowance(v)'
  <2>1. /\ accepted[v] \in Nat /\ handled[v] \in Nat /\ Allowance(v) \in Nat
        /\ accepted[v] + handled[v] <= Allowance(v)
    BY DEF IInv, WebhookTypeOK, Delivered, Allowance
  <2>2. Allowance(v)' = Allowance(v)
    BY DEF Allowance, Handle
  <2> QED  BY <1>1, <1>2, <2>1, <2>2
<1> QED  BY <1>4, <1>5 DEF IInv, Delivered

(* A new update may be delivered no more often than before it was made. *)
LEMMA MakeDelivers ==
  ASSUME IInv, NEW u \in Updates, Make(u)
  PROVE  IInv'
<1>1. WebhookTypeOK'
  BY DEF IInv, WebhookTypeOK, Make
<1>2. \A v \in Updates : v \in made' \ pending' <=> v \in made \ pending
  BY DEF IInv, WebhookTypeOK, Make
<1> QED  BY <1>1, <1>2 DEF IInv, Delivered, Allowance, Make

(* The start-up sequence and the life of the process deliver nothing. *)
LEMMA LifeDelivers ==
  ASSUME IInv, RegisterWebhook \/ Crash \/ Start
  PROVE  IInv'
<1>1. CASE RegisterWebhook
  <2>1. /\ webhook' \in BOOLEAN
        /\ registering' \in {"getMe", "deleteWebhook", "setWebhook",
                            "returned"}
    BY <1>1
       DEF IInv, WebhookTypeOK, RegisterWebhook, GetMe, DeleteWebhook,
           SetWebhook, Request
  <2>2. faults' \in 0..MaxFaults
    <3>1. ASSUME NEW name, NEW effect, NEW next, Request(name, effect, next)
          PROVE  faults' = faults \/ (faults < MaxFaults /\ faults' = faults + 1)
      BY <3>1 DEF Request, Fault
    <3>2. faults' = faults \/ (faults < MaxFaults /\ faults' = faults + 1)
      BY <1>1, <3>1 DEF RegisterWebhook, GetMe, DeleteWebhook, SetWebhook
    <3> QED  BY <3>2, UpdatesAssumption DEF IInv, WebhookTypeOK
  <2>3. UNCHANGED <<made, pending, lostAcks, accepted, handled, up>>
    <3>1. ASSUME NEW name, NEW effect, NEW next, Request(name, effect, next)
          PROVE  UNCHANGED <<made, pending, lostAcks, accepted, handled, up>>
      BY <3>1 DEF Request, bot
    <3> QED
      BY <1>1, <3>1 DEF RegisterWebhook, GetMe, DeleteWebhook, SetWebhook
  <2> QED
    BY <2>1, <2>2, <2>3 DEF IInv, WebhookTypeOK, Delivered, Allowance
<1>2. CASE Crash
  <2>1. WebhookTypeOK'
    <3>1. faults' \in 0..MaxFaults
      BY <1>2, UpdatesAssumption DEF IInv, WebhookTypeOK, Crash, Fault
    <3>2. accepted' \in [Updates -> Nat]
      BY <1>2 DEF Crash
    <3> QED  BY <1>2, <3>1, <3>2 DEF IInv, WebhookTypeOK, Crash
  <2>2. ASSUME NEW v \in Updates
        PROVE  accepted'[v] + handled'[v] <= Allowance(v)'
    <3>1. /\ accepted[v] \in Nat /\ handled[v] \in Nat /\ Allowance(v) \in Nat
          /\ accepted[v] + handled[v] <= Allowance(v)
      BY DEF IInv, WebhookTypeOK, Delivered, Allowance
    <3>2. /\ accepted'[v] = 0 /\ handled'[v] = handled[v]
          /\ Allowance(v)' = Allowance(v)
      BY <1>2 DEF Crash, Allowance
    <3> QED  BY <3>1, <3>2
  <2> QED  BY <2>1, <2>2 DEF IInv, Delivered
<1>3. CASE Start
  BY <1>3 DEF IInv, WebhookTypeOK, Delivered, Allowance, Start
<1> QED  BY <1>1, <1>2, <1>3

(* Every step preserves the invariant. *)
LEMMA StepDelivers == IInv /\ [Next]_vars => IInv'
<1> SUFFICES ASSUME IInv, [Next]_vars PROVE IInv'
  OBVIOUS
<1>1. CASE UNCHANGED vars
  BY <1>1 DEF IInv, WebhookTypeOK, Delivered, Allowance, vars
<1> QED
  BY <1>1, AcceptDelivers, HandleDelivers, MakeDelivers, LifeDelivers DEF Next

(* The invariant holds throughout. *)
LEMMA Invariance == Spec => []IInv
BY InitDelivers, StepDelivers, PTL DEF Spec

(* Type correctness. *)
THEOREM WebhookTyping == Spec => []WebhookTypeOK
BY Invariance, PTL DEF IInv

(* The handlers see an update once, and once more at most for each         *)
(* acknowledgement of it that was lost, whatever crashes in between.       *)
THEOREM DuplicatesNeedLostAcks == Spec => []AgainOnlyIfAckLost
<1>1. IInv => AgainOnlyIfAckLost
  <2> SUFFICES ASSUME IInv, NEW u \in Updates
               PROVE  accepted[u] + handled[u] <= 1 + lostAcks[u]
    BY DEF AgainOnlyIfAckLost
  <2>1. /\ accepted[u] \in Nat /\ handled[u] \in Nat /\ lostAcks[u] \in Nat
        /\ accepted[u] + handled[u] <= Allowance(u)
    BY DEF IInv, WebhookTypeOK, Delivered
  <2> QED  BY <2>1 DEF Allowance
<1> QED  BY <1>1, Invariance, PTL

(* An update that was made is forgotten only when the process dies: not by *)
(* a failed start-up, nor by a lost acknowledgement.                       *)
THEOREM UpdatesDieWithTheProcess == Spec => LostOnlyInCrash
<1>1. IInv /\ [Next]_vars =>
        \A u \in Updates \ Malformed : Known(u) /\ ~Known(u)' => up /\ ~up'
  <2> SUFFICES ASSUME IInv, [Next]_vars, NEW u \in Updates \ Malformed,
                      Known(u), ~Known(u)'
               PROVE  up /\ ~up'
    OBVIOUS
  <2>1. accepted[u] \in Nat /\ handled[u] \in Nat
    BY DEF IInv, WebhookTypeOK
  <2>2. ASSUME NEW v \in Updates, Accept(v) PROVE FALSE
    <3>1. CASE v = u
      <4>1. accepted'[u] = accepted[u] + 1
        BY <2>2, <3>1 DEF IInv, WebhookTypeOK, Accept
      <4> QED  BY <2>1, <4>1 DEF Known
    <3>2. CASE v # u
      <4>1. /\ accepted'[u] = accepted[u] /\ handled'[u] = handled[u]
            /\ u \in pending => u \in pending'
        BY <2>2, <3>2 DEF IInv, WebhookTypeOK, Accept
      <4> QED  BY <4>1 DEF Known
    <3> QED  BY <3>1, <3>2
  <2>3. ASSUME NEW v \in Updates, Handle(v) PROVE FALSE
    <3>1. /\ pending' = pending
          /\ v = u => handled'[u] = handled[u] + 1
          /\ v # u => handled'[u] = handled[u] /\ accepted'[u] = accepted[u]
      BY <2>3 DEF IInv, WebhookTypeOK, Handle
    <3> QED  BY <2>1, <3>1 DEF Known
  <2>4. ASSUME NEW v \in Updates, Make(v) PROVE FALSE
    <3>1. u \in pending => u \in pending'
      BY <2>4 DEF Make
    <3>2. accepted'[u] = accepted[u] /\ handled'[u] = handled[u]
      BY <2>4 DEF Make
    <3> QED  BY <3>1, <3>2 DEF Known
  <2>5. CASE RegisterWebhook
    BY <2>5
       DEF Known, RegisterWebhook, GetMe, DeleteWebhook, SetWebhook, Request,
           bot
  <2>6. CASE Start \/ UNCHANGED vars
    BY <2>6 DEF Known, Start, vars
  <2>7. CASE Crash
    BY <2>7 DEF Crash
  <2> QED  BY <2>2, <2>3, <2>4, <2>5, <2>6, <2>7 DEF Next
<1> QED  BY <1>1, Invariance, PTL DEF Spec, LostOnlyInCrash

=============================================================================
