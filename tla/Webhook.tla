------------------------------ MODULE Webhook ------------------------------
(***************************************************************************)
(* How updates reach the bot.  Telegram keeps an update until the webhook  *)
(* endpoint acknowledges it, as long as a webhook is set, and posts it     *)
(* again when the acknowledgement does not arrive.  The endpoint (main)    *)
(* acknowledges first and handles afterwards, in a coroutine of its own.   *)
(* A detached thread registers the webhook once per start of the process   *)
(* (BotServer::registerWebhook), while the endpoint already listens: the   *)
(* webhook of the previous run may still be set.                           *)
(***************************************************************************)
EXTENDS Naturals

CONSTANTS
  Updates,      \* what users do
  Malformed,    \* the updates whose body the parser refuses
  MaxFaults     \* bound: lost acknowledgements, failed requests, crashes

ASSUME UpdatesAssumption == Malformed \subseteq Updates /\ MaxFaults \in Nat

VARIABLES
  webhook,      \* at Telegram: is a webhook set?
  made,         \* updates made by users so far
  pending,      \* at Telegram: updates to be delivered
  accepted,     \* POSTs acknowledged and not yet handled, per update
  handled,      \* times each update was given to its handlers
  lostAcks,     \* acknowledgements of each update that did not arrive
  up,           \* does the process run?
  registering,  \* next request of registerWebhook
  faults        \* failures so far

bot == <<accepted, handled, up>>

vars == <<webhook, made, pending, accepted, handled, lostAcks, up,
          registering, faults>>

Fault == faults < MaxFaults /\ faults' = faults + 1

-----------------------------------------------------------------------------
(* A user does something. *)
Make(u) ==
  /\ u \notin made
  /\ made' = made \cup {u}
  /\ pending' = pending \cup {u}
  /\ UNCHANGED <<webhook, accepted, handled, lostAcks, up, registering,
                 faults>>

(* Seeded slip: the endpoint acknowledges when the handler has started, so *)
(* a crash in between leaves a handled update with Telegram.               *)
AcceptAfterHandling(u) ==
  /\ up /\ webhook
  /\ u \in pending
  /\ handled' = [handled EXCEPT ![u] = @ + 1]
  /\ \/ pending' = pending \ {u} /\ UNCHANGED <<up, faults>>
     \/ Fault /\ up' = FALSE /\ UNCHANGED pending
  /\ UNCHANGED <<webhook, made, accepted, lostAcks, registering>>

(* POST <webhookPath>: callback(ack) before anything else.  Telegram       *)
(* forgets the update when the acknowledgement arrives.                    *)
Accept(u) ==
  /\ up /\ webhook
  /\ u \in pending
  /\ accepted' = [accepted EXCEPT ![u] = @ + 1]
  /\ \/ /\ pending' = pending \ {u}
        /\ UNCHANGED <<lostAcks, faults>>
     \/ /\ Fault
        /\ lostAcks' = [lostAcks EXCEPT ![u] = @ + 1]
        /\ UNCHANGED pending
  /\ UNCHANGED <<webhook, made, handled, up, registering>>

(* Seeded slip: updates that come before the webhook is registered are     *)
(* dropped.                                                                *)
HandleOnceRegistered(u) ==
  /\ up
  /\ accepted[u] > 0
  /\ accepted' = [accepted EXCEPT ![u] = @ - 1]
  /\ handled' = IF u \in Malformed \/ registering # "returned" THEN handled
                  ELSE [handled EXCEPT ![u] = @ + 1]
  /\ UNCHANGED <<webhook, made, pending, lostAcks, up, registering, faults>>

(* Seeded slip: an update that was handled is handled once more.           *)
HandleAgain(u) ==
  /\ up
  /\ accepted[u] > 0 \/ handled[u] > 0
  /\ accepted' = [accepted EXCEPT ![u] = @ - 1]
  /\ handled' = [handled EXCEPT ![u] = @ + 1]
  /\ UNCHANGED <<webhook, made, pending, lostAcks, up, registering, faults>>

(* The coroutine: parse, handleUpdate.  A body that does not parse is      *)
(* logged and dropped.                                                     *)
Handle(u) ==
  /\ up
  /\ accepted[u] > 0
  /\ accepted' = [accepted EXCEPT ![u] = @ - 1]
  /\ handled' = IF u \in Malformed THEN handled
                  ELSE [handled EXCEPT ![u] = @ + 1]
  /\ UNCHANGED <<webhook, made, pending, lostAcks, up, registering, faults>>

-----------------------------------------------------------------------------
(* BotServer::registerWebhook: three requests, and any failure ends it. A  *)
(* failed request may have had its effect.                                 *)

Request(name, effect, next) ==
  /\ up
  /\ registering = name
  /\ \/ /\ webhook' = effect
        /\ registering' = next
        /\ UNCHANGED faults
     \/ /\ Fault
        /\ webhook' \in {webhook, effect}
        /\ registering' = "returned"
  /\ UNCHANGED <<made, pending, lostAcks, bot>>

GetMe == Request("getMe", webhook, "deleteWebhook")

(* Seeded slip: registerWebhook ends with the deletion. *)
DeleteWebhookOnly == Request("deleteWebhook", FALSE, "returned")

DeleteWebhook == Request("deleteWebhook", FALSE, "setWebhook")

SetWebhook == Request("setWebhook", TRUE, "returned")

RegisterWebhook == GetMe \/ DeleteWebhook \/ SetWebhook

-----------------------------------------------------------------------------
Crash ==
  /\ up
  /\ Fault
  /\ up' = FALSE
  /\ accepted' = [u \in Updates |-> 0]
  /\ UNCHANGED <<webhook, made, pending, handled, lostAcks, registering>>

(* main: the route is registered, the listeners start, and with them the   *)
(* thread that registers the webhook.                                      *)
Start ==
  /\ ~up
  /\ up' = TRUE
  /\ registering' = "getMe"
  /\ UNCHANGED <<webhook, made, pending, accepted, handled, lostAcks, faults>>

Init ==
  /\ webhook \in BOOLEAN
  /\ made = {}
  /\ pending = {}
  /\ accepted = [u \in Updates |-> 0]
  /\ handled = [u \in Updates |-> 0]
  /\ lostAcks = [u \in Updates |-> 0]
  /\ up = TRUE
  /\ registering = "getMe"
  /\ faults = 0

Next ==
  \/ \E u \in Updates : Make(u) \/ Accept(u) \/ Handle(u)
  \/ RegisterWebhook
  \/ Crash \/ Start

Spec == Init /\ [][Next]_vars

(* Telegram keeps posting, the event loops run, and a request ends within  *)
(* its timeout.  Nobody has to restart the process.                        *)
FairSpec ==
  /\ Spec
  /\ WF_vars(RegisterWebhook)
  /\ \A u \in Updates : WF_vars(Accept(u)) /\ WF_vars(Handle(u))

-----------------------------------------------------------------------------
WebhookTypeOK ==
  /\ webhook \in BOOLEAN /\ up \in BOOLEAN
  /\ made \subseteq Updates /\ pending \subseteq made
  /\ accepted \in [Updates -> Nat]
  /\ handled \in [Updates -> Nat]
  /\ lostAcks \in [Updates -> Nat]
  /\ registering \in {"getMe", "deleteWebhook", "setWebhook", "returned"}
  /\ faults \in 0..MaxFaults

Known(u) == u \in pending \/ accepted[u] > 0 \/ handled[u] > 0

(* An update is lost only with the process: no failure of the start-up     *)
(* sequence and no lost acknowledgement makes everybody forget it.         *)
LostOnlyInCrash ==
  [][\A u \in Updates \ Malformed : Known(u) /\ ~Known(u)' => up /\ ~up']_vars

(* Deliveries of an update that Telegram was not told of. *)
Allowance(u) == lostAcks[u] + (IF u \in made \ pending THEN 1 ELSE 0)

(* The price of acknowledging first is paid once: the handlers see an      *)
(* update again only if Telegram did not hear that it was accepted,        *)
(* crashes between accepting and handling included.                        *)
AgainOnlyIfAckLost ==
  \A u \in Updates : accepted[u] + handled[u] <= 1 + lostAcks[u]

(* A start without failures repairs whatever earlier ones left, a deleted  *)
(* webhook included: what waits at Telegram then reaches its handlers.     *)
StartDelivers ==
  \A u \in Updates \ Malformed :
    (up /\ registering = "getMe" /\ faults = MaxFaults /\ u \in pending)
      ~> handled[u] > 0

=============================================================================
