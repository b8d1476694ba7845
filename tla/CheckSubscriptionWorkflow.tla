--------------------- MODULE CheckSubscriptionWorkflow ---------------------
(***************************************************************************)
(* The button under the welcome message: is the user a member of the       *)
(* channel?  If so the button that opens the registration is sent.         *)
(***************************************************************************)
EXTENDS BotRuntime

(* getChatMember: the answer is Telegram's, either way. *)
CheckMember(t) ==
  /\ At(t, "check.member")
  /\ \E verdict \in {"check.clear", "check.deny"} :
       Request(t, [frame[t] EXCEPT !.pc = verdict])

(* showNotSubscribedUI *)
CheckDeny(t) ==
  /\ At(t, "check.deny")
  /\ Request(t, NoFrame)

(* showSubscribedUI *)
CheckClear(t) ==
  /\ At(t, "check.clear")
  /\ Clear(t, frame[t].click, [frame[t] EXCEPT !.pc = "check.answer"])

CheckAnswer(t) ==
  /\ At(t, "check.answer")
  /\ Request(t, [frame[t] EXCEPT !.pc = "check.confirm"])

CheckConfirm(t) ==
  /\ At(t, "check.confirm")
  /\ Send(t, Confirmed, NoFrame)

CheckSubscription(t) ==
  \/ CheckMember(t) \/ CheckDeny(t) \/ CheckClear(t)
  \/ CheckAnswer(t) \/ CheckConfirm(t)

=============================================================================
