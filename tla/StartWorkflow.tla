--------------------------- MODULE StartWorkflow ---------------------------
(***************************************************************************)
(* /start: resume the registration of the chat, or welcome a new user.     *)
(***************************************************************************)
EXTENDS RegistrationWorkflow

(* resumeRegistrationIfNeeded *)
StartFind(t) ==
  /\ At(t, "start.find")
  /\ FindByChatId(t, LAMBDA o : ResumeWith(t, o),
                  [frame[t] EXCEPT !.pc = "start.welcome"])

StartWelcome(t) ==
  /\ At(t, "start.welcome")
  /\ Send(t, Welcome, NoFrame)

ReplyStartCommand(t) == StartFind(t) \/ StartWelcome(t)

=============================================================================
