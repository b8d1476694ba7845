------------------------ MODULE RegistrationWorkflow ------------------------
(***************************************************************************)
(* The handlers of the registration form: "want to participate", an        *)
(* answer, "back", and the resumption that /start asks for.                *)
(***************************************************************************)
EXTENDS BotRuntime

-----------------------------------------------------------------------------
(* showFormPrompt(chatId, state), shared by the answer and back handlers.  *)

(* Seeded slip: completeFormCreation follows every form that is shown. *)
AfterAnyForm(t) == [frame[t] EXCEPT !.pc = "save.thanks", !.obj = NoObject]

(* After showFormPrompt only savePhrase has something left to do. *)
AfterForm(t) ==
  IF frame[t].step = Completed
    THEN [frame[t] EXCEPT !.pc = "save.thanks", !.obj = NoObject]
    ELSE NoFrame

FormFind(t) ==
  /\ At(t, "form.find")
  /\ FindByChatId(t,
       LAMBDA o : [frame[t] EXCEPT !.pc = "form.update",
                                   !.obj = SetState(o, frame[t].step)],
       AfterForm(t))

FormUpdate(t) ==
  /\ At(t, "form.update")
  /\ Update(t, [frame[t] EXCEPT !.pc = "form.edit"])

FormEdit(t) ==
  /\ At(t, "form.edit")
  /\ Edit(t, frame[t].obj.row.message_id,
          Form(frame[t].obj.row.answers, frame[t].step),
          [frame[t] EXCEPT !.pc = "form.prompt", !.obj = NoObject])

FormPrompt(t) ==
  /\ At(t, "form.prompt")
  /\ Send(t, Prompt(frame[t].step), AfterForm(t))

ShowFormPrompt(t) ==
  FormFind(t) \/ FormUpdate(t) \/ FormEdit(t) \/ FormPrompt(t)

-----------------------------------------------------------------------------
(* answerWantParticipateQuery and requestFullName *)

(* Seeded slip: the button that was pressed stays. *)
WantAnswerKeepingButton(t) ==
  /\ At(t, "want.answer")
  /\ Request(t, [frame[t] EXCEPT !.pc = "want.contest"])

WantAnswer(t) ==
  /\ At(t, "want.answer")
  /\ Request(t, [frame[t] EXCEPT !.pc = "want.clear"])

WantClear(t) ==
  /\ At(t, "want.clear")
  /\ Clear(t, frame[t].click, [frame[t] EXCEPT !.pc = "want.contest"])

(* The description of the contest, then its photos. *)
WantContest(t) ==
  /\ At(t, "want.contest")
  /\ Request(t, [frame[t] EXCEPT !.pc = "want.save"])

(* INSERT, then the SELECT that reads the defaults back; the SELECT alone  *)
(* may fail.                                                               *)
WantSave(t) ==
  LET table == Inserted(registrations, frame[t].chat)
      saved == [frame[t] EXCEPT !.pc = "want.prompt",
                                !.obj = Snapshot(table, Len(table))]
  IN  /\ At(t, "want.save")
      /\ \/ Statement(t, table, saved)
         \/ /\ Fault
            /\ registrations' = table
            /\ Throw(t, CatchesDatabase)
            /\ UNCHANGED messages

WantPrompt(t) ==
  LET m == Len(messages[frame[t].chat]) + 1
  IN  /\ At(t, "want.prompt")
      /\ Send(t, Prompt(WaitingName),
              [frame[t] EXCEPT !.pc = "want.update",
                               !.obj = SetMessageId(@, m)])

WantUpdate(t) ==
  /\ At(t, "want.update")
  /\ Update(t, NoFrame)

AnswerWantParticipateQuery(t) ==
  \/ WantAnswer(t) \/ WantClear(t) \/ WantContest(t)
  \/ WantSave(t) \/ WantPrompt(t) \/ WantUpdate(t)

-----------------------------------------------------------------------------
(* processMessage and saveFullName, saveCompanyName, saveCompanyPosition,  *)
(* savePhrase                                                              *)

MessageFind(t) ==
  /\ At(t, "message.find")
  /\ FindByChatId(t,
       LAMBDA o : IF o.row.state = Completed
                    THEN NoFrame
                    ELSE [frame[t] EXCEPT !.pc = "save.find",
                                          !.step = o.row.state],
       NoFrame)

(* Seeded slip: the last message completes the form and is not stored. *)
SavedAnswerNotPhrase(o, s, x) ==
  IF s = WaitingPhrase THEN SetState(o, Completed)
  ELSE SetAnswer(o, FieldOf(s), x)

(* Seeded slip: the completed state is left to showFormPrompt. *)
SavedAnswerNotState(o, s, x) == SetAnswer(o, FieldOf(s), x)

(* The object that save<Answer> writes; savePhrase sets the state too. *)
SavedAnswer(o, s, x) ==
  LET answered == SetAnswer(o, FieldOf(s), x)
  IN  IF s = WaitingPhrase THEN SetState(answered, Completed) ELSE answered

(* The row is read again and its state compared with the one the message   *)
(* was routed by.                                                          *)
SaveFind(t) ==
  /\ At(t, "save.find")
  /\ FindByChatId(t,
       LAMBDA o : IF o.row.state # frame[t].step
                    THEN NoFrame
                    ELSE [frame[t] EXCEPT
                            !.pc  = "save.update",
                            !.obj = SavedAnswer(o, frame[t].step,
                                               frame[t].text)],
       NoFrame)

SaveUpdate(t) ==
  /\ At(t, "save.update")
  /\ Update(t, [frame[t] EXCEPT !.pc = "form.find", !.step = NextState(@),
                                !.text = NoText, !.obj = NoObject])

(* completeFormCreation *)
SaveThanks(t) ==
  /\ At(t, "save.thanks")
  /\ Send(t, ThankYou, NoFrame)

ProcessMessage(t) ==
  \/ MessageFind(t) \/ SaveFind(t) \/ SaveUpdate(t) \/ SaveThanks(t)

-----------------------------------------------------------------------------
(* replyBackQuery *)

BackFind(t) ==
  /\ At(t, "back.find")
  /\ FindByChatId(t,
       LAMBDA o : IF frame[t].click # o.row.message_id
                    THEN [frame[t] EXCEPT !.pc = "back.outdated"]
                    ELSE [frame[t] EXCEPT !.pc = "back.answer", !.obj = o],
       [frame[t] EXCEPT !.pc = "back.unknown"])

(* The query is answered and nothing else happens. *)
BackRefuse(t) ==
  /\ At(t, "back.unknown") \/ At(t, "back.outdated")
  /\ Request(t, NoFrame)

(* Seeded slip: the answer before the one asked again is cleared. *)
SteppedBackTooFar(o) ==
  LET s == PrevState(o.row.state)
  IN  SetAnswer(SetState(o, s), FieldOf(PrevState(s)), NoText)

(* Seeded slip: the answer of the step that is left is cleared. *)
SteppedBackClearingCurrent(o) ==
  SetAnswer(SetState(o, PrevState(o.row.state)), FieldOf(o.row.state),
            NoText)

(* Seeded slip: no answer is cleared. *)
SteppedBackKeepingAnswer(o) == SetState(o, PrevState(o.row.state))

(* One step back, and the answer of the step gone back to is taken back. *)
SteppedBack(o) ==
  LET s == PrevState(o.row.state)
  IN  SetAnswer(SetState(o, s), FieldOf(s), NoText)

BackAnswer(t) ==
  LET o == frame[t].obj
  IN  /\ At(t, "back.answer")
      /\ Request(t, IF CanGoBack(o.row.state)
                      THEN [frame[t] EXCEPT !.pc = "back.update",
                                            !.step = PrevState(o.row.state),
                                            !.obj = SteppedBack(o)]
                      ELSE NoFrame)

BackUpdate(t) ==
  /\ At(t, "back.update")
  /\ Update(t, [frame[t] EXCEPT !.pc = "form.find", !.obj = NoObject])

ReplyBackQuery(t) ==
  BackFind(t) \/ BackRefuse(t) \/ BackAnswer(t) \/ BackUpdate(t)

-----------------------------------------------------------------------------
(* resumeRegistration(model) *)

(* Seeded slip: the previous form keeps its back button. *)
ResumeLeavingKeyboard(t, o) ==
  [frame[t] EXCEPT
     !.obj = o,
     !.pc  = IF o.row.state = Completed THEN "resume.thanks"
             ELSE "resume.form"]

ResumeWith(t, o) ==
  [frame[t] EXCEPT
     !.obj = o,
     !.pc  = IF o.row.state = Completed THEN "resume.thanks"
             ELSE IF o.row.message_id # 0 THEN "resume.clear"
             ELSE "resume.form"]

ResumeThanks(t) ==
  /\ At(t, "resume.thanks")
  /\ Send(t, ThankYou, NoFrame)

(* The keyboard of the previous form is removed if that is possible. *)
ResumeClear(t) ==
  LET c   == frame[t].chat
      m   == frame[t].obj.row.message_id
      log == messages[c]
  IN  /\ At(t, "resume.clear")
      /\ Goto(t, "resume.form")
      /\ \/ /\ CanClear(log, m)
            /\ messages' = [messages EXCEPT ![c] = Cleared(log, m)]
            /\ UNCHANGED faults
         \/ /\ ~CanClear(log, m)
            /\ UNCHANGED <<messages, faults>>
         \/ /\ Fault
            /\ UNCHANGED messages
      /\ UNCHANGED <<registrations, up>>

ResumeForm(t) ==
  LET o == frame[t].obj
      m == Len(messages[frame[t].chat]) + 1
  IN  /\ At(t, "resume.form")
      /\ Send(t, Form(o.row.answers, o.row.state),
              [frame[t] EXCEPT !.pc = "resume.update",
                               !.obj = SetMessageId(o, m)])

ResumeUpdate(t) ==
  /\ At(t, "resume.update")
  /\ Update(t, [frame[t] EXCEPT !.pc = "resume.prompt"])

ResumePrompt(t) ==
  /\ At(t, "resume.prompt")
  /\ Send(t, Prompt(frame[t].obj.row.state), NoFrame)

ResumeRegistration(t) ==
  \/ ResumeThanks(t) \/ ResumeClear(t) \/ ResumeForm(t)
  \/ ResumeUpdate(t) \/ ResumePrompt(t)

=============================================================================
