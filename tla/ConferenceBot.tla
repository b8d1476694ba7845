--------------------------- MODULE ConferenceBot ---------------------------
(***************************************************************************)
(* The bot: the updates that Telegram delivers, the routing of each to its *)
(* handler, and the handlers running concurrently.                         *)
(***************************************************************************)
EXTENDS StartWorkflow, CheckSubscriptionWorkflow

CONSTANTS
  PrivateChats,  \* the chats of type Private
  Patient,       \* does a user wait for the handling of an update to end
                 \* before acting again?
  MaxUpdates     \* bound: updates delivered

ASSUME UpdateAssumption ==
  /\ PrivateChats \subseteq Chats
  /\ Patient \in BOOLEAN
  /\ MaxUpdates \in Nat

VARIABLE updates   \* updates delivered so far

allVars == <<registrations, messages, frame, up, faults, updates>>

-----------------------------------------------------------------------------
(* The webhook handler acknowledges an update and handles it in a          *)
(* coroutine of its own, whatever is in flight for the same chat.          *)
Deliver(t, c, f) ==
  /\ updates < MaxUpdates
  /\ updates' = updates + 1
  /\ Patient => Active(c) = {}
  /\ Spawn(t, f)

Handler(pc, c) == [NoFrame EXCEPT !.pc = pc, !.chat = c]

(* The command /start, in any chat. *)
OnStart(t, c) == Deliver(t, c, Handler("start.find", c))

(* Seeded slip: texts are taken in every chat. *)
OnMessageAnywhere(t, c, x) ==
  Deliver(t, c, [Handler("message.find", c) EXCEPT !.text = x])

(* A text that is no command: private chats only, empty texts are skipped. *)
OnMessage(t, c, x) ==
  /\ c \in PrivateChats
  /\ Deliver(t, c, [Handler("message.find", c) EXCEPT !.text = x])

FirstAwait ==
  [check_subscription |-> "check.member",
   want_participate   |-> "want.answer",
   form_back          |-> "back.find"]

(* A button is pressed: routed by its callback data. *)
OnCallbackQuery(t, c, m) ==
  LET button == messages[c][m].keyboard
  IN  /\ button # "none"
      /\ Deliver(t, c, [Handler(FirstAwait[button], c) EXCEPT !.click = m])

NewUpdate(t) ==
  \E c \in Chats :
    \/ OnStart(t, c)
    \/ \E x \in Texts : OnMessage(t, c, x)
    \/ \E m \in DOMAIN messages[c] : OnCallbackQuery(t, c, m)

(* One step of the coroutine in frame t. *)
Step(t) ==
  /\ \/ ReplyStartCommand(t)
     \/ ResumeRegistration(t)
     \/ CheckSubscription(t)
     \/ AnswerWantParticipateQuery(t)
     \/ ProcessMessage(t)
     \/ ReplyBackQuery(t)
     \/ ShowFormPrompt(t)
  /\ UNCHANGED updates

BotInit == Init /\ updates = 0

Next ==
  \/ \E t \in Tasks : NewUpdate(t) \/ Step(t)
  \/ (Crash \/ Restart) /\ UNCHANGED updates

Spec == BotInit /\ [][Next]_allVars

(* The pools and event loops keep resuming coroutines, and every awaited   *)
(* call ends: a request within its timeout, a statement by its result or   *)
(* its error.  Nothing is assumed of the users, nor that somebody restarts *)
(* a dead process.                                                         *)
FairSpec == Spec /\ \A t \in Tasks : WF_allVars(Step(t))

BotTypeOK == TypeOK /\ updates \in 0..MaxUpdates

-----------------------------------------------------------------------------
(* Safety, whatever the users do and whatever fails. *)

(* A registration marked Completed has a phrase: the phrase and the mark   *)
(* are one UPDATE of savePhrase, and no handler takes a phrase back.       *)
CompletedHasPhrase ==
  \A i \in DOMAIN registrations :
    registrations[i].state = Completed
      => registrations[i].answers["phrase"] # NoText

HasPhrase(c) ==
  \E i \in DOMAIN registrations :
    /\ registrations[i].chat_id = c
    /\ registrations[i].answers["phrase"] # NoText

(* A user who was thanked for taking part is in the contest: the phrase is *)
(* in the database before ThankYouMessageText can reach the chat, also     *)
(* when the process dies on the way.                                       *)
ThankedOnlyAfterSaved ==
  \A c \in Chats :
    (\E m \in DOMAIN messages[c] : messages[c][m].kind = "thanks")
      => HasPhrase(c)

(* A phrase that entered the contest stays in it: no stale write and no    *)
(* step back takes it out again.                                           *)
PhraseIsKept ==
  [][\A i \in DOMAIN registrations :
       registrations[i].answers["phrase"] # NoText
         => registrations'[i].answers["phrase"] # NoText]_allVars

(* Handlers write from snapshots that may be stale.  A write of message_id *)
(* never takes an answer or a state back with it, and conversely; and a    *)
(* write touches one row.                                                  *)
StaleSnapshotsDoNotRollBack ==
  [][\A i \in DOMAIN registrations :
       registrations'[i] # registrations[i] =>
         /\ \A j \in DOMAIN registrations \ {i} :
              registrations'[j] = registrations[j]
         /\ registrations'[i].message_id # registrations[i].message_id
              => registrations'[i] = [registrations[i] EXCEPT
                   !.message_id = registrations'[i].message_id]]_allVars

Pressed(c, kind) ==
  {m \in DOMAIN messages[c] :
     messages[c][m].kind = kind /\ messages[c][m].keyboard = "none"}

(* A button opens one registration however often it is pressed: removing   *)
(* the keyboard is refused to all clicks but one, and the others stop.     *)
OneRegistrationPerButton ==
  \A c \in Chats :
    /\ Cardinality(RowsOf(registrations, c))
         <= Cardinality(Pressed(c, "confirmed"))
    /\ Cardinality({m \in DOMAIN messages[c] :
                      messages[c][m].kind = "confirmed"})
         <= Cardinality(Pressed(c, "welcome"))

(* /start and the buttons work in every chat, answers are taken in private *)
(* chats only.  A registration that was opened elsewhere is never filled   *)
(* in, by whatever path: it stays at its first question, and nobody is     *)
(* thanked there.                                                          *)
GroupsAreNotAnswered ==
  /\ \A i \in DOMAIN registrations :
       registrations[i].chat_id \notin PrivateChats =>
         /\ registrations[i].state = WaitingName
         /\ registrations[i].answers = Blank
  /\ \A c \in Chats \ PrivateChats :
       \A m \in DOMAIN messages[c] : messages[c][m].kind # "thanks"

-----------------------------------------------------------------------------
(* Safety when every user is patient. *)

RegForm == INSTANCE RegistrationForm WITH
  forms <- [i \in DOMAIN registrations |->
              [state   |-> registrations[i].state,
               answers |-> registrations[i].answers]]

(* The registrations behave like the forms of RegistrationForm, through    *)
(* failures and crashes.                                                   *)
RegistrationsAreForms == RegForm!Spec

(* A completed registration is never changed again, although a crash can   *)
(* leave a form with its back button in the chat of a completed one.       *)
CompletionIsFinal == RegForm!CompletedIsFinal

(* No question is skipped, whatever fails. *)
AnsweredUpToState == RegForm!FilledUpToState

(* The handlers for one chat are over and the chat has one registration. *)
Settled(c) == Active(c) = {} /\ Found(registrations, c)

RowOf(c) == registrations[TheRow(registrations, c)]

Questions(c) ==
  {m \in DOMAIN messages[c] : messages[c][m].kind \in {"prompt", "thanks"}}

(* The last question asked is the one the bot waits to be answered. *)
AsksCurrent(c) ==
  \E q \in Questions(c) :
    /\ \A m \in Questions(c) : m <= q
    /\ messages[c][q] = IF RowOf(c).state = Completed
                          THEN ThankYou ELSE Prompt(RowOf(c).state)

(* The message the row points to shows the answers of the row; before the  *)
(* first answer it is the question itself.                                 *)
ShowsAnswers(c) ==
  LET row  == RowOf(c)
      form == row.message_id
  IN  /\ form \in DOMAIN messages[c]
      /\ \/ messages[c][form] = Form(row.answers, row.state)
         \/ /\ messages[c][form] = Prompt(WaitingName)
            /\ row.state = WaitingName /\ row.answers = Blank

(* Telegram takes the form of this row: the answers are not too long.      *)
FormFits(row) == Fits(Form(row.answers, row.state))

FormsFit == \A i \in DOMAIN registrations : FormFits(registrations[i])

(* Without failures the chat agrees with the database between updates: the *)
(* form, the question, and no back button but that of the form.  Nothing   *)
(* is said of a row whose form Telegram refuses; but once a step back has  *)
(* made it fit, the chat agrees with it again.                             *)
ScreenMatchesRow ==
  \A c \in Chats : Settled(c) /\ FormFits(RowOf(c)) =>
    /\ AsksCurrent(c)
    /\ ShowsAnswers(c)
    /\ \A m \in DOMAIN messages[c] \ {RowOf(c).message_id} :
         messages[c][m].keyboard # "form_back"

(* Without failures a form that is too long is all that ends the process:  *)
(* no other exception leaves a handler.  The row is always found, and each *)
(* edit changes the text of the form or its keyboard.                      *)
UpWhileFormsFit == []FormsFit => []up

(* Without failures the form that a patient user steps back on is never    *)
(* called outdated (replyBackQuery compares the message ids).              *)
NoneOutdated == \A t \in Tasks : ~At(t, "back.outdated")

(* A patient user who answers the current question is asked the next one,  *)
(* if the form has room for the answer.                                    *)
AnswerAdvances ==
  \A c \in Chats : \A s \in Waiting :
    (/\ Found(registrations, c)
     /\ RowOf(c).state = s
     /\ \E t \in Tasks :
          /\ At(t, "message.find") /\ frame[t].chat = c
          /\ Fits(Form([RowOf(c).answers EXCEPT
                          ![FieldOf(s)] = frame[t].text], NextState(s))))
    ~> (Settled(c) /\ RowOf(c).state = NextState(s) /\ AsksCurrent(c))

(* The back button takes the last answer back and leaves chat and row in   *)
(* agreement, also when it was this answer that made the form too long.    *)
(* (Then the form was never edited, the edit of the step back changes      *)
(* nothing, and the process ends once more, but behind the UPDATE.)        *)
BackTakesAnswerBack ==
  \A c \in Chats : \A s \in Waiting :
    (/\ Found(registrations, c)
     /\ CanGoBack(RowOf(c).state) /\ PrevState(RowOf(c).state) = s
     /\ Fits(Form([RowOf(c).answers EXCEPT ![FieldOf(s)] = NoText], s))
     /\ \E t \in Tasks :
          /\ At(t, "back.find") /\ frame[t].chat = c
          /\ frame[t].click = RowOf(c).message_id)
    ~> (/\ Settled(c)
        /\ RowOf(c).state = s
        /\ RowOf(c).answers[FieldOf(s)] = NoText
        /\ AsksCurrent(c)
        /\ ShowsAnswers(c))

(* /start repairs whatever earlier failures left: once nothing more fails, *)
(* the chat of a registration asks the question the row waits for, and     *)
(* shows its answers.  (A completed form is thanked for, not sent again; a *)
(* form that is too long cannot be sent.)                                  *)
StartRecovers ==
  \A c \in Chats :
    (/\ \E t \in Tasks : At(t, "start.find") /\ frame[t].chat = c
     /\ Found(registrations, c)
     /\ RowOf(c).state = Completed \/ FormFits(RowOf(c))
     /\ faults = MaxFaults)
    ~> (/\ Settled(c)
        /\ AsksCurrent(c)
        /\ RowOf(c).state # Completed => ShowsAnswers(c))

-----------------------------------------------------------------------------
(* What the program says of itself. *)

(* main.cpp, the webhook handler: "[webhook] Failed to handle update", and *)
(* on it goes.  So a failing handler does not end the process.             *)
StaysUp == up

(* Strings.hpp, FormOutdatedMessageText: "this form is outdated, use the   *)
(* current one below".  So there is a current one, below the one clicked.  *)
OutdatedFormHasCurrentBelow ==
  \A t \in Tasks : At(t, "back.outdated") =>
    \E i \in RowsOf(registrations, frame[t].chat) :
      registrations[i].message_id > frame[t].click

(* ConferenceBotController.cpp, resumeRegistrationIfNeeded: "No existing   *)
(* registration for chat".                                                 *)
WelcomedOnlyWithoutRegistration ==
  \A t \in Tasks :
    At(t, "start.welcome") => RowsOf(registrations, frame[t].chat) = {}

(* RegistrationWorkflow.cpp, completeFormCreation: "Registration           *)
(* COMPLETED", logged on the way to the last message.                      *)
AnnouncedCompletedIsCompleted ==
  [][\A t \in Tasks :
       (~At(t, "save.thanks") /\ At(t, "save.thanks")') =>
         \E i \in RowsOf(registrations', frame[t].chat) :
           registrations'[i].state = Completed]_allVars

=============================================================================
