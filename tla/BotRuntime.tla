----------------------------- MODULE BotRuntime -----------------------------
(***************************************************************************)
(* The process that runs the workflows.  Every update is handled by one    *)
(* coroutine; the event loop threads, the database threads and the bot     *)
(* worker pool resume coroutines in any order, so between two co_awaits a  *)
(* coroutine runs alone and at a co_await any other coroutine may run.     *)
(*                                                                         *)
(* One step of the model is the awaited call (an SQL statement or a Bot    *)
(* API request, atomic at the other end) together with the code up to the  *)
(* next co_await.                                                          *)
(***************************************************************************)
EXTENDS Telegram

CONSTANTS
  Tasks,       \* coroutines that can be in flight at once
  MaxFaults    \* bound: failures of the network or of the database

ASSUME FaultAssumption == MaxFaults \in Nat

VARIABLES
  registrations,  \* the table, in conference.db: survives the process
  messages,       \* what each chat shows, at Telegram
  frame,          \* the coroutine frames
  up,             \* is the process running?
  faults          \* failures so far

vars == <<registrations, messages, frame, up, faults>>

-----------------------------------------------------------------------------
(* The awaits of each handler, named <function>.<call>. *)

StartAwaits ==
  {"start.find", "start.welcome", "resume.thanks", "resume.clear",
   "resume.form", "resume.update", "resume.prompt"}

CheckAwaits ==
  {"check.member", "check.clear", "check.answer", "check.confirm",
   "check.deny"}

WantAwaits ==
  {"want.answer", "want.clear", "want.contest", "want.save", "want.prompt",
   "want.update"}

MessageAwaits == {"message.find", "save.find", "save.update", "save.thanks"}

BackAwaits ==
  {"back.find", "back.unknown", "back.outdated", "back.answer",
   "back.update"}

FormAwaits == {"form.find", "form.update", "form.edit", "form.prompt"}

Awaits == StartAwaits \cup CheckAwaits \cup WantAwaits \cup MessageAwaits
            \cup BackAwaits \cup FormAwaits

(* Local variables of a handler that live across its awaits. *)
Frame ==
  [pc    : Awaits \cup {"idle"},
   chat  : Chats,
   click : Nat,                     \* message whose button was pressed
   text  : Texts \cup {NoText},     \* message->text
   step  : States,                  \* state / newState
   obj   : Object]                  \* row / model

AnyChat == CHOOSE c \in Chats : TRUE

NoObject ==
  [id |-> 0, dirty |-> {},
   row |-> [chat_id |-> AnyChat, state |-> WaitingName, message_id |-> 0,
            answers |-> Blank]]

NoFrame == [pc |-> "idle", chat |-> AnyChat, click |-> 0, text |-> NoText,
            step |-> WaitingName, obj |-> NoObject]

At(t, pc) == frame[t].pc = pc

Active(c) == {t \in Tasks : frame[t].pc # "idle" /\ frame[t].chat = c}

-----------------------------------------------------------------------------
(* Coroutines. *)

Resume(t, f) == frame' = [frame EXCEPT ![t] = f]

Goto(t, pc) == Resume(t, [frame[t] EXCEPT !.pc = pc])

Finish(t) == Resume(t, NoFrame)

(* async_run: the handler starts at its first await. *)
Spawn(t, f) ==
  /\ up
  /\ At(t, "idle")
  /\ Resume(t, f)
  /\ UNCHANGED <<registrations, messages, up, faults>>

Terminate ==
  /\ up' = FALSE
  /\ frame' = [t \in Tasks |-> NoFrame]

(* Awaits under a catch (const TgBot::TgException &), resp. under the      *)
(* catch (const std::exception &) of replyStartCommand.                    *)
CatchesTelegram == StartAwaits \cup CheckAwaits \cup WantAwaits

CatchesDatabase == StartAwaits

(* An exception ends a handler that catches it.  Out of any other handler  *)
(* it reaches the AsyncTask of async_run, which calls std::terminate.      *)
Throw(t, catching) ==
  IF frame[t].pc \in catching
    THEN Finish(t) /\ UNCHANGED up
    ELSE Terminate

Fault ==
  /\ faults < MaxFaults
  /\ faults' = faults + 1

-----------------------------------------------------------------------------
(* co_await onBotPool(request): the chat shows log if Telegram accepts the *)
(* request, and the handler goes on in frame f.  A request can also fail   *)
(* in transport, before or after Telegram has carried it out.  What        *)
(* Telegram refuses for reasons outside of the model (a user who has       *)
(* blocked the bot, too many requests, a query that has waited too long to *)
(* be answered) is a failure without effect.                               *)
Api(t, accepted, log, f) ==
  LET Carry == messages' = [messages EXCEPT ![frame[t].chat] = log]
  IN  /\ UNCHANGED registrations
      /\ \/ /\ accepted
            /\ Carry
            /\ Resume(t, f)
            /\ UNCHANGED <<up, faults>>
         \/ /\ ~accepted
            /\ Throw(t, CatchesTelegram)
            /\ UNCHANGED <<messages, faults>>
         \/ /\ Fault
            /\ (accepted /\ Carry) \/ UNCHANGED messages
            /\ Throw(t, CatchesTelegram)

(* A request that changes nothing a later step looks at. *)
Request(t, f) == Api(t, TRUE, messages[frame[t].chat], f)

(* sendMessage and its relatives *)
Send(t, new, f) ==
  Api(t, Fits(new), Append(messages[frame[t].chat], new), f)

(* editMessageReplyMarkup without a keyboard *)
Clear(t, m, f) ==
  LET log == messages[frame[t].chat]
  IN  Api(t, CanClear(log, m), Cleared(log, m), f)

(* editMessageText *)
Edit(t, m, new, f) ==
  LET log == messages[frame[t].chat]
  IN  Api(t, CanEdit(log, m, new), Edited(log, m, new), f)

(* co_await of a statement: it fails as a whole or not at all. *)
Statement(t, table, f) ==
  /\ UNCHANGED messages
  /\ \/ /\ registrations' = table
        /\ Resume(t, f)
        /\ UNCHANGED <<up, faults>>
     \/ /\ Fault
        /\ Throw(t, CatchesDatabase)
        /\ UNCHANGED registrations

(* RegistrationRepository::findByChatId: goes on in frame found(row) or in *)
(* frame missing.                                                          *)
FindByChatId(t, found(_), missing) ==
  LET c == frame[t].chat
  IN  Statement(t, registrations,
        IF Found(registrations, c)
          THEN found(Snapshot(registrations, TheRow(registrations, c)))
          ELSE missing)

(* RegistrationRepository::update *)
Update(t, f) == Statement(t, Updated(registrations, frame[t].obj), f)

-----------------------------------------------------------------------------
(* The process dies between two steps: SIGKILL, power, std::terminate of   *)
(* another component.  Frames are lost, the database and the chats stay.   *)
Crash ==
  /\ up
  /\ Fault
  /\ Terminate
  /\ UNCHANGED <<registrations, messages>>

Restart ==
  /\ ~up
  /\ up' = TRUE
  /\ UNCHANGED <<registrations, messages, frame, faults>>

Init ==
  /\ registrations = <<>>
  /\ messages = [c \in Chats |-> <<>>]
  /\ frame = [t \in Tasks |-> NoFrame]
  /\ up = TRUE
  /\ faults = 0

TypeOK ==
  /\ registrations \in Seq(Row)
  /\ messages \in [Chats -> Seq(Message)]
  /\ frame \in [Tasks -> Frame]
  /\ up \in BOOLEAN
  /\ faults \in 0..MaxFaults

=============================================================================
