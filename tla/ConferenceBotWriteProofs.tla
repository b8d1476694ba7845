---------------------- MODULE ConferenceBotWriteProofs ----------------------
(***************************************************************************)
(* What handlers write from the snapshots they hold, for any number of     *)
(* chats, coroutines, updates and failures: which columns, that a          *)
(* registration of a group stays as it was opened, and, when users are     *)
(* patient, that each registration is a form of RegistrationForm and that  *)
(* what is announced as completed is completed.                            *)
(*                                                                         *)
(* All follow from what is known of a suspended coroutine: the columns its *)
(* object has marked, in a group how far it can have come, and for a       *)
(* patient user that the object is the row as it is.                       *)
(***************************************************************************)
EXTENDS ConferenceBotProofs

(* The columns marked in the object held, by the await. *)
MarksOK(f) ==
  /\ f.pc \in {"want.prompt", "back.answer", "resume.thanks",
               "resume.clear", "resume.form"}
       => f.obj.dirty = {}
  /\ f.pc \in {"want.update", "resume.update", "resume.prompt"}
       => f.obj.dirty \subseteq {"message_id"}
  /\ f.pc \in {"form.update", "form.edit", "save.update", "back.update"}
       => "message_id" \notin f.obj.dirty

(* In a group no coroutine takes an answer, steps back or thanks, and the  *)
(* objects are of registrations that wait for the name.                    *)
GroupOK(f) ==
  f.chat \notin PrivateChats =>
    /\ f.pc \notin MessageAwaits \cup FormAwaits
                     \cup {"resume.thanks", "back.update"}
    /\ f.pc \in Holding => f.obj.row.state = WaitingName

WriteOK(f) == MarksOK(f) /\ GroupOK(f)

WInv ==
  /\ IInv
  /\ GroupsAreNotAnswered
  /\ \A t \in Tasks : WriteOK(frame[t])

-----------------------------------------------------------------------------
(* Frames. *)

(* An unused frame is in order. *)
LEMMA NoFrameWriteOK == WriteOK(NoFrame)
<1>1. NoFrame.pc = "idle"
  BY DEF NoFrame
<1> QED
  BY <1>1 DEF WriteOK, MarksOK, GroupOK, Holding, MessageAwaits, FormAwaits

(* The frame of the coroutine that is resumed, and the others. *)
LEMMA ResumedFrame ==
  ASSUME IInv, NEW t \in Tasks, NEW f, Resume(t, f)
  PROVE  \A u \in Tasks : frame'[u] = IF u = t THEN f ELSE frame[u]
BY IInvFacts DEF Resume

(* An exception leaves no frame that was not there before. *)
LEMMA ThrownFrame ==
  ASSUME IInv, NEW t \in Tasks, NEW catching, Throw(t, catching)
  PROVE  \A u \in Tasks : frame'[u] = frame[u] \/ frame'[u] = NoFrame
BY ThrowFrames

(* A request leads to the frame it names, or to none. *)
LEMMA ApiFrames ==
  ASSUME IInv, NEW t \in Tasks, NEW accepted, NEW log, NEW f,
         Api(t, accepted, log, f)
  PROVE  \A u \in Tasks : frame'[u] \in {frame[u], f, NoFrame}
BY ResumedFrame, ThrownFrame DEF Api

(* So does a statement. *)
LEMMA StatementFrames ==
  ASSUME IInv, NEW t \in Tasks, NEW table, NEW f, Statement(t, table, f)
  PROVE  \A u \in Tasks : frame'[u] \in {frame[u], f, NoFrame}
BY ResumedFrame, ThrownFrame DEF Statement

(* Frames are in order after a step to a frame in order. *)
LEMMA WriteOKStep ==
  ASSUME WInv, NEW f, WriteOK(f),
         \A u \in Tasks : frame'[u] \in {frame[u], f, NoFrame}
  PROVE  \A u \in Tasks : WriteOK(frame'[u])
BY NoFrameWriteOK DEF WInv

-----------------------------------------------------------------------------
(* The handlers: every await is left in order. *)

(* An await at which no object is held, in a chat of any kind. *)
LEMMA QuietWriteOK ==
  ASSUME NEW f, f.pc \in Quiet
  PROVE  WriteOK(f)
BY DEF Quiet, WriteOK, MarksOK, GroupOK, Holding, MessageAwaits, FormAwaits

(* A registration found for a group has no answer yet. *)
LEMMA FoundInGroup ==
  ASSUME WInv, NEW t \in Tasks, Found(registrations, frame[t].chat),
         frame[t].chat \notin PrivateChats
  PROVE  Snapshot(registrations, TheRow(registrations, frame[t].chat)).row.state
           = WaitingName
<1> DEFINE o == Snapshot(registrations, TheRow(registrations, frame[t].chat))
<1>1. /\ o.id \in DOMAIN registrations
      /\ registrations[o.id].chat_id = frame[t].chat
      /\ o.row = registrations[o.id]
  BY FoundObject DEF WInv
<1> QED
  BY <1>1 DEF WInv, GroupsAreNotAnswered

(* /start keeps the frames in order. *)
LEMMA StartFrames ==
  ASSUME WInv, NEW t \in Tasks, ReplyStartCommand(t)
  PROVE  \A u \in Tasks : WriteOK(frame'[u])
<1>0. IInv /\ frame[t] \in Frame
  BY IInvFacts DEF WInv
<1>1. CASE StartWelcome(t)
  BY <1>0, <1>1, NoFrameWriteOK, ApiFrames, WriteOKStep
  DEF StartWelcome, Send
<1>2. CASE StartFind(t)
  <2> DEFINE o == Snapshot(registrations,
                           TheRow(registrations, frame[t].chat))
             f == ResumeWith(t, o)
             g == [frame[t] EXCEPT !.pc = "start.welcome"]
  <2>1. CASE Found(registrations, frame[t].chat)
    <3>1. o.dirty = {}
      BY DEF Snapshot
    <3>2. frame[t].chat \notin PrivateChats => o.row.state = WaitingName
      BY <2>1, FoundInGroup
    <3>3. Statement(t, registrations, f)
      BY <1>2, <2>1 DEF StartFind, FindByChatId
    <3> HIDE DEF o
    <3>4. /\ f.pc \in {"resume.thanks", "resume.clear", "resume.form"}
          /\ f.pc = "resume.thanks" => o.row.state = Completed
          /\ f.obj = o /\ f.chat = frame[t].chat
      BY <1>0 DEF ResumeWith, Frame
    <3> HIDE DEF f
    <3>5. WriteOK(f)
      BY <3>1, <3>2, <3>4, CompletedIsLast
      DEF WriteOK, MarksOK, GroupOK, MessageAwaits, FormAwaits, Completed,
          WaitingName
    <3> QED
      BY <1>0, <3>3, <3>5, StatementFrames, WriteOKStep
  <2>2. CASE ~Found(registrations, frame[t].chat)
    <3>1. Statement(t, registrations, g)
      BY <1>2, <2>2 DEF StartFind, FindByChatId
    <3>2. g.pc \in Quiet
      BY <1>0 DEF Quiet, Frame
    <3> QED
      BY <1>0, <3>1, <3>2, QuietWriteOK, StatementFrames, WriteOKStep
  <2> QED
    BY <2>1, <2>2
<1> QED
  BY <1>1, <1>2 DEF ReplyStartCommand

(* The subscription check holds no object. *)
LEMMA CheckFrames ==
  ASSUME WInv, NEW t \in Tasks, CheckSubscription(t)
  PROVE  \A u \in Tasks : WriteOK(frame'[u])
<1>0. IInv /\ frame[t] \in Frame
  BY IInvFacts DEF WInv
<1>1. \A pc \in Quiet : WriteOK([frame[t] EXCEPT !.pc = pc])
  BY <1>0, QuietWriteOK DEF Frame
<1>2. PICK f : /\ WriteOK(f)
               /\ \A u \in Tasks : frame'[u] \in {frame[u], f, NoFrame}
  BY <1>0, <1>1, NoFrameWriteOK, ApiFrames
  DEF CheckSubscription, CheckMember, CheckDeny, CheckClear, CheckAnswer,
      CheckConfirm, Request, Clear, Send, Quiet
<1> QED
  BY <1>2, WriteOKStep

(* Setting the message id marks that column only. *)
LEMMA MessageIdWriteOK ==
  ASSUME IInv, NEW t \in Tasks, WriteOK(frame[t]),
         frame[t].pc \in {"want.prompt", "resume.form"},
         NEW pc \in {"want.update", "resume.update"},
         NEW m \in Nat
  PROVE  WriteOK([frame[t] EXCEPT !.pc = pc,
                                  !.obj = SetMessageId(frame[t].obj, m)])
<1> DEFINE o == SetMessageId(frame[t].obj, m)
           f == [frame[t] EXCEPT !.pc = pc, !.obj = o]
<1>1. frame[t] \in Frame /\ frame[t].obj \in Object
  BY IInvFacts, FrameFields
<1>2. /\ o.row.state = frame[t].obj.row.state
      /\ o.dirty = frame[t].obj.dirty \cup {"message_id"}
  BY <1>1, SetMessageIdType
<1> HIDE DEF o
<1>3. f.pc = pc /\ f.obj = o /\ f.chat = frame[t].chat
  BY <1>1 DEF Frame
<1> HIDE DEF f
<1>4. WriteOK(f)
  BY <1>2, <1>3
  DEF WriteOK, MarksOK, GroupOK, Holding, MessageAwaits, FormAwaits
<1> QED
  BY <1>4 DEF f, o

(* "want to participate": the new row has nothing marked, and then only    *)
(* the message id.                                                         *)
LEMMA WantFrames ==
  ASSUME WInv, NEW t \in Tasks, AnswerWantParticipateQuery(t)
  PROVE  \A u \in Tasks : WriteOK(frame'[u])
<1>0. IInv /\ frame[t] \in Frame /\ WriteOK(frame[t])
  BY IInvFacts DEF WInv
<1>1. CASE WantAnswer(t) \/ WantClear(t) \/ WantContest(t) \/ WantUpdate(t)
  <2>1. \A pc \in Quiet : WriteOK([frame[t] EXCEPT !.pc = pc])
    BY <1>0, QuietWriteOK DEF Frame
  <2>2. PICK f : /\ WriteOK(f)
                 /\ \A u \in Tasks : frame'[u] \in {frame[u], f, NoFrame}
    BY <1>0, <1>1, <2>1, NoFrameWriteOK, ApiFrames, StatementFrames
    DEF WantAnswer, WantClear, WantContest, WantUpdate, Request, Clear,
        Update, Quiet
  <2> QED
    BY <2>2, WriteOKStep
<1>2. CASE WantSave(t)
  <2> DEFINE table == Inserted(registrations, frame[t].chat)
             o     == Snapshot(table, Len(table))
             f     == [frame[t] EXCEPT !.pc = "want.prompt", !.obj = o]
  <2>1. \A u \in Tasks : frame'[u] \in {frame[u], f, NoFrame}
    BY <1>0, <1>2, StatementFrames, ThrownFrame DEF WantSave
  <2>2. o.dirty = {} /\ o.row.state = WaitingName
    <3>1. /\ Len(table) = Len(registrations) + 1
          /\ table[Len(registrations) + 1].state = WaitingName
      <4> DEFINE r == [chat_id |-> frame[t].chat, state |-> WaitingName,
                       message_id |-> 0, answers |-> Blank]
      <4>1. r \in Row
        BY <1>0, CompletedIsLast, StatesAreNaturals
        DEF Row, Answers, Blank, Frame
      <4>2. r.state = WaitingName
        OBVIOUS
      <4> HIDE DEF r
      <4> QED
        BY <1>0, <4>1, <4>2, IInvFacts, AppendProperties DEF Inserted, r
    <3> QED
      BY <3>1 DEF Snapshot
  <2> HIDE DEF o
  <2>3. f.pc = "want.prompt" /\ f.obj = o /\ f.chat = frame[t].chat
    BY <1>0 DEF Frame
  <2> HIDE DEF f
  <2>4. WriteOK(f)
    BY <2>2, <2>3 DEF WriteOK, MarksOK, GroupOK, MessageAwaits, FormAwaits
  <2> QED
    BY <2>1, <2>4, WriteOKStep
<1>3. CASE WantPrompt(t)
  <2> DEFINE m == Len(messages[frame[t].chat]) + 1
             o == SetMessageId(frame[t].obj, m)
             f == [frame[t] EXCEPT !.pc = "want.update", !.obj = o]
  <2>1. \A u \in Tasks : frame'[u] \in {frame[u], f, NoFrame}
    <3>1. Send(t, Prompt(WaitingName), f)
      BY <1>0, <1>3 DEF WantPrompt, Frame
    <3> QED
      BY <1>0, <3>1, ApiFrames DEF Send
  <2>2. WriteOK(f)
    BY <1>0, <1>3, NextMessageId, MessageIdWriteOK DEF WantPrompt, At
  <2> QED
    BY <2>1, <2>2, WriteOKStep
<1> QED
  BY <1>1, <1>2, <1>3 DEF AnswerWantParticipateQuery

(* A frame in a private chat has only its marks to look after. *)
LEMMA PrivateWriteOK ==
  ASSUME NEW f, f.chat \in PrivateChats, MarksOK(f)
  PROVE  WriteOK(f)
BY DEF WriteOK, GroupOK

(* Answers and steps mark no message id. *)
LEMMA AnswersMarkNoId ==
  ASSUME NEW o \in Object, o.dirty = {}, NEW s \in States
  PROVE  /\ \A x \in Texts : "message_id" \notin SavedAnswer(o, s, x).dirty
         /\ "message_id" \notin SteppedBack(o).dirty
         /\ "message_id" \notin SetState(o, s).dirty
<1>1. \A f \in Fields : f # "message_id"
  BY DEF Fields
<1>2. /\ \A r : FieldOf(r) \in Fields
      /\ o.row \in Row
  BY ObjectFields DEF FieldOf, Fields
<1>3. PrevState(o.row.state) \in States
  BY DEF PrevState, States, Waiting
<1>4. Completed \in States
  BY CompletedIsLast
<1>5. "message_id" \notin SetState(o, s).dirty
  BY SetStateType
<1>6. ASSUME NEW x \in Texts
      PROVE  "message_id" \notin SavedAnswer(o, s, x).dirty
  <2> DEFINE a == SetAnswer(o, FieldOf(s), x)
  <2>1. a \in Object /\ a.dirty = o.dirty \cup {FieldOf(s)}
    BY <1>2, SetAnswerType
  <2> HIDE DEF a
  <2>2. SetState(a, Completed).dirty = a.dirty \cup {"state"}
    BY <1>4, <2>1, SetStateType
  <2> QED
    BY <1>1, <1>2, <2>1, <2>2 DEF SavedAnswer, a
<1>7. "message_id" \notin SteppedBack(o).dirty
  <2> DEFINE r == PrevState(o.row.state)
             a == SetState(o, r)
  <2>1. a \in Object /\ a.dirty = o.dirty \cup {"state"}
    BY <1>3, SetStateType
  <2> HIDE DEF a, r
  <2>2. SetAnswer(a, FieldOf(r), NoText).dirty = a.dirty \cup {FieldOf(r)}
    BY <1>2, <2>1, SetAnswerType, ZenonT(40)
  <2>3. SteppedBack(o) = SetAnswer(a, FieldOf(r), NoText)
    BY DEF SteppedBack, a, r
  <2> QED
    BY <1>1, <1>2, <2>1, <2>2, <2>3
<1> QED
  BY <1>5, <1>6, <1>7

(* showFormPrompt keeps the frames in order. *)
LEMMA FormFrames ==
  ASSUME WInv, NEW t \in Tasks, ShowFormPrompt(t)
  PROVE  \A u \in Tasks : WriteOK(frame'[u])
<1>0. /\ IInv /\ frame[t] \in Frame
      /\ frame[t].pc \in FormAwaits
      /\ frame[t].chat \in PrivateChats
      /\ MarksOK(frame[t])
  BY IInvFacts
  DEF WInv, WriteOK, GroupOK, FormAwaits, ShowFormPrompt, FormFind,
      FormUpdate, FormEdit, FormPrompt, At
<1>1. WriteOK(AfterForm(t))
  <2> DEFINE f == [frame[t] EXCEPT !.pc = "save.thanks", !.obj = NoObject]
  <2>1. f.pc = "save.thanks" /\ f.chat = frame[t].chat
    BY <1>0 DEF Frame
  <2> HIDE DEF f
  <2>2. WriteOK(f)
    BY <1>0, <2>1, PrivateWriteOK DEF MarksOK
  <2> QED
    BY <2>2, NoFrameWriteOK DEF AfterForm, f
<1>2. CASE FormFind(t)
  <2> DEFINE o   == Snapshot(registrations,
                             TheRow(registrations, frame[t].chat))
             new == SetState(o, frame[t].step)
             f   == [frame[t] EXCEPT !.pc = "form.update", !.obj = new]
  <2>1. CASE Found(registrations, frame[t].chat)
    <3>1. o \in Object /\ o.dirty = {}
      BY <1>0, <2>1, FoundObject
    <3>2. Statement(t, registrations, f)
      BY <1>2, <2>1 DEF FormFind, FindByChatId
    <3> HIDE DEF o
    <3>3. "message_id" \notin new.dirty
      BY <1>0, <3>1, FrameFields, AnswersMarkNoId
    <3> HIDE DEF new
    <3>4. f.pc = "form.update" /\ f.obj = new /\ f.chat = frame[t].chat
      BY <1>0 DEF Frame
    <3> HIDE DEF f
    <3>5. WriteOK(f)
      BY <1>0, <3>3, <3>4, PrivateWriteOK DEF MarksOK
    <3> QED
      BY <1>0, <3>2, <3>5, StatementFrames, WriteOKStep
  <2>2. CASE ~Found(registrations, frame[t].chat)
    <3>1. Statement(t, registrations, AfterForm(t))
      BY <1>2, <2>2 DEF FormFind, FindByChatId
    <3> QED
      BY <1>0, <1>1, <3>1, StatementFrames, WriteOKStep
  <2> QED
    BY <2>1, <2>2
<1>3. CASE FormUpdate(t)
  <2> DEFINE f == [frame[t] EXCEPT !.pc = "form.edit"]
  <2>1. f.pc = "form.edit" /\ f.obj = frame[t].obj /\ f.chat = frame[t].chat
    BY <1>0 DEF Frame
  <2>2. Update(t, f) /\ frame[t].pc = "form.update"
    BY <1>3 DEF FormUpdate, At
  <2> HIDE DEF f
  <2>3. WriteOK(f)
    BY <1>0, <2>1, <2>2, PrivateWriteOK DEF MarksOK
  <2> QED
    BY <1>0, <2>2, <2>3, StatementFrames, WriteOKStep DEF Update
<1>4. CASE FormEdit(t)
  <2> DEFINE f == [frame[t] EXCEPT !.pc = "form.prompt", !.obj = NoObject]
  <2>1. f.pc = "form.prompt" /\ f.chat = frame[t].chat
    BY <1>0 DEF Frame
  <2>2. \A u \in Tasks : frame'[u] \in {frame[u], f, NoFrame}
    BY <1>0, <1>4, ApiFrames DEF FormEdit, Edit
  <2> HIDE DEF f
  <2>3. WriteOK(f)
    BY <1>0, <2>1, PrivateWriteOK DEF MarksOK
  <2> QED
    BY <2>2, <2>3, WriteOKStep
<1>5. CASE FormPrompt(t)
  BY <1>0, <1>1, <1>5, ApiFrames, WriteOKStep DEF FormPrompt, Send
<1> QED
  BY <1>2, <1>3, <1>4, <1>5 DEF ShowFormPrompt

(* An answer: private chats only, and no message id is marked. *)
LEMMA MessageFrames ==
  ASSUME WInv, NEW t \in Tasks, ProcessMessage(t)
  PROVE  \A u \in Tasks : WriteOK(frame'[u])
<1>0. /\ IInv /\ frame[t] \in Frame
      /\ frame[t].chat \in PrivateChats
      /\ FrameOK(registrations, frame[t])
  BY IInvFacts
  DEF WInv, WriteOK, GroupOK, MessageAwaits, ProcessMessage, MessageFind,
      SaveFind, SaveUpdate, SaveThanks, At
<1> DEFINE o == Snapshot(registrations, TheRow(registrations, frame[t].chat))
<1>1. CASE MessageFind(t)
  <2> DEFINE f == [frame[t] EXCEPT !.pc = "save.find", !.step = o.row.state]
  <2>1. f.pc = "save.find" /\ f.chat = frame[t].chat
    BY <1>0 DEF Frame
  <2>2. \E g \in {f, NoFrame} : Statement(t, registrations, g)
    BY <1>1 DEF MessageFind, FindByChatId
  <2> HIDE DEF f
  <2>3. WriteOK(f)
    BY <1>0, <2>1, PrivateWriteOK DEF MarksOK
  <2> QED
    BY <1>0, <2>2, <2>3, NoFrameWriteOK, StatementFrames, WriteOKStep
<1>2. CASE SaveFind(t)
  <2> DEFINE new == SavedAnswer(o, frame[t].step, frame[t].text)
             f   == [frame[t] EXCEPT !.pc = "save.update", !.obj = new]
  <2>1. CASE Found(registrations, frame[t].chat)
    <3>1. /\ o \in Object /\ o.dirty = {}
          /\ frame[t].step \in States /\ frame[t].text \in Texts
      BY <1>0, <1>2, <2>1, FoundObject, FrameFields DEF SaveFind, At, FrameOK
    <3>2. \E g \in {f, NoFrame} : Statement(t, registrations, g)
      BY <1>2, <2>1 DEF SaveFind, FindByChatId
    <3> HIDE DEF o
    <3>3. "message_id" \notin new.dirty
      BY <3>1, AnswersMarkNoId
    <3> HIDE DEF new
    <3>4. f.pc = "save.update" /\ f.obj = new /\ f.chat = frame[t].chat
      BY <1>0 DEF Frame
    <3> HIDE DEF f
    <3>5. WriteOK(f)
      BY <1>0, <3>3, <3>4, PrivateWriteOK DEF MarksOK
    <3> QED
      BY <1>0, <3>2, <3>5, NoFrameWriteOK, StatementFrames, WriteOKStep
  <2>2. CASE ~Found(registrations, frame[t].chat)
    <3>1. Statement(t, registrations, NoFrame)
      BY <1>2, <2>2 DEF SaveFind, FindByChatId
    <3> QED
      BY <1>0, <3>1, NoFrameWriteOK, StatementFrames, WriteOKStep
  <2> QED
    BY <2>1, <2>2
<1>3. CASE SaveUpdate(t)
  <2> DEFINE f == [frame[t] EXCEPT !.pc = "form.find",
                                   !.step = NextState(frame[t].step),
                                   !.text = NoText, !.obj = NoObject]
  <2>1. f.pc = "form.find" /\ f.chat = frame[t].chat
    BY <1>0 DEF Frame
  <2>2. Update(t, f)
    BY <1>0, <1>3 DEF SaveUpdate, Frame
  <2> HIDE DEF f
  <2>3. WriteOK(f)
    BY <1>0, <2>1, PrivateWriteOK DEF MarksOK
  <2> QED
    BY <1>0, <2>2, <2>3, StatementFrames, WriteOKStep DEF Update
<1>4. CASE SaveThanks(t)
  BY <1>0, <1>4, NoFrameWriteOK, ApiFrames, WriteOKStep DEF SaveThanks, Send
<1> QED
  BY <1>1, <1>2, <1>3, <1>4 DEF ProcessMessage

(* A step back: none from the first question, where a group remains. *)
LEMMA BackFrames ==
  ASSUME WInv, NEW t \in Tasks, ReplyBackQuery(t)
  PROVE  \A u \in Tasks : WriteOK(frame'[u])
<1>0. IInv /\ frame[t] \in Frame /\ WriteOK(frame[t])
  BY IInvFacts DEF WInv
<1>1. CASE BackFind(t)
  <2> DEFINE o  == Snapshot(registrations,
                            TheRow(registrations, frame[t].chat))
             f1 == [frame[t] EXCEPT !.pc = "back.outdated"]
             f2 == [frame[t] EXCEPT !.pc = "back.answer", !.obj = o]
             f3 == [frame[t] EXCEPT !.pc = "back.unknown"]
  <2>1. WriteOK(f1) /\ WriteOK(f3)
    <3>1. f1.pc \in Quiet /\ f3.pc \in Quiet
      BY <1>0 DEF Quiet, Frame
    <3> QED
      BY <3>1, QuietWriteOK
  <2>2. CASE Found(registrations, frame[t].chat)
    <3>1. /\ o.dirty = {}
          /\ frame[t].chat \notin PrivateChats => o.row.state = WaitingName
      BY <2>2, FoundInGroup DEF Snapshot
    <3>2. \E g \in {f1, f2} : Statement(t, registrations, g)
      BY <1>1, <2>2 DEF BackFind, FindByChatId
    <3> HIDE DEF o
    <3>3. f2.pc = "back.answer" /\ f2.obj = o /\ f2.chat = frame[t].chat
      BY <1>0 DEF Frame
    <3> HIDE DEF f1, f2, f3
    <3>4. WriteOK(f2)
      BY <3>1, <3>3 DEF WriteOK, MarksOK, GroupOK, MessageAwaits, FormAwaits
    <3> QED
      BY <1>0, <2>1, <3>2, <3>4, StatementFrames, WriteOKStep
  <2>3. CASE ~Found(registrations, frame[t].chat)
    <3>1. Statement(t, registrations, f3)
      BY <1>1, <2>3 DEF BackFind, FindByChatId
    <3> HIDE DEF f1, f3
    <3> QED
      BY <1>0, <2>1, <3>1, StatementFrames, WriteOKStep
  <2> QED
    BY <2>2, <2>3
<1>2. CASE BackRefuse(t)
  BY <1>0, <1>2, NoFrameWriteOK, ApiFrames, WriteOKStep
  DEF BackRefuse, Request
<1>3. CASE BackAnswer(t)
  <2> DEFINE o   == frame[t].obj
             new == SteppedBack(o)
             f   == [frame[t] EXCEPT !.pc = "back.update",
                                     !.step = PrevState(o.row.state),
                                     !.obj = new]
  <2>1. /\ o \in Object /\ o.dirty = {}
        /\ frame[t].chat \notin PrivateChats => o.row.state = WaitingName
    BY <1>0, <1>3, FrameFields
    DEF BackAnswer, At, WriteOK, MarksOK, GroupOK, Holding
  <2>2. CASE CanGoBack(o.row.state)
    <3>1. frame[t].chat \in PrivateChats
      BY <2>1, <2>2 DEF CanGoBack
    <3>2. Request(t, f)
      BY <1>3, <2>2 DEF BackAnswer
    <3>3. "message_id" \notin new.dirty
      BY <2>1, AnswersMarkNoId, CompletedIsLast
    <3> HIDE DEF new
    <3>4. f.pc = "back.update" /\ f.obj = new /\ f.chat = frame[t].chat
      BY <1>0 DEF Frame
    <3> HIDE DEF f
    <3>5. WriteOK(f)
      BY <3>1, <3>3, <3>4, PrivateWriteOK DEF MarksOK
    <3> QED
      BY <1>0, <3>2, <3>5, ApiFrames, WriteOKStep DEF Request
  <2>3. CASE ~CanGoBack(o.row.state)
    <3>1. Request(t, NoFrame)
      BY <1>3, <2>3 DEF BackAnswer
    <3> QED
      BY <1>0, <3>1, NoFrameWriteOK, ApiFrames, WriteOKStep DEF Request
  <2> QED
    BY <2>2, <2>3
<1>4. CASE BackUpdate(t)
  <2> DEFINE f == [frame[t] EXCEPT !.pc = "form.find", !.obj = NoObject]
  <2>1. f.pc = "form.find" /\ f.chat = frame[t].chat
    BY <1>0 DEF Frame
  <2>2. Update(t, f) /\ frame[t].chat \in PrivateChats
    BY <1>0, <1>4 DEF BackUpdate, At, WriteOK, GroupOK
  <2> HIDE DEF f
  <2>3. WriteOK(f)
    BY <2>1, <2>2, PrivateWriteOK DEF MarksOK
  <2> QED
    BY <1>0, <2>2, <2>3, StatementFrames, WriteOKStep DEF Update
<1> QED
  BY <1>1, <1>2, <1>3, <1>4 DEF ReplyBackQuery

(* resumeRegistration: only the message id is set. *)
LEMMA ResumptionFrames ==
  ASSUME WInv, NEW t \in Tasks, ResumeRegistration(t)
  PROVE  \A u \in Tasks : WriteOK(frame'[u])
<1>0. IInv /\ frame[t] \in Frame /\ WriteOK(frame[t])
  BY IInvFacts DEF WInv
<1>1. CASE ResumeThanks(t) \/ ResumePrompt(t)
  BY <1>0, <1>1, NoFrameWriteOK, ApiFrames, WriteOKStep
  DEF ResumeThanks, ResumePrompt, Send
<1>2. CASE ResumeClear(t)
  <2> DEFINE f == [frame[t] EXCEPT !.pc = "resume.form"]
  <2>1. f.pc = "resume.form" /\ f.obj = frame[t].obj /\ f.chat = frame[t].chat
    BY <1>0 DEF Frame
  <2>2. Resume(t, f) /\ frame[t].pc = "resume.clear"
    BY <1>2 DEF ResumeClear, Goto, At
  <2> HIDE DEF f
  <2>3. WriteOK(f)
    BY <1>0, <2>1, <2>2
    DEF WriteOK, MarksOK, GroupOK, MessageAwaits, FormAwaits, Holding
  <2> QED
    BY <1>0, <2>2, <2>3, ResumedFrame, WriteOKStep
<1>3. CASE ResumeForm(t)
  <2> DEFINE m == Len(messages[frame[t].chat]) + 1
             f == [frame[t] EXCEPT !.pc = "resume.update",
                                   !.obj = SetMessageId(frame[t].obj, m)]
  <2>1. \A u \in Tasks : frame'[u] \in {frame[u], f, NoFrame}
    <3>1. PICK accepted, log : Api(t, accepted, log, f)
      BY <1>3 DEF ResumeForm, Send
    <3> HIDE DEF f
    <3> QED
      BY <1>0, <3>1, ApiFrames
  <2>2. WriteOK(f)
    BY <1>0, <1>3, NextMessageId, MessageIdWriteOK DEF ResumeForm, At
  <2> QED
    BY <2>1, <2>2, WriteOKStep
<1>4. CASE ResumeUpdate(t)
  <2> DEFINE f == [frame[t] EXCEPT !.pc = "resume.prompt"]
  <2>1. f.pc = "resume.prompt" /\ f.obj = frame[t].obj /\ f.chat = frame[t].chat
    BY <1>0 DEF Frame
  <2>2. Update(t, f) /\ frame[t].pc = "resume.update"
    BY <1>4 DEF ResumeUpdate, At
  <2> HIDE DEF f
  <2>3. WriteOK(f)
    BY <1>0, <2>1, <2>2
    DEF WriteOK, MarksOK, GroupOK, MessageAwaits, FormAwaits, Holding
  <2> QED
    BY <1>0, <2>2, <2>3, StatementFrames, WriteOKStep DEF Update
<1> QED
  BY <1>1, <1>2, <1>3, <1>4 DEF ResumeRegistration

(* An update starts a handler whose frame is in order. *)
LEMMA DeliveredFrames ==
  ASSUME WInv, NEW t \in Tasks, NewUpdate(t)
  PROVE  /\ \A u \in Tasks : WriteOK(frame'[u])
         /\ UNCHANGED <<registrations, messages>>
<1>0. IInv
  BY DEF WInv
<1>1. PICK c \in Chats :
        \/ OnStart(t, c)
        \/ \E x \in Texts : OnMessage(t, c, x)
        \/ \E m \in DOMAIN messages[c] : OnCallbackQuery(t, c, m)
  BY DEF NewUpdate
<1>2. ASSUME NEW f, WriteOK(f), Deliver(t, c, f)
      PROVE  /\ \A u \in Tasks : WriteOK(frame'[u])
             /\ UNCHANGED <<registrations, messages>>
  BY <1>0, <1>2, ResumedFrame, WriteOKStep DEF Deliver, Spawn
<1>3. CASE OnStart(t, c)
  <2>1. Handler("start.find", c).pc \in Quiet
    BY HandlerFrame DEF Quiet
  <2> QED
    BY <1>2, <1>3, <2>1, QuietWriteOK DEF OnStart
<1>4. ASSUME NEW x \in Texts, OnMessage(t, c, x)
      PROVE  /\ \A u \in Tasks : WriteOK(frame'[u])
             /\ UNCHANGED <<registrations, messages>>
  <2> DEFINE f == [Handler("message.find", c) EXCEPT !.text = x]
  <2>1. f.pc = "message.find" /\ f.chat = c
    BY NoFrameOK DEF Handler, Frame
  <2>2. c \in PrivateChats /\ Deliver(t, c, f)
    BY <1>4 DEF OnMessage
  <2> HIDE DEF f
  <2>3. WriteOK(f)
    BY <2>1, <2>2, PrivateWriteOK DEF MarksOK
  <2> QED
    BY <1>2, <2>2, <2>3
<1>5. ASSUME NEW m \in DOMAIN messages[c], OnCallbackQuery(t, c, m)
      PROVE  /\ \A u \in Tasks : WriteOK(frame'[u])
             /\ UNCHANGED <<registrations, messages>>
  <2> DEFINE button == messages[c][m].keyboard
             pc     == FirstAwait[button]
             f      == [Handler(pc, c) EXCEPT !.click = m]
  <2>1. button \in Keyboards
    <3>1. messages[c] \in Seq(Message)
      BY <1>0, IInvFacts
    <3>2. messages[c][m] \in Message
      BY <3>1
    <3> QED
      BY <3>2 DEF Message
  <2>2. button # "none" /\ Deliver(t, c, f)
    BY <1>5 DEF OnCallbackQuery
  <2> HIDE DEF button
  <2>3. pc \in Quiet
    BY <2>1, <2>2 DEF FirstAwait, Keyboards, Quiet
  <2> HIDE DEF pc
  <2>4. f.pc \in Quiet
    BY <2>3, HandlerFrame DEF Frame
  <2> HIDE DEF f
  <2> QED
    BY <1>2, <2>2, <2>4, QuietWriteOK
<1> QED
  BY <1>1, <1>3, <1>4, <1>5

-----------------------------------------------------------------------------
(* The table. *)

(* A write of one row that does not take answers or state back with the    *)
(* message id, nor the message id with them.                               *)
Harmless(table, new) ==
  \A i \in DOMAIN table : new[i] # table[i] =>
    /\ \A j \in DOMAIN table \ {i} : new[j] = table[j]
    /\ new[i].message_id # table[i].message_id
         => new[i] = [table[i] EXCEPT !.message_id = new[i].message_id]

(* Registrations of groups are as they were opened. *)
GroupRows(table) ==
  \A i \in DOMAIN table :
    table[i].chat_id \notin PrivateChats =>
      table[i].state = WaitingName /\ table[i].answers = Blank

(* UPDATE writes the marked columns and no other. *)
LEMMA UpdatedColumns ==
  ASSUME NEW table \in Seq(Row), NEW o \in Object, o.id \in DOMAIN table
  PROVE  /\ o.dirty \subseteq {"message_id"} \/ "message_id" \notin o.dirty
              => Harmless(table, Updated(table, o))
         /\ o.dirty \subseteq {"message_id"} =>
              /\ Updated(table, o)[o.id].state = table[o.id].state
              /\ Updated(table, o)[o.id].answers = table[o.id].answers
<1> DEFINE old == table[o.id]
           new == [chat_id    |-> old.chat_id,
                   state      |-> IF "state" \in o.dirty
                                    THEN o.row.state ELSE old.state,
                   message_id |-> IF "message_id" \in o.dirty
                                    THEN o.row.message_id
                                    ELSE old.message_id,
                   answers    |-> [f \in Fields |-> IF f \in o.dirty
                                                      THEN o.row.answers[f]
                                                      ELSE old.answers[f]]]
<1>1. old \in Row
  OBVIOUS
<1>2. Updated(table, o) = [table EXCEPT ![o.id] = new]
  BY DEF Updated, UpdateColumns
<1>3. /\ Updated(table, o)[o.id] = new
      /\ \A i \in DOMAIN table \ {o.id} : Updated(table, o)[i] = table[i]
  BY <1>2
<1>4. ASSUME o.dirty \subseteq {"message_id"}
      PROVE  /\ new.state = old.state /\ new.answers = old.answers
             /\ new = [old EXCEPT !.message_id = new.message_id]
  <2>1. \A f \in Fields : f \notin o.dirty
    BY <1>4 DEF Fields
  <2>2. old.answers = [f \in Fields |-> old.answers[f]]
    BY <1>1 DEF Row, Answers
  <2>3. [f \in Fields |-> IF f \in o.dirty THEN o.row.answers[f]
                                           ELSE old.answers[f]]
          = old.answers
    BY <2>1, <2>2
  <2>4. new.state = old.state
    BY <1>4
  <2>5. [old EXCEPT !.message_id = new.message_id]
          = [chat_id |-> old.chat_id, state |-> old.state,
             message_id |-> new.message_id, answers |-> old.answers]
    BY <1>1 DEF Row
  <2> QED
    BY <2>3, <2>4, <2>5
<1>5. "message_id" \notin o.dirty => new.message_id = old.message_id
  OBVIOUS
<1> HIDE DEF new
<1> QED
  BY <1>3, <1>4, <1>5 DEF Harmless, old

(* The awaits at which a coroutine is about to write its object. *)
Writing ==
  {"want.update", "resume.update", "form.update", "save.update",
   "back.update"}

(* The UPDATE of a coroutine in order. *)
LEMMA UpdateWrites ==
  ASSUME WInv, NEW t \in Tasks, frame[t].pc \in Writing, NEW f, Update(t, f)
  PROVE  Harmless(registrations, registrations') /\ GroupRows(registrations')
<1> DEFINE o   == frame[t].obj
           new == Updated(registrations, o)
<1>1. /\ IInv /\ frame[t] \in Frame /\ o \in Object
      /\ registrations \in Seq(Row)
      /\ ObjectOK(registrations, frame[t]) /\ WriteOK(frame[t])
  BY IInvFacts, FrameFields DEF WInv, FrameOK
<1>2. frame[t].pc \in Holding
  BY DEF Writing, Holding
<1>3. /\ o.id \in DOMAIN registrations
      /\ registrations[o.id].chat_id = frame[t].chat
  BY <1>1, <1>2 DEF ObjectOK
<1>4. o.dirty \subseteq {"message_id"} \/ "message_id" \notin o.dirty
  BY <1>1 DEF WriteOK, MarksOK, Writing
<1>5. frame[t].chat \notin PrivateChats => o.dirty \subseteq {"message_id"}
  BY <1>1 DEF WriteOK, MarksOK, GroupOK, Writing, MessageAwaits, FormAwaits
<1>6. GroupRows(registrations)
  BY DEF WInv, GroupsAreNotAnswered, GroupRows
<1> HIDE DEF o, new
<1>7. /\ DOMAIN new = DOMAIN registrations
      /\ \A i \in DOMAIN registrations \ {o.id} : new[i] = registrations[i]
      /\ new[o.id].chat_id = registrations[o.id].chat_id
  BY <1>1, <1>3, UpdatedTable DEF new
<1>8. /\ Harmless(registrations, new)
      /\ o.dirty \subseteq {"message_id"} =>
           /\ new[o.id].state = registrations[o.id].state
           /\ new[o.id].answers = registrations[o.id].answers
  BY <1>1, <1>3, <1>4, UpdatedColumns DEF new
<1>9. GroupRows(new)
  <2> SUFFICES ASSUME NEW i \in DOMAIN new,
                      new[i].chat_id \notin PrivateChats
               PROVE  new[i].state = WaitingName /\ new[i].answers = Blank
    BY DEF GroupRows
  <2>1. CASE i = o.id
    BY <2>1, <1>3, <1>5, <1>6, <1>7, <1>8 DEF GroupRows
  <2>2. CASE i # o.id
    BY <2>2, <1>6, <1>7 DEF GroupRows
  <2> QED
    BY <2>1, <2>2
<1>10. registrations' = registrations \/ registrations' = new
  BY StatementTable DEF Update, new, o
<1> QED
  BY <1>6, <1>8, <1>9, <1>10 DEF Harmless

(* INSERT changes no row, and the new one is blank. *)
LEMMA InsertWrites ==
  ASSUME WInv, NEW t \in Tasks, WantSave(t)
  PROVE  Harmless(registrations, registrations') /\ GroupRows(registrations')
<1> DEFINE r   == [chat_id |-> frame[t].chat, state |-> WaitingName,
                   message_id |-> 0, answers |-> Blank]
           new == Append(registrations, r)
<1>1. registrations \in Seq(Row) /\ frame[t].chat \in Chats
  BY IInvFacts, FrameFields DEF WInv
<1>2. r \in Row /\ r.state = WaitingName /\ r.answers = Blank
  BY <1>1, CompletedIsLast, StatesAreNaturals DEF Row, Answers, Blank
<1>3. GroupRows(registrations)
  BY DEF WInv, GroupsAreNotAnswered, GroupRows
<1>4. registrations' = registrations \/ registrations' = new
  BY StatementTable DEF WantSave, Inserted
<1> HIDE DEF r
<1>5. /\ Len(new) = Len(registrations) + 1
      /\ \A i \in 1..Len(registrations) : new[i] = registrations[i]
      /\ new[Len(registrations) + 1] = r
      /\ new \in Seq(Row)
  BY <1>1, <1>2, AppendProperties
<1> HIDE DEF new
<1>6. /\ DOMAIN registrations = 1..Len(registrations)
      /\ DOMAIN new = 1..(Len(registrations) + 1)
      /\ Len(registrations) \in Nat
  BY <1>1, <1>5, LenProperties
<1>7. GroupRows(new) /\ Harmless(registrations, new)
  BY <1>2, <1>3, <1>5, <1>6 DEF GroupRows, Harmless
<1> QED
  BY <1>3, <1>4, <1>7 DEF Harmless

(* The table changes when a handler inserts a row or writes its object. *)
LEMMA StepTable ==
  ASSUME NEW t \in Tasks, Step(t)
  PROVE  \/ WantSave(t)
         \/ \E f : Update(t, f) /\ frame[t].pc \in Writing
         \/ UNCHANGED registrations
<1>1. ReplyStartCommand(t) => UNCHANGED registrations
  BY StatementTable
  DEF ReplyStartCommand, StartFind, StartWelcome, FindByChatId, Send, Api
<1>2. CheckSubscription(t) => UNCHANGED registrations
  BY DEF CheckSubscription, CheckMember, CheckDeny, CheckClear,
         CheckAnswer, CheckConfirm, Request, Clear, Send, Api
<1>3. AnswerWantParticipateQuery(t) =>
      WantSave(t) \/ WantUpdate(t) \/ UNCHANGED registrations
  BY DEF AnswerWantParticipateQuery, WantAnswer, WantClear, WantContest,
         WantPrompt, Request, Clear, Send, Api
<1>4. ProcessMessage(t) => SaveUpdate(t) \/ UNCHANGED registrations
  BY StatementTable
  DEF ProcessMessage, MessageFind, SaveFind, SaveThanks, FindByChatId,
      Send, Api
<1>5. ReplyBackQuery(t) => BackUpdate(t) \/ UNCHANGED registrations
  BY StatementTable
  DEF ReplyBackQuery, BackFind, BackRefuse, BackAnswer, FindByChatId,
      Request, Api
<1>6. ShowFormPrompt(t) => FormUpdate(t) \/ UNCHANGED registrations
  BY StatementTable
  DEF ShowFormPrompt, FormFind, FormEdit, FormPrompt, FindByChatId, Edit,
      Send, Api
<1>7. ResumeRegistration(t) => ResumeUpdate(t) \/ UNCHANGED registrations
  BY DEF ResumeRegistration, ResumeThanks, ResumeClear, ResumeForm,
         ResumePrompt, Send, Api
<1> QED
  BY <1>1, <1>2, <1>3, <1>4, <1>5, <1>6, <1>7
  DEF Step, WantUpdate, SaveUpdate, BackUpdate, FormUpdate, ResumeUpdate,
      At, Writing

(* Every step of a handler. *)
LEMMA StepWrites ==
  ASSUME WInv, NEW t \in Tasks, Step(t)
  PROVE  Harmless(registrations, registrations') /\ GroupRows(registrations')
<1>1. GroupRows(registrations)
  BY DEF WInv, GroupsAreNotAnswered, GroupRows
<1>2. UNCHANGED registrations
        => Harmless(registrations, registrations') /\ GroupRows(registrations')
  BY <1>1 DEF Harmless
<1> QED
  BY <1>2, StepTable, InsertWrites, UpdateWrites

-----------------------------------------------------------------------------
(* The bot. *)

(* Nobody in a group is thanked, since thanks follow a phrase. *)
LEMMA GroupsFromRows ==
  IInv /\ GroupRows(registrations) => GroupsAreNotAnswered
<1> SUFFICES ASSUME IInv, GroupRows(registrations)
             PROVE  GroupsAreNotAnswered
  OBVIOUS
<1>1. "phrase" \in Fields /\ Blank["phrase"] = NoText
  BY DEF Fields, Blank
<1>2. \A c \in Chats \ PrivateChats : ~HasPhrase(c)
  BY <1>1 DEF GroupRows, HasPhrase
<1>3. ThankedOnlyAfterSaved
  BY DEF IInv
<1> QED
  BY <1>2, <1>3 DEF GroupRows, GroupsAreNotAnswered, ThankedOnlyAfterSaved

(* Initially there are no rows and no coroutines. *)
LEMMA WInvInit == BotInit => WInv
<1> SUFFICES ASSUME BotInit PROVE WInv
  OBVIOUS
<1>1. IInv
  BY IInvInit
<1>2. GroupRows(registrations)
  BY DEF BotInit, Init, GroupRows
<1>3. \A t \in Tasks : WriteOK(frame[t])
  BY NoFrameWriteOK DEF BotInit, Init
<1> QED
  BY <1>1, <1>2, <1>3, GroupsFromRows DEF WInv

(* What a step of the bot does to the table and to the frames. *)
LEMMA WritesOfNext ==
  ASSUME WInv, [Next]_allVars
  PROVE  /\ Harmless(registrations, registrations')
         /\ GroupRows(registrations')
         /\ \A t \in Tasks : WriteOK(frame'[t])
<1>1. GroupRows(registrations)
  BY DEF WInv, GroupsAreNotAnswered, GroupRows
<1>2. UNCHANGED registrations
        => Harmless(registrations, registrations') /\ GroupRows(registrations')
  BY <1>1 DEF Harmless
<1>3. ASSUME NEW t \in Tasks, NewUpdate(t)
      PROVE  /\ UNCHANGED registrations
             /\ \A u \in Tasks : WriteOK(frame'[u])
  BY <1>3, DeliveredFrames
<1>4. ASSUME NEW t \in Tasks, Step(t)
      PROVE  \A u \in Tasks : WriteOK(frame'[u])
  BY <1>4, StartFrames, ResumptionFrames, CheckFrames, WantFrames,
     MessageFrames, BackFrames, FormFrames DEF Step
<1>5. CASE Crash \/ Restart
  <2>1. UNCHANGED registrations
    BY <1>5 DEF Crash, Restart
  <2>2. \A t \in Tasks : frame'[t] = frame[t] \/ frame'[t] = NoFrame
    BY <1>5 DEF Crash, Restart, Terminate
  <2> QED
    BY <1>2, <2>1, <2>2, NoFrameWriteOK DEF WInv
<1>6. CASE UNCHANGED allVars
  BY <1>2, <1>6 DEF allVars, WInv
<1> QED
  BY <1>2, <1>3, <1>4, <1>5, <1>6, StepWrites DEF Next

(* Every step keeps the invariant. *)
LEMMA WInvStep == WInv /\ [Next]_allVars => WInv'
<1> SUFFICES ASSUME WInv, [Next]_allVars PROVE WInv'
  OBVIOUS
<1>1. IInv'
  BY IInvStep DEF WInv
<1>2. GroupRows(registrations') /\ \A t \in Tasks : WriteOK(frame'[t])
  BY WritesOfNext
<1>3. (IInv /\ GroupRows(registrations) => GroupsAreNotAnswered)'
  BY GroupsFromRows, PTL
<1> QED
  BY <1>1, <1>2, <1>3 DEF WInv

(* The invariant about what suspended handlers are going to write. *)
THEOREM WritesAreInOrder == Spec => []WInv
BY WInvInit, WInvStep, PTL DEF Spec

(* OnMessage of ConferenceBotController is reached from private chats      *)
(* only, /start and the buttons from any chat: what they open in a group   *)
(* stays at its first question, blank and without thanks.                  *)
THEOREM GroupRegistrationsStayBlank == Spec => []GroupsAreNotAnswered
<1>1. WInv => GroupsAreNotAnswered
  BY DEF WInv
<1> QED
  BY <1>1, WritesAreInOrder, PTL

(* RegistrationRepository::update writes the dirty columns only.  However  *)
(* old the snapshot, storing a message id takes back no answer and no      *)
(* state, storing those takes back no message id, and no other row is      *)
(* touched.                                                                *)
THEOREM StaleWritesAreHarmless == Spec => StaleSnapshotsDoNotRollBack
<1> DEFINE H == \A i \in DOMAIN registrations :
             registrations'[i] # registrations[i] =>
               /\ \A j \in DOMAIN registrations \ {i} :
                    registrations'[j] = registrations[j]
               /\ registrations'[i].message_id # registrations[i].message_id
                    => registrations'[i] = [registrations[i] EXCEPT
                         !.message_id = registrations'[i].message_id]
<1>1. WInv /\ [Next]_allVars => [H]_allVars
  BY WritesOfNext DEF Harmless
<1> QED
  BY <1>1, WritesAreInOrder, PTL DEF Spec, StaleSnapshotsDoNotRollBack

-----------------------------------------------------------------------------
(* Patient users: a registration is a form of RegistrationForm.            *)
(*                                                                         *)
(* Who waits for the handling of an update to end has one coroutine at     *)
(* work in the chat.  So what it holds stays fresh: the object is the row  *)
(* as it is now with the change that is about to be written, and each      *)
(* UPDATE turns out to be one step of the form.                            *)

(* One coroutine at work in a chat. *)
OnePerChat ==
  \A t, u \in Tasks :
    t # u /\ frame[t].pc # "idle" /\ frame[u].pc # "idle"
      => frame[t].chat # frame[u].chat

(* showFormPrompt may bring a row to step s: it is there, or its question  *)
(* is answered and s is the next.                                          *)
Due(row, s) ==
  \/ s = row.state
  \/ /\ row.state \in Waiting \ {WaitingPhrase}
     /\ s = NextState(row.state)
     /\ row.answers[FieldOf(row.state)] # NoText

(* The object held is the row as it is, with the change of the handler. *)
FreshOK(table, f) ==
  LET now == Snapshot(table, f.obj.id)
      row == table[f.obj.id]
  IN  /\ f.pc \in {"want.prompt", "back.answer", "resume.thanks",
                   "resume.clear", "resume.form"}
           => f.obj = now
      /\ f.pc \in {"want.update", "resume.update"}
           => f.obj = SetMessageId(now, f.obj.row.message_id)
      /\ f.pc \in {"form.edit", "resume.prompt"} => f.obj.row = row
      /\ f.pc = "save.find" => f.step \in Waiting
      /\ f.pc = "save.update" =>
           /\ f.step \in Waiting /\ f.step = row.state
           /\ f.text \in Texts
           /\ f.obj = SavedAnswer(now, f.step, f.text)
      /\ f.pc = "back.update" =>
           /\ CanGoBack(row.state)
           /\ f.step = PrevState(row.state)
           /\ f.obj = SteppedBack(now)
      /\ f.pc = "form.find" =>
           \A i \in RowsOf(table, f.chat) :
             RowsOf(table, f.chat) = {i} => Due(table[i], f.step)
      /\ f.pc = "form.update" =>
           Due(row, f.step) /\ f.obj = SetState(now, f.step)
      /\ f.pc = "form.edit" => f.step = row.state

FormInv ==
  /\ WInv
  /\ OnePerChat
  /\ \A t \in Tasks : FreshOK(registrations, frame[t])

-----------------------------------------------------------------------------
(* The object as a change of the row it was read from. *)

(* What is not marked is as in the row. *)
Agrees(table, o) ==
  LET row == table[o.id]
  IN  /\ o.row.chat_id = row.chat_id
      /\ "state" \notin o.dirty => o.row.state = row.state
      /\ "message_id" \notin o.dirty => o.row.message_id = row.message_id
      /\ \A f \in Fields :
           f \notin o.dirty => o.row.answers[f] = row.answers[f]

(* UPDATE of such an object stores the object. *)
LEMMA FreshWrite ==
  ASSUME NEW table \in Seq(Row), NEW o \in Object, o.id \in DOMAIN table,
         Agrees(table, o)
  PROVE  Updated(table, o) = [table EXCEPT ![o.id] = o.row]
<1> DEFINE old == table[o.id]
           new == [chat_id    |-> old.chat_id,
                   state      |-> IF "state" \in o.dirty
                                    THEN o.row.state ELSE old.state,
                   message_id |-> IF "message_id" \in o.dirty
                                    THEN o.row.message_id
                                    ELSE old.message_id,
                   answers    |-> [f \in Fields |-> IF f \in o.dirty
                                                      THEN o.row.answers[f]
                                                      ELSE old.answers[f]]]
<1>1. o.row \in Row
  BY ObjectFields
<1>2. Updated(table, o) = [table EXCEPT ![o.id] = new]
  BY DEF Updated, UpdateColumns
<1>3. new.answers = o.row.answers
  <2>1. o.row.answers = [f \in Fields |-> o.row.answers[f]]
    BY <1>1 DEF Row, Answers
  <2>2. \A f \in Fields : new.answers[f] = o.row.answers[f]
    BY DEF Agrees
  <2> QED
    BY <2>1, <2>2
<1>4. /\ new.chat_id = o.row.chat_id /\ new.state = o.row.state
      /\ new.message_id = o.row.message_id
  BY DEF Agrees
<1>5. /\ o.row = [chat_id |-> o.row.chat_id, state |-> o.row.state,
                  message_id |-> o.row.message_id,
                  answers |-> o.row.answers]
      /\ new = [chat_id |-> new.chat_id, state |-> new.state,
                message_id |-> new.message_id, answers |-> new.answers]
  BY <1>1 DEF Row
<1> HIDE DEF new
<1> QED
  BY <1>2, <1>3, <1>4, <1>5

(* Each setter marks what it changes, and changes nothing else. *)
LEMMA SetStateAgrees ==
  ASSUME NEW table \in Seq(Row), NEW o \in Object, o.id \in DOMAIN table,
         Agrees(table, o), NEW s \in States, NEW n, n = SetState(o, s)
  PROVE  /\ n \in Object /\ n.id = o.id /\ Agrees(table, n)
         /\ n.row.chat_id = o.row.chat_id
         /\ n.row.message_id = o.row.message_id
         /\ n.row.state = s
         /\ n.row.answers = o.row.answers
<1>1. o.row \in Row
  BY ObjectFields
<1>2. /\ n \in Object /\ n.id = o.id
      /\ n.dirty = o.dirty \cup {"state"}
  BY SetStateType
<1>3. n.row = [o.row EXCEPT !.state = s]
  BY DEF SetState, Object
<1>4. /\ n.row.chat_id = o.row.chat_id
      /\ n.row.message_id = o.row.message_id
      /\ n.row.state = s
      /\ n.row.answers = o.row.answers
  BY <1>1, <1>3 DEF Row
<1> QED
  BY <1>2, <1>4 DEF Agrees

(* So does the setter of the message id. *)
LEMMA SetMessageIdAgrees ==
  ASSUME NEW table \in Seq(Row), NEW o \in Object, o.id \in DOMAIN table,
         Agrees(table, o), NEW m \in Nat, NEW n, n = SetMessageId(o, m)
  PROVE  /\ n \in Object /\ n.id = o.id /\ Agrees(table, n)
         /\ n.row.chat_id = o.row.chat_id
         /\ n.row.message_id = m
         /\ n.row.state = o.row.state
         /\ n.row.answers = o.row.answers
<1>1. o.row \in Row
  BY ObjectFields
<1>2. /\ n \in Object /\ n.id = o.id
      /\ n.dirty = o.dirty \cup {"message_id"}
  BY SetMessageIdType
<1>3. n.row = [o.row EXCEPT !.message_id = m]
  BY DEF SetMessageId, Object
<1>4. /\ n.row.chat_id = o.row.chat_id
      /\ n.row.message_id = m
      /\ n.row.state = o.row.state
      /\ n.row.answers = o.row.answers
  BY <1>1, <1>3 DEF Row
<1> QED
  BY <1>2, <1>4 DEF Agrees

(* The object n is o with answer x in column f. *)
AnswerSet(table, o, f, x, n) ==
  /\ n \in Object /\ n.id = o.id /\ Agrees(table, n)
  /\ n.row.chat_id = o.row.chat_id
  /\ n.row.message_id = o.row.message_id
  /\ n.row.state = o.row.state
  /\ n.row.answers = [o.row.answers EXCEPT ![f] = x]

(* And the setter of an answer. *)
LEMMA SetAnswerAgrees ==
  ASSUME NEW table \in Seq(Row), NEW o \in Object, o.id \in DOMAIN table,
         Agrees(table, o), NEW f \in Fields, NEW x \in Texts \cup {NoText},
         NEW n, n = SetAnswer(o, f, x)
  PROVE  AnswerSet(table, o, f, x, n)
<1>1. o.row \in Row /\ o.row.answers \in [Fields -> Texts \cup {NoText}]
  BY ObjectFields DEF Row, Answers
<1>2. "state" \notin Fields /\ "message_id" \notin Fields
  BY DEF Fields
<1>3. /\ n \in Object /\ n.id = o.id
      /\ n.dirty = o.dirty \cup {f}
      /\ n.row.answers = [o.row.answers EXCEPT ![f] = x]
  BY SetAnswerType
<1>4. n.row = [o.row EXCEPT !.answers[f] = x]
  BY DEF SetAnswer, Object
<1>5. /\ n.row.chat_id = o.row.chat_id
      /\ n.row.state = o.row.state
      /\ n.row.message_id = o.row.message_id
  BY <1>1, <1>4 DEF Row
<1>6. \A g \in Fields \ {f} : n.row.answers[g] = o.row.answers[g]
  BY <1>1, <1>3
<1> QED
  BY <1>2, <1>3, <1>5, <1>6 DEF Agrees, AnswerSet

(* A snapshot agrees with its row. *)
LEMMA SnapshotAgrees ==
  ASSUME NEW table \in Seq(Row), NEW i \in DOMAIN table,
         NEW now, now = Snapshot(table, i)
  PROVE  /\ now \in Object /\ now.id = i /\ Agrees(table, now)
         /\ now.row = table[i]
         /\ now.row \in Row /\ now.row.state \in States
         /\ now.row.answers \in [Fields -> Texts \cup {NoText}]
<1>1. /\ now \in Object /\ now.id = i /\ now.row = table[i]
      /\ now.row \in Row /\ now.row.state \in States
      /\ now.row.answers \in [Fields -> Texts \cup {NoText}]
  BY SnapshotType, ObjectFields, RowFields DEF Answers
<1> QED
  BY <1>1 DEF Agrees

(* The answer that a handler prepares from a snapshot. *)
LEMMA SavedAnswerAgrees ==
  ASSUME NEW table \in Seq(Row), NEW o \in Object, o.id \in DOMAIN table,
         Agrees(table, o), NEW s \in Waiting, NEW x \in Texts,
         NEW n, n = SavedAnswer(o, s, x)
  PROVE  /\ n \in Object /\ n.id = o.id /\ Agrees(table, n)
         /\ n.row.chat_id = o.row.chat_id
         /\ n.row.message_id = o.row.message_id
         /\ n.row.state = IF s = WaitingPhrase THEN Completed
                          ELSE o.row.state
         /\ n.row.answers = [o.row.answers EXCEPT ![FieldOf(s)] = x]
<1> DEFINE a == SetAnswer(o, FieldOf(s), x)
<1>1. n = IF s = WaitingPhrase THEN SetState(a, Completed) ELSE a
  BY DEF SavedAnswer
<1>2. a = SetAnswer(o, FieldOf(s), x) /\ FieldOf(s) \in Fields
  BY FieldOfType
<1> HIDE DEF a
<1>3. /\ a \in Object /\ a.id = o.id /\ Agrees(table, a)
      /\ a.row.chat_id = o.row.chat_id
      /\ a.row.message_id = o.row.message_id
      /\ a.row.state = o.row.state
      /\ a.row.answers = [o.row.answers EXCEPT ![FieldOf(s)] = x]
  <2>1. AnswerSet(table, o, FieldOf(s), x, a)
    BY <1>2, SetAnswerAgrees
  <2> QED
    BY <2>1 DEF AnswerSet
<1>4. CASE s = WaitingPhrase
  <2>1. n = SetState(a, Completed) /\ a.id \in DOMAIN table
    BY <1>1, <1>3, <1>4
  <2>2. /\ n \in Object /\ n.id = a.id /\ Agrees(table, n)
        /\ n.row.chat_id = a.row.chat_id
        /\ n.row.message_id = a.row.message_id
        /\ n.row.state = Completed
        /\ n.row.answers = a.row.answers
    BY <1>3, <2>1, CompletedIsLast, SetStateAgrees
  <2> QED
    BY <1>3, <1>4, <2>2
<1>5. CASE s # WaitingPhrase
  BY <1>1, <1>3, <1>5
<1> QED
  BY <1>4, <1>5

(* The object n is o one step earlier, the answer of that step emptied. *)
StepTakenBack(table, o, n) ==
  /\ n \in Object /\ n.id = o.id /\ Agrees(table, n)
  /\ n.row.chat_id = o.row.chat_id
  /\ n.row.message_id = o.row.message_id
  /\ n.row.state = PrevState(o.row.state)
  /\ n.row.answers = [o.row.answers EXCEPT
                        ![FieldOf(PrevState(o.row.state))] = NoText]

(* The step back that a handler prepares from a snapshot. *)
LEMMA SteppedBackAgrees ==
  ASSUME NEW table \in Seq(Row), NEW o \in Object, o.id \in DOMAIN table,
         Agrees(table, o), CanGoBack(o.row.state), NEW n, n = SteppedBack(o)
  PROVE  StepTakenBack(table, o, n)
<1> DEFINE s == PrevState(o.row.state)
           a == SetState(o, s)
<1>1. n = SetAnswer(a, FieldOf(s), NoText)
  BY DEF SteppedBack
<1>2. a = SetState(o, s) /\ s \in States /\ FieldOf(s) \in Fields
  BY PrevStateStep, StatesAreNaturals, FieldOfType, ObjectFields, RowFields
<1> HIDE DEF a, s
<1>3. /\ a \in Object /\ a.id = o.id /\ Agrees(table, a)
      /\ a.row.chat_id = o.row.chat_id
      /\ a.row.message_id = o.row.message_id
      /\ a.row.state = s
      /\ a.row.answers = o.row.answers
  BY <1>2, SetStateAgrees
<1>4. /\ n \in Object /\ n.id = a.id /\ Agrees(table, n)
      /\ n.row.chat_id = a.row.chat_id
      /\ n.row.message_id = a.row.message_id
      /\ n.row.state = a.row.state
      /\ n.row.answers = [a.row.answers EXCEPT ![FieldOf(s)] = NoText]
  <2>1. AnswerSet(table, a, FieldOf(s), NoText, n)
    BY <1>1, <1>2, <1>3, SetAnswerAgrees
  <2> QED
    BY <2>1 DEF AnswerSet
<1> QED
  BY <1>3, <1>4 DEF s, StepTakenBack

(* What UPDATE does with an object that agrees with its row. *)
LEMMA FreshUpdate ==
  ASSUME NEW table \in Seq(Row), NEW o \in Object, o.id \in DOMAIN table,
         Agrees(table, o), NEW new, new = Updated(table, o)
  PROVE  /\ new \in Seq(Row) /\ DOMAIN new = DOMAIN table
         /\ new = [table EXCEPT ![o.id] = o.row]
         /\ new[o.id] = o.row
         /\ \A i \in DOMAIN table \ {o.id} : new[i] = table[i]
         /\ \A c : RowsOf(new, c) = RowsOf(table, c)
<1>1. /\ new = [table EXCEPT ![o.id] = o.row]
      /\ new \in Seq(Row) /\ DOMAIN new = DOMAIN table
  BY FreshWrite, UpdatedTable
<1>2. new[o.id] = o.row /\ \A i \in DOMAIN table \ {o.id} : new[i] = table[i]
  BY <1>1
<1>3. \A i \in DOMAIN table : new[i].chat_id = table[i].chat_id
  BY <1>2 DEF Agrees
<1> QED
  BY <1>1, <1>2, <1>3 DEF RowsOf

-----------------------------------------------------------------------------
(* A step of one coroutine and the others. *)

(* The rows of chat c are as they were. *)
Untouched(table, new, c) ==
  /\ RowsOf(new, c) = RowsOf(table, c)
  /\ \A i \in RowsOf(table, c) : new[i] = table[i]

(* What is fresh stays so while other chats are written. *)
LEMMA FreshStays ==
  ASSUME NEW table, NEW new, NEW f, Untouched(table, new, f.chat),
         ObjectOK(table, f), FreshOK(table, f)
  PROVE  FreshOK(new, f)
<1>1. f.pc \in Holding =>
        /\ new[f.obj.id] = table[f.obj.id]
        /\ Snapshot(new, f.obj.id) = Snapshot(table, f.obj.id)
  BY DEF ObjectOK, Untouched, RowsOf, Snapshot
<1>2. CASE f.pc \in Holding
  BY <1>1, <1>2 DEF FreshOK, Holding
<1>3. CASE f.pc = "form.find"
  BY <1>3 DEF FreshOK, Untouched
<1>4. CASE f.pc \notin Holding \cup {"form.find"}
  BY <1>4 DEF FreshOK, Holding
<1> QED
  BY <1>2, <1>3, <1>4

(* A step that writes table and goes on in frame f, or ends the handler. *)
Outcome(t, table, f) ==
  /\ registrations' \in {registrations, table}
  /\ \A u \in Tasks \ {t} : frame'[u] \in {frame[u], NoFrame}
  /\ \/ frame'[t] = NoFrame
     \/ frame'[t] = f /\ registrations' = table

(* An await leads to its frame or ends the handler. *)
LEMMA StatementOutcome ==
  ASSUME IInv, NEW t \in Tasks, NEW table, NEW f, Statement(t, table, f)
  PROVE  Outcome(t, table, f)
<1>1. ASSUME NEW catching, Throw(t, catching)
      PROVE  /\ frame'[t] = NoFrame
             /\ \A u \in Tasks \ {t} : frame'[u] \in {frame[u], NoFrame}
  BY <1>1, ResumedFrame, ThrownFrame DEF Throw, Finish, Terminate
<1> QED
  BY <1>1, ResumedFrame DEF Statement, Outcome

(* So does a request, which leaves the table alone. *)
LEMMA ApiOutcome ==
  ASSUME IInv, NEW t \in Tasks, NEW accepted, NEW log, NEW f,
         Api(t, accepted, log, f)
  PROVE  Outcome(t, registrations, f)
<1>1. ASSUME NEW catching, Throw(t, catching)
      PROVE  /\ frame'[t] = NoFrame
             /\ \A u \in Tasks \ {t} : frame'[u] \in {frame[u], NoFrame}
  BY <1>1, ResumedFrame, ThrownFrame DEF Throw, Finish, Terminate
<1> QED
  BY <1>1, ResumedFrame DEF Api, Outcome

(* Chats other than c are not written. *)
Inside(table, c) ==
  \A d : d # c => Untouched(registrations, table, d)

(* An unused frame holds nothing. *)
LEMMA NoFrameFresh == \A table : FreshOK(table, NoFrame)
<1>1. NoFrame.pc = "idle"
  BY DEF NoFrame
<1> QED
  BY <1>1 DEF FreshOK

(* The frames after a step of a coroutine at work. *)
Fresh ==
  /\ OnePerChat
  /\ \A t \in Tasks : FreshOK(registrations, frame[t])

(* A step within the coroutine's chat to a fresh frame keeps all fresh. *)
LEMMA FreshStep ==
  ASSUME FormInv, NEW t \in Tasks, frame[t].pc # "idle", NEW table, NEW f,
         Outcome(t, table, f), Inside(table, frame[t].chat),
         f.pc = "idle" \/ f.chat = frame[t].chat,
         FreshOK(table, f)
  PROVE  Fresh'
<1>1. /\ IInv /\ OnePerChat
      /\ \A u \in Tasks : /\ FreshOK(registrations, frame[u])
                          /\ ObjectOK(registrations, frame[u])
  BY IInvFacts DEF FormInv, WInv, FrameOK
<1>2. NoFrame.pc = "idle"
  BY DEF NoFrame
<1>3. OnePerChat'
  BY <1>1, <1>2 DEF OnePerChat, Outcome
<1>4. ASSUME NEW u \in Tasks PROVE FreshOK(registrations', frame'[u])
  <2>1. CASE frame'[u] = NoFrame
    BY <2>1, NoFrameFresh
  <2>2. CASE u = t /\ frame'[u] = f /\ registrations' = table
    BY <2>2
  <2>3. CASE u # t /\ frame'[u] = frame[u] /\ frame[u].pc = "idle"
    BY <2>3 DEF FreshOK
  <2>4. CASE u # t /\ frame'[u] = frame[u] /\ frame[u].pc # "idle"
    <3>1. frame[u].chat # frame[t].chat
      BY <1>1, <2>4 DEF OnePerChat
    <3>2. Untouched(registrations, registrations', frame[u].chat)
      BY <3>1 DEF Outcome, Inside, Untouched
    <3> QED
      BY <1>1, <2>4, <3>2, FreshStays
  <2> QED
    BY <2>1, <2>2, <2>3, <2>4 DEF Outcome
<1> QED
  BY <1>3, <1>4 DEF Fresh

(* What is known of a coroutine. *)
LEMMA FormInvFacts ==
  ASSUME FormInv, NEW t \in Tasks
  PROVE  /\ IInv /\ registrations \in Seq(Row)
         /\ frame[t] \in Frame /\ frame[t].obj \in Object
         /\ frame[t].step \in States /\ frame[t].chat \in Chats
         /\ ObjectOK(registrations, frame[t])
         /\ FrameOK(registrations, frame[t])
         /\ FreshOK(registrations, frame[t])
BY IInvFacts, FrameFields DEF FormInv, WInv, FrameOK

(* The object held by frame f as a change of the row. *)
Change(f, o, row) ==
  /\ f.pc \in {"want.update", "resume.update"} =>
       o.row.state = row.state /\ o.row.answers = row.answers
  /\ f.pc = "save.update" =>
       /\ f.step \in Waiting /\ f.text \in Texts
       /\ row.state = f.step
       /\ o.row.state = IF row.state = WaitingPhrase
                          THEN Completed ELSE row.state
       /\ o.row.answers = [row.answers EXCEPT ![FieldOf(row.state)] = f.text]
  /\ f.pc = "back.update" =>
       /\ CanGoBack(row.state) /\ f.step = PrevState(row.state)
       /\ o.row.state = PrevState(row.state)
       /\ o.row.answers = [row.answers EXCEPT
                             ![FieldOf(PrevState(row.state))] = NoText]
  /\ f.pc = "form.update" =>
       /\ Due(row, f.step)
       /\ o.row.state = f.step /\ o.row.answers = row.answers
  /\ f.pc \in {"save.update", "back.update", "form.update"} =>
       o.row.message_id = row.message_id

(* What a coroutine is about to write. *)
LEMMA FreshWriting ==
  ASSUME FormInv, NEW t \in Tasks, frame[t].pc \in Writing,
         NEW o, o = frame[t].obj, NEW row, row = registrations[o.id]
  PROVE  /\ o \in Object /\ o.id \in DOMAIN registrations
         /\ Agrees(registrations, o)
         /\ row \in Row /\ row.chat_id = frame[t].chat
         /\ Change(frame[t], o, row)
<1> DEFINE i   == o.id
           now == Snapshot(registrations, i)
           f   == frame[t]
<1>1. /\ registrations \in Seq(Row) /\ f \in Frame /\ o \in Object
      /\ ObjectOK(registrations, f) /\ FreshOK(registrations, f)
      /\ f.step \in States
  BY FormInvFacts
<1>2. i \in DOMAIN registrations /\ row.chat_id = f.chat
  BY <1>1 DEF Writing, Holding, ObjectOK
<1>3. /\ now \in Object /\ now.id = i /\ Agrees(registrations, now)
      /\ now.row = row /\ row \in Row
  BY <1>1, <1>2, SnapshotAgrees
<1>4. /\ now.id \in DOMAIN registrations
      /\ o.row.message_id \in Nat
  BY <1>1, <1>2, <1>3, ObjectFields, RowFields
<1>5. /\ f.pc \in {"want.update", "resume.update"}
           => o = SetMessageId(now, o.row.message_id)
      /\ f.pc = "save.update" =>
           /\ f.step \in Waiting /\ f.step = row.state
           /\ f.text \in Texts
           /\ o = SavedAnswer(now, f.step, f.text)
      /\ f.pc = "back.update" =>
           /\ CanGoBack(row.state) /\ f.step = PrevState(row.state)
           /\ o = SteppedBack(now)
      /\ f.pc = "form.update" =>
           Due(row, f.step) /\ o = SetState(now, f.step)
  BY <1>1 DEF FreshOK
<1> HIDE DEF now, f, i
<1>6. CASE f.pc \in {"want.update", "resume.update"}
  <2>1. /\ Agrees(registrations, o)
        /\ o.row.state = now.row.state /\ o.row.answers = now.row.answers
    BY <1>1, <1>3, <1>4, <1>5, <1>6, SetMessageIdAgrees
  <2> QED
    BY <1>1, <1>2, <1>3, <1>6, <2>1 DEF f, i, Change
<1>7. CASE f.pc = "save.update"
  <2>1. /\ Agrees(registrations, o)
        /\ o.row.message_id = now.row.message_id
        /\ o.row.state = IF f.step = WaitingPhrase THEN Completed
                         ELSE now.row.state
        /\ o.row.answers = [now.row.answers EXCEPT
                              ![FieldOf(f.step)] = f.text]
    <3>1. /\ registrations \in Seq(Row) /\ now \in Object
          /\ now.id \in DOMAIN registrations /\ Agrees(registrations, now)
      BY <1>1, <1>3, <1>4
    <3>2. /\ f.step \in Waiting /\ f.text \in Texts
          /\ o = SavedAnswer(now, f.step, f.text)
      BY <1>5, <1>7
    <3> QED
      BY <3>1, <3>2, SavedAnswerAgrees
  <2> QED
    BY <1>1, <1>2, <1>3, <1>5, <1>7, <2>1 DEF f, i, Change
<1>8. CASE f.pc = "back.update"
  <2>1. /\ Agrees(registrations, o)
        /\ o.row.message_id = now.row.message_id
        /\ o.row.state = PrevState(now.row.state)
        /\ o.row.answers = [now.row.answers EXCEPT
                              ![FieldOf(PrevState(now.row.state))] = NoText]
    <3>1. StepTakenBack(registrations, now, o)
      BY <1>1, <1>3, <1>4, <1>5, <1>8, SteppedBackAgrees
    <3> QED
      BY <3>1 DEF StepTakenBack
  <2> QED
    BY <1>1, <1>2, <1>3, <1>5, <1>8, <2>1 DEF f, i, Change
<1>9. CASE f.pc = "form.update"
  <2>1. /\ Agrees(registrations, o)
        /\ o.row.message_id = now.row.message_id
        /\ o.row.state = f.step
        /\ o.row.answers = now.row.answers
    BY <1>1, <1>3, <1>4, <1>5, <1>9, SetStateAgrees
  <2> QED
    BY <1>1, <1>2, <1>3, <1>5, <1>9, <2>1 DEF f, i, Change
<1> QED
  BY <1>6, <1>7, <1>8, <1>9 DEF Writing, f, Change

(* The object about to be written agrees with its row, one of the chat. *)
LEMMA WritingAgrees ==
  ASSUME FormInv, NEW t \in Tasks, frame[t].pc \in Writing,
         NEW o, o = frame[t].obj
  PROVE  /\ o \in Object /\ o.id \in DOMAIN registrations
         /\ Agrees(registrations, o)
         /\ registrations[o.id].chat_id = frame[t].chat
BY FreshWriting

(* A write of one row of the chat stays inside it. *)
LEMMA WritesInside ==
  ASSUME FormInv, NEW t \in Tasks, frame[t].pc \in Writing,
         NEW o, o = frame[t].obj, NEW new, new = Updated(registrations, o)
  PROVE  /\ new \in Seq(Row) /\ DOMAIN new = DOMAIN registrations
         /\ new = [registrations EXCEPT ![o.id] = o.row]
         /\ new[o.id] = o.row
         /\ \A i \in DOMAIN registrations \ {o.id} :
              new[i] = registrations[i]
         /\ \A c : RowsOf(new, c) = RowsOf(registrations, c)
         /\ Inside(new, frame[t].chat)
<1>1. /\ o \in Object /\ o.id \in DOMAIN registrations
      /\ Agrees(registrations, o) /\ registrations \in Seq(Row)
      /\ registrations[o.id].chat_id = frame[t].chat
  BY WritingAgrees, FormInvFacts
<1>2. /\ new \in Seq(Row) /\ DOMAIN new = DOMAIN registrations
      /\ new = [registrations EXCEPT ![o.id] = o.row]
      /\ new[o.id] = o.row
      /\ \A i \in DOMAIN registrations \ {o.id} : new[i] = registrations[i]
      /\ \A c : RowsOf(new, c) = RowsOf(registrations, c)
  BY <1>1, FreshUpdate
<1>3. \A c : c # frame[t].chat => o.id \notin RowsOf(registrations, c)
  BY <1>1 DEF RowsOf
<1>4. ASSUME NEW c, c # frame[t].chat PROVE Untouched(registrations, new, c)
  <2>1. RowsOf(new, c) = RowsOf(registrations, c)
    BY <1>2
  <2>2. RowsOf(registrations, c) \subseteq DOMAIN registrations \ {o.id}
    BY <1>3, <1>4 DEF RowsOf
  <2> QED
    BY <1>2, <2>1, <2>2 DEF Untouched
<1>5. Inside(new, frame[t].chat)
  BY <1>4, Zenon DEF Inside
<1> QED
  BY <1>2, <1>5, ZenonT(40)

(* What an INSERT makes of the table. *)
Insertion(table, new, c) ==
  /\ new \in Seq(Row) /\ Len(new) = Len(table) + 1
  /\ DOMAIN new = DOMAIN table \cup {Len(new)}
  /\ Len(new) \in DOMAIN new \ DOMAIN table
  /\ \A i \in DOMAIN table : new[i] = table[i]
  /\ new[Len(new)] = [chat_id |-> c, state |-> WaitingName,
                      message_id |-> 0, answers |-> Blank]
  /\ RowsOf(new, c) = RowsOf(table, c) \cup {Len(new)}

(* An insertion adds one row, of its chat. *)
LEMMA Inserts ==
  ASSUME NEW table \in Seq(Row), NEW c \in Chats,
         NEW new, new = Inserted(table, c)
  PROVE  Insertion(table, new, c)
<1> DEFINE r == [chat_id |-> c, state |-> WaitingName, message_id |-> 0,
                 answers |-> Blank]
<1>1. r \in Row /\ r.chat_id = c
  BY CompletedIsLast, StatesAreNaturals DEF Row, Answers, Blank
<1>2. new = Append(table, r)
  BY DEF Inserted
<1> HIDE DEF r
<1>3. /\ new \in Seq(Row)
      /\ Len(new) = Len(table) + 1
      /\ \A i \in 1..Len(table) : new[i] = table[i]
      /\ new[Len(table) + 1] = r
  BY <1>1, <1>2, AppendProperties
<1>4. /\ DOMAIN table = 1..Len(table) /\ Len(table) \in Nat
      /\ DOMAIN new = 1..(Len(table) + 1)
  BY <1>3, LenProperties
<1>5. /\ DOMAIN new = DOMAIN table \cup {Len(new)}
      /\ Len(new) \in DOMAIN new \ DOMAIN table
  BY <1>3, <1>4
<1>6. /\ \A i \in DOMAIN table : new[i] = table[i]
      /\ new[Len(new)] = r
  BY <1>3, <1>4
<1>7. RowsOf(new, c) = RowsOf(table, c) \cup {Len(new)}
  BY <1>1, <1>5, <1>6 DEF RowsOf
<1> QED
  BY <1>3, <1>5, <1>6, <1>7 DEF r, Insertion

(* So the other chats are as they were. *)
LEMMA InsertLeavesOthers ==
  ASSUME NEW table \in Seq(Row), NEW c \in Chats,
         NEW new, new = Inserted(table, c)
  PROVE  \A d : d # c => Untouched(table, new, d)
<1>1. Insertion(table, new, c)
  BY Inserts
<1>2. /\ DOMAIN new = DOMAIN table \cup {Len(new)}
      /\ \A i \in DOMAIN table : new[i] = table[i]
      /\ new[Len(new)].chat_id = c
  BY <1>1 DEF Insertion
<1>3. ASSUME NEW d, d # c PROVE Untouched(table, new, d)
  <2>1. RowsOf(new, d) = RowsOf(table, d)
    BY <1>2, <1>3 DEF RowsOf
  <2> QED
    BY <1>2, <2>1 DEF RowsOf, Untouched
<1> QED
  BY <1>3

-----------------------------------------------------------------------------
(* The handlers: what is held stays fresh. *)

(* The awaits at which nothing is held and no step is passed on. *)
Plain == Awaits \ (Holding \cup {"save.find", "form.find"})

(* A coroutine at such an await is fresh whatever the table. *)
LEMMA PlainFresh ==
  ASSUME NEW table, NEW f, f.pc \in Plain \cup {"idle"}
  PROVE  FreshOK(table, f)
BY DEF Plain, FreshOK, Holding

(* A step that leaves the table alone and leads to a fresh frame. *)
LEMMA FreshRead ==
  ASSUME FormInv, NEW t \in Tasks, frame[t].pc # "idle", NEW f,
         Outcome(t, registrations, f), f.chat = frame[t].chat,
         FreshOK(registrations, f)
  PROVE  Fresh'
<1>1. Inside(registrations, frame[t].chat)
  BY DEF Inside, Untouched
<1> QED
  BY <1>1, FreshStep

(* A step that leaves the table alone and ends the handler. *)
LEMMA FreshEnd ==
  ASSUME FormInv, NEW t \in Tasks, frame[t].pc # "idle",
         Outcome(t, registrations, NoFrame)
  PROVE  Fresh'
<1>1. Inside(registrations, frame[t].chat)
  BY DEF Inside, Untouched
<1>2. NoFrame.pc = "idle"
  BY DEF NoFrame
<1> QED
  BY <1>1, <1>2, NoFrameFresh, FreshStep

(* A step that leaves the table alone and leads to an await without an     *)
(* object.                                                                 *)
LEMMA FreshMove ==
  ASSUME FormInv, NEW t \in Tasks, frame[t].pc # "idle", NEW f,
         Outcome(t, registrations, f),
         f.chat = frame[t].chat, f.pc \in Plain
  PROVE  Fresh'
BY PlainFresh, FreshRead

(* The row that is found is the only one of the chat, and is read as it    *)
(* is.                                                                     *)
LEMMA FoundFresh ==
  ASSUME FormInv, NEW t \in Tasks, Found(registrations, frame[t].chat),
         NEW o, o = Snapshot(registrations,
                             TheRow(registrations, frame[t].chat))
  PROVE  /\ o \in Object /\ o.id \in DOMAIN registrations
         /\ o = Snapshot(registrations, o.id)
         /\ Agrees(registrations, o)
         /\ o.row = registrations[o.id] /\ o.row.state \in States
         /\ RowsOf(registrations, frame[t].chat) = {o.id}
<1> DEFINE i == TheRow(registrations, frame[t].chat)
<1>1. registrations \in Seq(Row) /\ IInv
  BY FormInvFacts
<1>2. /\ i \in DOMAIN registrations
      /\ registrations[i].chat_id = frame[t].chat
      /\ \A j \in DOMAIN registrations :
           registrations[j].chat_id = frame[t].chat => j = i
  BY <1>1, FoundRow
<1>3. RowsOf(registrations, frame[t].chat) = {i}
  BY <1>2 DEF RowsOf
<1> HIDE DEF i
<1>4. /\ o \in Object /\ o.id = i /\ Agrees(registrations, o)
      /\ o.row = registrations[i] /\ o.row.state \in States
  BY <1>1, <1>2, SnapshotAgrees DEF i
<1> QED
  BY <1>2, <1>3, <1>4 DEF i

(* What a lookup leads to. *)
LEMMA FindOutcome ==
  ASSUME FormInv, NEW t \in Tasks, NEW f, Statement(t, registrations, f)
  PROVE  Outcome(t, registrations, f)
BY FormInvFacts, StatementOutcome

(* /start. *)
LEMMA StartFresh ==
  ASSUME FormInv, NEW t \in Tasks, ReplyStartCommand(t)
  PROVE  Fresh'
<1>1. IInv /\ frame[t] \in Frame
  BY FormInvFacts
<1>2. frame[t].pc # "idle"
  BY DEF ReplyStartCommand, StartFind, StartWelcome, At
<1>3. CASE StartWelcome(t)
  BY <1>1, <1>2, <1>3, ApiOutcome, FreshEnd DEF StartWelcome, Send
<1>4. CASE StartFind(t) /\ Found(registrations, frame[t].chat)
  <2> DEFINE o == Snapshot(registrations,
                           TheRow(registrations, frame[t].chat))
             f == ResumeWith(t, o)
  <2>1. o = Snapshot(registrations, o.id)
    BY <1>4, FoundFresh
  <2>2. Statement(t, registrations, f)
    BY <1>4 DEF StartFind, FindByChatId
  <2> HIDE DEF o
  <2>3. /\ f.pc \in {"resume.thanks", "resume.clear", "resume.form"}
        /\ f.obj = o /\ f.chat = frame[t].chat
    BY <1>1 DEF ResumeWith, Frame
  <2> HIDE DEF f
  <2>4. FreshOK(registrations, f)
    BY <2>1, <2>3 DEF FreshOK
  <2> QED
    BY <1>2, <2>2, <2>3, <2>4, FindOutcome, FreshRead
<1>5. CASE StartFind(t) /\ ~Found(registrations, frame[t].chat)
  <2> DEFINE f == [frame[t] EXCEPT !.pc = "start.welcome"]
  <2>1. Statement(t, registrations, f)
    BY <1>5 DEF StartFind, FindByChatId
  <2>2. f.pc = "start.welcome" /\ f.chat = frame[t].chat
    BY <1>1 DEF Frame
  <2> HIDE DEF f
  <2>3. f.pc \in Plain
    BY <2>2 DEF Plain, Awaits, StartAwaits, Holding
  <2> QED
    BY <1>2, <2>1, <2>2, <2>3, FindOutcome, FreshMove
<1> QED
  BY <1>3, <1>4, <1>5 DEF ReplyStartCommand

(* The subscription check. *)
LEMMA CheckFresh ==
  ASSUME FormInv, NEW t \in Tasks, CheckSubscription(t)
  PROVE  Fresh'
<1>1. IInv /\ frame[t] \in Frame
  BY FormInvFacts
<1>2. frame[t].pc # "idle"
  BY DEF CheckSubscription, CheckMember, CheckDeny, CheckClear, CheckAnswer,
         CheckConfirm, At
<1>3. ASSUME NEW pc \in Plain,
             Outcome(t, registrations, [frame[t] EXCEPT !.pc = pc])
      PROVE  Fresh'
  <2> DEFINE f == [frame[t] EXCEPT !.pc = pc]
  <2>1. f.pc = pc /\ f.chat = frame[t].chat
    BY <1>1 DEF Frame
  <2> HIDE DEF f
  <2> QED
    BY <1>2, <1>3, <2>1, FreshMove DEF f
<1>4. {"check.clear", "check.deny", "check.answer", "check.confirm"}
        \subseteq Plain
  BY DEF Plain, Awaits, CheckAwaits, Holding
<1>5. CASE CheckDeny(t) \/ CheckConfirm(t)
  BY <1>1, <1>2, <1>5, ApiOutcome, FreshEnd
  DEF CheckDeny, CheckConfirm, Request, Send
<1>6. CASE CheckMember(t) \/ CheckClear(t) \/ CheckAnswer(t)
  <2>1. \E pc \in Plain :
          Outcome(t, registrations, [frame[t] EXCEPT !.pc = pc])
    BY <1>1, <1>4, <1>6, ApiOutcome
    DEF CheckMember, CheckClear, CheckAnswer, Request, Clear
  <2> QED
    BY <1>3, <2>1
<1> QED
  BY <1>5, <1>6 DEF CheckSubscription

(* An UPDATE that leads to a fresh frame. *)
LEMMA FreshWritten ==
  ASSUME FormInv, NEW t \in Tasks, frame[t].pc \in Writing, NEW f,
         Update(t, f), f.pc = "idle" \/ f.chat = frame[t].chat,
         FreshOK(Updated(registrations, frame[t].obj), f)
  PROVE  Fresh'
<1>1. frame[t].pc # "idle"
  BY DEF Writing
<1>2. PICK new : new = Updated(registrations, frame[t].obj)
  OBVIOUS
<1>3. Outcome(t, new, f)
  BY <1>2, FormInvFacts, StatementOutcome DEF Update
<1>4. Inside(new, frame[t].chat)
  BY <1>2, WritesInside
<1> QED
  BY <1>1, <1>2, <1>3, <1>4, FreshStep

(* A message id is set in a fresh object. *)
LEMMA FreshId ==
  ASSUME FormInv, NEW t \in Tasks,
         frame[t].pc \in {"want.prompt", "resume.form"},
         NEW pc \in {"want.update", "resume.update"},
         NEW m \in Nat, NEW f,
         f = [frame[t] EXCEPT !.pc = pc, !.obj = SetMessageId(@, m)]
  PROVE  f.chat = frame[t].chat /\ FreshOK(registrations, f)
<1> DEFINE o == frame[t].obj
<1>1. /\ frame[t] \in Frame /\ o \in Object
      /\ ObjectOK(registrations, frame[t])
      /\ FreshOK(registrations, frame[t])
      /\ registrations \in Seq(Row)
  BY FormInvFacts
<1>2. o = Snapshot(registrations, o.id) /\ o.id \in DOMAIN registrations
  BY <1>1 DEF FreshOK, ObjectOK, Holding
<1>3. f.pc = pc /\ f.obj = SetMessageId(o, m) /\ f.chat = frame[t].chat
  BY <1>1 DEF Frame
<1> HIDE DEF o
<1>4. Agrees(registrations, o)
  BY <1>1, <1>2, SnapshotAgrees
<1>5. f.obj.id = o.id /\ f.obj.row.message_id = m
  BY <1>1, <1>2, <1>3, <1>4, SetMessageIdAgrees
<1> QED
  BY <1>2, <1>3, <1>5 DEF FreshOK

(* "want to participate". *)
LEMMA WantFresh ==
  ASSUME FormInv, NEW t \in Tasks, AnswerWantParticipateQuery(t)
  PROVE  Fresh'
<1>1. IInv /\ frame[t] \in Frame /\ registrations \in Seq(Row)
  BY FormInvFacts
<1>2. frame[t].pc # "idle"
  BY DEF AnswerWantParticipateQuery, WantAnswer, WantClear, WantContest,
         WantSave, WantPrompt, WantUpdate, At
<1>3. CASE WantAnswer(t) \/ WantClear(t) \/ WantContest(t)
  <2>1. PICK pc \in {"want.clear", "want.contest", "want.save"} :
          Outcome(t, registrations, [frame[t] EXCEPT !.pc = pc])
    BY <1>1, <1>3, ApiOutcome
    DEF WantAnswer, WantClear, WantContest, Request, Clear
  <2> DEFINE f == [frame[t] EXCEPT !.pc = pc]
  <2>2. f.pc = pc /\ f.chat = frame[t].chat
    BY <1>1 DEF Frame
  <2>3. pc \in Plain
    BY DEF Plain, Awaits, WantAwaits, Holding
  <2> HIDE DEF f
  <2> QED
    BY <1>2, <2>1, <2>2, <2>3, FreshMove DEF f
<1>4. CASE WantSave(t)
  <2> DEFINE table == Inserted(registrations, frame[t].chat)
             o     == Snapshot(table, Len(table))
             f     == [frame[t] EXCEPT !.pc = "want.prompt", !.obj = o]
  <2>1. Outcome(t, table, f)
    <3>1. CASE Statement(t, table, f)
      BY <1>1, <3>1, StatementOutcome
    <3>2. CASE registrations' = table /\ Throw(t, CatchesDatabase)
      <4>1. /\ frame'[t] = NoFrame
            /\ \A u \in Tasks \ {t} : frame'[u] \in {frame[u], NoFrame}
        BY <1>1, <3>2, ResumedFrame, ThrownFrame
        DEF Throw, Finish, Terminate
      <4> QED
        BY <3>2, <4>1 DEF Outcome
    <3> QED
      BY <1>4, <3>1, <3>2 DEF WantSave
  <2>2. Inside(table, frame[t].chat)
    <3>1. frame[t].chat \in Chats
      BY FormInvFacts
    <3>2. PICK c, new : c = frame[t].chat /\ new = table
      OBVIOUS
    <3>3. /\ registrations \in Seq(Row) /\ c \in Chats
          /\ new = Inserted(registrations, c)
      BY <1>1, <3>1, <3>2
    <3> HIDE DEF table
    <3>4. \A d : d # c => Untouched(registrations, new, d)
      BY <3>3, InsertLeavesOthers
    <3> QED
      BY <3>2, <3>4 DEF Inside
  <2>3. o.id = Len(table) /\ o = Snapshot(table, Len(table))
    BY DEF Snapshot
  <2> HIDE DEF o
  <2>4. f.pc = "want.prompt" /\ f.obj = o /\ f.chat = frame[t].chat
    BY <1>1 DEF Frame
  <2> HIDE DEF f, table
  <2>5. FreshOK(table, f)
    BY <2>3, <2>4 DEF FreshOK
  <2> QED
    BY <1>2, <2>1, <2>2, <2>4, <2>5, FreshStep
<1>5. CASE WantPrompt(t)
  <2> DEFINE m == Len(messages[frame[t].chat]) + 1
             f == [frame[t] EXCEPT !.pc = "want.update",
                                   !.obj = SetMessageId(@, m)]
  <2>1. PICK accepted, log : Api(t, accepted, log, f)
    BY <1>5 DEF WantPrompt, Send
  <2>2. f.chat = frame[t].chat /\ FreshOK(registrations, f)
    BY <1>1, <1>5, NextMessageId, FreshId DEF WantPrompt, At
  <2> HIDE DEF f
  <2> QED
    BY <1>1, <1>2, <2>1, <2>2, ApiOutcome, FreshRead
<1>6. CASE WantUpdate(t)
  <2>1. NoFrame.pc = "idle"
    BY DEF NoFrame
  <2> QED
    BY <1>6, <2>1, NoFrameFresh, FreshWritten DEF WantUpdate, At, Writing
<1> QED
  BY <1>3, <1>4, <1>5, <1>6 DEF AnswerWantParticipateQuery

(* The question that comes after an answer is due. *)
LEMMA AnswerMakesDue ==
  ASSUME NEW row \in Row, NEW o \in Object, NEW f,
         Change(f, o, row), f.pc = "save.update"
  PROVE  Due(o.row, NextState(f.step))
<1>1. /\ f.step \in Waiting /\ f.text \in Texts /\ row.state = f.step
      /\ o.row.state = IF row.state = WaitingPhrase THEN Completed
                       ELSE row.state
      /\ o.row.answers = [row.answers EXCEPT ![FieldOf(row.state)] = f.text]
  BY DEF Change
<1>2. f.text # NoText /\ FieldOf(row.state) \in Fields
  BY <1>1, TextAssumption, FieldOfType
<1>3. row.answers \in [Fields -> Texts \cup {NoText}]
  BY RowFields DEF Answers
<1>4. o.row.answers[FieldOf(row.state)] # NoText
  BY <1>1, <1>2, <1>3
<1>5. NextState(WaitingPhrase) = Completed
  BY DEF NextState, WaitingPhrase, WaitingName, WaitingCompanyName,
         WaitingCompanyPosition
<1> QED
  BY <1>1, <1>4, <1>5 DEF Due

(* What is due after the UPDATE is what is asked next. *)
LEMMA FreshDue ==
  ASSUME FormInv, NEW t \in Tasks, frame[t].pc \in Writing,
         NEW o, o = frame[t].obj, NEW f, f.pc = "form.find",
         f.chat = frame[t].chat, Due(o.row, f.step)
  PROVE  FreshOK(Updated(registrations, o), f)
<1>1. PICK new : new = Updated(registrations, o)
  OBVIOUS
<1>2. o.id \in DOMAIN registrations /\ registrations[o.id].chat_id = f.chat
  BY WritingAgrees
<1>3. new[o.id] = o.row /\ \A c : RowsOf(new, c) = RowsOf(registrations, c)
  BY <1>1, WritesInside
<1>4. o.id \in RowsOf(new, f.chat)
  BY <1>2, <1>3 DEF RowsOf
<1>5. \A i \in RowsOf(new, f.chat) :
        RowsOf(new, f.chat) = {i} => Due(new[i], f.step)
  BY <1>3, <1>4
<1> QED
  BY <1>1, <1>5 DEF FreshOK

(* An answer. *)
LEMMA MessageFresh ==
  ASSUME FormInv, NEW t \in Tasks, ProcessMessage(t)
  PROVE  Fresh'
<1>1. /\ IInv /\ frame[t] \in Frame
      /\ FrameOK(registrations, frame[t])
      /\ FreshOK(registrations, frame[t])
  BY FormInvFacts
<1>2. frame[t].pc # "idle"
  BY DEF ProcessMessage, MessageFind, SaveFind, SaveUpdate, SaveThanks, At
<1> DEFINE o == Snapshot(registrations, TheRow(registrations, frame[t].chat))
<1>3. /\ Statement(t, registrations, NoFrame) => Fresh'
      /\ \A log, accepted : Api(t, accepted, log, NoFrame) => Fresh'
  BY <1>1, <1>2, StatementOutcome, ApiOutcome, FreshEnd
<1>4. CASE MessageFind(t) /\ Found(registrations, frame[t].chat)
  <2> DEFINE f == [frame[t] EXCEPT !.pc = "save.find", !.step = o.row.state]
  <2>1. Statement(t, registrations, IF o.row.state = Completed
                                      THEN NoFrame ELSE f)
    BY <1>4 DEF MessageFind, FindByChatId
  <2>2. o.row.state \in States
    BY <1>4, FoundFresh
  <2> HIDE DEF o
  <2>3. /\ f.pc = "save.find" /\ f.step = o.row.state
        /\ f.chat = frame[t].chat
    BY <1>1 DEF Frame
  <2> HIDE DEF f
  <2>4. CASE o.row.state # Completed
    <3>1. FreshOK(registrations, f)
      BY <2>2, <2>3, <2>4 DEF FreshOK, States
    <3> QED
      BY <1>2, <2>1, <2>3, <2>4, <3>1, FindOutcome, FreshRead
  <2> QED
    BY <1>3, <2>1, <2>4
<1>5. CASE SaveFind(t) /\ Found(registrations, frame[t].chat)
  <2> DEFINE new == SavedAnswer(o, frame[t].step, frame[t].text)
             f   == [frame[t] EXCEPT !.pc = "save.update", !.obj = new]
  <2>1. Statement(t, registrations, IF o.row.state # frame[t].step
                                      THEN NoFrame ELSE f)
    BY <1>5 DEF SaveFind, FindByChatId
  <2>2. /\ o \in Object /\ o.id \in DOMAIN registrations
        /\ o = Snapshot(registrations, o.id)
        /\ Agrees(registrations, o)
        /\ o.row = registrations[o.id]
    BY <1>5, FoundFresh
  <2> HIDE DEF o
  <2>3. frame[t].step \in Waiting /\ frame[t].text \in Texts
    BY <1>1, <1>5 DEF SaveFind, At, FreshOK, FrameOK
  <2>4. new = SavedAnswer(o, frame[t].step, frame[t].text)
    OBVIOUS
  <2> HIDE DEF new
  <2>5. new.id = o.id
    BY <2>2, <2>4 DEF SavedAnswer, SetState, SetAnswer, Object
  <2>6. /\ f.pc = "save.update" /\ f.step = frame[t].step
        /\ f.text = frame[t].text /\ f.obj = new /\ f.chat = frame[t].chat
    BY <1>1 DEF Frame
  <2> HIDE DEF f
  <2>7. CASE o.row.state = frame[t].step
    <3>1. FreshOK(registrations, f)
      BY <2>2, <2>3, <2>4, <2>5, <2>6, <2>7 DEF FreshOK
    <3> QED
      BY <1>2, <2>1, <2>6, <2>7, <3>1, FindOutcome, FreshRead
  <2> QED
    BY <1>3, <2>1, <2>7
<1>6. CASE SaveUpdate(t)
  <2> DEFINE f == [frame[t] EXCEPT !.pc = "form.find", !.step = NextState(@),
                                   !.text = NoText, !.obj = NoObject]
  <2>1. Update(t, f) /\ frame[t].pc = "save.update"
    BY <1>6 DEF SaveUpdate, At
  <2>2. /\ f.pc = "form.find" /\ f.step = NextState(frame[t].step)
        /\ f.chat = frame[t].chat
    BY <1>1 DEF Frame
  <2> HIDE DEF f
  <2>3. frame[t].pc \in Writing
    BY <2>1 DEF Writing
  <2>4. PICK ob, row : ob = frame[t].obj /\ row = registrations[ob.id]
    OBVIOUS
  <2>5. ob \in Object /\ row \in Row /\ Change(frame[t], ob, row)
    BY <2>3, <2>4, FreshWriting
  <2>6. Due(ob.row, f.step)
    BY <2>1, <2>2, <2>5, AnswerMakesDue
  <2>7. FreshOK(Updated(registrations, ob), f)
    BY <2>2, <2>3, <2>4, <2>6, FreshDue
  <2> QED
    BY <2>1, <2>2, <2>3, <2>4, <2>7, FreshWritten
<1>7. CASE SaveThanks(t)
  BY <1>3, <1>7 DEF SaveThanks, Send
<1>8. CASE /\ MessageFind(t) \/ SaveFind(t)
           /\ ~Found(registrations, frame[t].chat)
  BY <1>3, <1>8 DEF MessageFind, SaveFind, FindByChatId
<1> QED
  BY <1>4, <1>5, <1>6, <1>7, <1>8 DEF ProcessMessage

(* A step back. *)
LEMMA BackFresh ==
  ASSUME FormInv, NEW t \in Tasks, ReplyBackQuery(t)
  PROVE  Fresh'
<1>1. /\ IInv /\ frame[t] \in Frame /\ registrations \in Seq(Row)
      /\ ObjectOK(registrations, frame[t])
      /\ FreshOK(registrations, frame[t])
      /\ frame[t].obj \in Object
  BY FormInvFacts
<1>2. frame[t].pc # "idle"
  BY DEF ReplyBackQuery, BackFind, BackRefuse, BackAnswer, BackUpdate, At
<1>3. CASE BackFind(t)
  <2> DEFINE o  == Snapshot(registrations,
                            TheRow(registrations, frame[t].chat))
             f1 == [frame[t] EXCEPT !.pc = "back.outdated"]
             f2 == [frame[t] EXCEPT !.pc = "back.answer", !.obj = o]
             f3 == [frame[t] EXCEPT !.pc = "back.unknown"]
  <2>1. \/ Statement(t, registrations, f1)
        \/ Statement(t, registrations, f3)
        \/ /\ Found(registrations, frame[t].chat)
           /\ Statement(t, registrations, f2)
    BY <1>3 DEF BackFind, FindByChatId
  <2>2. Found(registrations, frame[t].chat) => o = Snapshot(registrations, o.id)
    BY FoundFresh
  <2> HIDE DEF o
  <2>3. /\ f1.pc = "back.outdated" /\ f1.chat = frame[t].chat
        /\ f3.pc = "back.unknown" /\ f3.chat = frame[t].chat
        /\ f2.pc = "back.answer" /\ f2.chat = frame[t].chat /\ f2.obj = o
    BY <1>1 DEF Frame
  <2>4. {"back.outdated", "back.unknown"} \subseteq Plain
    BY DEF Plain, Awaits, BackAwaits, Holding
  <2> HIDE DEF f1, f2, f3
  <2>5. CASE Statement(t, registrations, f1) \/ Statement(t, registrations, f3)
    BY <1>2, <2>3, <2>4, <2>5, FindOutcome, FreshMove
  <2>6. CASE /\ Found(registrations, frame[t].chat)
             /\ Statement(t, registrations, f2)
    <3>1. FreshOK(registrations, f2)
      BY <2>2, <2>3, <2>6 DEF FreshOK
    <3> QED
      BY <1>2, <2>3, <2>6, <3>1, FindOutcome, FreshRead
  <2> QED
    BY <2>1, <2>5, <2>6
<1>4. CASE BackRefuse(t)
  BY <1>1, <1>2, <1>4, ApiOutcome, FreshEnd DEF BackRefuse, Request
<1>5. CASE BackAnswer(t)
  <2> DEFINE o   == frame[t].obj
             s   == PrevState(o.row.state)
             new == SteppedBack(o)
             f   == [frame[t] EXCEPT !.pc = "back.update", !.step = s,
                                     !.obj = new]
  <2>1. o = Snapshot(registrations, o.id) /\ o.id \in DOMAIN registrations
    BY <1>1, <1>5 DEF BackAnswer, At, FreshOK, ObjectOK, Holding
  <2>2. Request(t, IF CanGoBack(o.row.state) THEN f ELSE NoFrame)
    BY <1>5 DEF BackAnswer
  <2>3. o \in Object
    BY <1>1
  <2> HIDE DEF o
  <2>4. Agrees(registrations, o) /\ o.row = registrations[o.id]
    BY <1>1, <2>1, SnapshotAgrees
  <2>5. CASE CanGoBack(o.row.state)
    <3>1. new.id = o.id
      <4>1. StepTakenBack(registrations, o, new)
        BY <1>1, <2>1, <2>3, <2>4, <2>5, SteppedBackAgrees
      <4> QED
        BY <4>1 DEF StepTakenBack
    <3>2. new = SteppedBack(o) /\ s = PrevState(o.row.state)
      OBVIOUS
    <3> HIDE DEF new, s
    <3>3. /\ f.pc = "back.update" /\ f.step = s /\ f.obj = new
          /\ f.chat = frame[t].chat
      BY <1>1 DEF Frame
    <3>4. Request(t, f)
      BY <2>2, <2>5
    <3> HIDE DEF f
    <3>5. FreshOK(registrations, f)
      BY <2>1, <2>4, <2>5, <3>1, <3>2, <3>3 DEF FreshOK
    <3> QED
      BY <1>1, <1>2, <3>3, <3>4, <3>5, ApiOutcome, FreshRead DEF Request
  <2>6. CASE ~CanGoBack(o.row.state)
    <3>1. Request(t, NoFrame)
      BY <2>2, <2>6
    <3> QED
      BY <1>1, <1>2, <3>1, ApiOutcome, FreshEnd DEF Request
  <2> QED
    BY <2>5, <2>6
<1>6. CASE BackUpdate(t)
  <2> DEFINE f == [frame[t] EXCEPT !.pc = "form.find", !.obj = NoObject]
  <2>1. Update(t, f) /\ frame[t].pc = "back.update"
    BY <1>6 DEF BackUpdate, At
  <2>2. /\ f.pc = "form.find" /\ f.step = frame[t].step
        /\ f.chat = frame[t].chat
    BY <1>1 DEF Frame
  <2> HIDE DEF f
  <2>3. frame[t].pc \in Writing
    BY <2>1 DEF Writing
  <2>4. PICK ob, row : ob = frame[t].obj /\ row = registrations[ob.id]
    OBVIOUS
  <2>5. Change(frame[t], ob, row)
    BY <2>3, <2>4, FreshWriting
  <2>6. Due(ob.row, f.step)
    BY <2>1, <2>2, <2>5 DEF Change, Due
  <2>7. FreshOK(Updated(registrations, ob), f)
    BY <2>2, <2>3, <2>4, <2>6, FreshDue
  <2> QED
    BY <2>1, <2>2, <2>3, <2>4, <2>7, FreshWritten
<1> QED
  BY <1>3, <1>4, <1>5, <1>6 DEF ReplyBackQuery

(* showFormPrompt. *)
LEMMA FormFresh ==
  ASSUME FormInv, NEW t \in Tasks, ShowFormPrompt(t)
  PROVE  Fresh'
<1>1. /\ IInv /\ frame[t] \in Frame /\ registrations \in Seq(Row)
      /\ frame[t].step \in States /\ frame[t].obj \in Object
      /\ FreshOK(registrations, frame[t])
  BY FormInvFacts
<1>2. frame[t].pc # "idle"
  BY DEF ShowFormPrompt, FormFind, FormUpdate, FormEdit, FormPrompt, At
<1>3. Outcome(t, registrations, AfterForm(t)) => Fresh'
  <2> DEFINE f == [frame[t] EXCEPT !.pc = "save.thanks", !.obj = NoObject]
  <2>1. f.pc = "save.thanks" /\ f.chat = frame[t].chat
    BY <1>1 DEF Frame
  <2>2. "save.thanks" \in Plain
    BY DEF Plain, Awaits, MessageAwaits, Holding
  <2>3. AfterForm(t) \in {f, NoFrame}
    BY DEF AfterForm
  <2> HIDE DEF f
  <2> QED
    BY <1>2, <2>1, <2>2, <2>3, FreshMove, FreshEnd
<1>4. CASE FormFind(t) /\ Found(registrations, frame[t].chat)
  <2> DEFINE o   == Snapshot(registrations,
                             TheRow(registrations, frame[t].chat))
             new == SetState(o, frame[t].step)
             f   == [frame[t] EXCEPT !.pc = "form.update", !.obj = new]
  <2>1. Statement(t, registrations, f) /\ frame[t].pc = "form.find"
    BY <1>4 DEF FormFind, FindByChatId, At
  <2>2. /\ o \in Object /\ o.id \in DOMAIN registrations
        /\ o = Snapshot(registrations, o.id)
        /\ RowsOf(registrations, frame[t].chat) = {o.id}
    BY <1>4, FoundFresh
  <2> HIDE DEF o
  <2>3. Due(registrations[o.id], frame[t].step)
    BY <1>1, <2>1, <2>2 DEF FreshOK
  <2>4. new = SetState(o, frame[t].step) /\ new.id = o.id
    BY <1>1, <2>2, SetStateType
  <2> HIDE DEF new
  <2>5. /\ f.pc = "form.update" /\ f.step = frame[t].step
        /\ f.obj = new /\ f.chat = frame[t].chat
    BY <1>1 DEF Frame
  <2> HIDE DEF f
  <2>6. FreshOK(registrations, f)
    BY <2>2, <2>3, <2>4, <2>5 DEF FreshOK
  <2> QED
    BY <1>2, <2>1, <2>5, <2>6, FindOutcome, FreshRead
<1>5. CASE FormFind(t) /\ ~Found(registrations, frame[t].chat)
  <2>1. Statement(t, registrations, AfterForm(t))
    BY <1>5 DEF FormFind, FindByChatId
  <2> QED
    BY <1>3, <2>1, FindOutcome
<1>6. CASE FormUpdate(t)
  <2> DEFINE f == [frame[t] EXCEPT !.pc = "form.edit"]
  <2>1. Update(t, f) /\ frame[t].pc = "form.update"
    BY <1>6 DEF FormUpdate, At
  <2>2. /\ f.pc = "form.edit" /\ f.step = frame[t].step
        /\ f.obj = frame[t].obj /\ f.chat = frame[t].chat
    BY <1>1 DEF Frame
  <2> HIDE DEF f
  <2>3. frame[t].pc \in Writing
    BY <2>1 DEF Writing
  <2>4. PICK ob, row : ob = frame[t].obj /\ row = registrations[ob.id]
    OBVIOUS
  <2>5. PICK new : new = Updated(registrations, ob)
    OBVIOUS
  <2>6. Change(frame[t], ob, row) /\ new[ob.id] = ob.row
    BY <2>3, <2>4, <2>5, FreshWriting, WritesInside
  <2>7. ob.row.state = f.step
    BY <2>1, <2>2, <2>6 DEF Change
  <2>8. FreshOK(new, f)
    BY <2>2, <2>4, <2>6, <2>7 DEF FreshOK
  <2> QED
    BY <2>1, <2>2, <2>3, <2>4, <2>5, <2>8, FreshWritten
<1>7. CASE FormEdit(t)
  <2> DEFINE f == [frame[t] EXCEPT !.pc = "form.prompt", !.obj = NoObject]
  <2>1. \E accepted, log : Api(t, accepted, log, f)
    BY <1>7 DEF FormEdit, Edit
  <2>2. f.pc = "form.prompt" /\ f.chat = frame[t].chat
    BY <1>1 DEF Frame
  <2>3. "form.prompt" \in Plain
    BY DEF Plain, Awaits, FormAwaits, Holding
  <2> HIDE DEF f
  <2> QED
    BY <1>1, <1>2, <2>1, <2>2, <2>3, ApiOutcome, FreshMove
<1>8. CASE FormPrompt(t)
  BY <1>1, <1>3, <1>8, ApiOutcome DEF FormPrompt, Send
<1> QED
  BY <1>4, <1>5, <1>6, <1>7, <1>8 DEF ShowFormPrompt

(* resumeRegistration. *)
LEMMA ResumptionFresh ==
  ASSUME FormInv, NEW t \in Tasks, ResumeRegistration(t)
  PROVE  Fresh'
<1>1. /\ IInv /\ frame[t] \in Frame /\ FreshOK(registrations, frame[t])
  BY FormInvFacts
<1>2. frame[t].pc # "idle"
  BY DEF ResumeRegistration, ResumeThanks, ResumeClear, ResumeForm,
         ResumeUpdate, ResumePrompt, At
<1>3. CASE ResumeThanks(t) \/ ResumePrompt(t)
  BY <1>1, <1>2, <1>3, ApiOutcome, FreshEnd
  DEF ResumeThanks, ResumePrompt, Send
<1>4. CASE ResumeClear(t)
  <2> DEFINE f == [frame[t] EXCEPT !.pc = "resume.form"]
  <2>1. Outcome(t, registrations, f) /\ frame[t].pc = "resume.clear"
    BY <1>1, <1>4, ResumedFrame DEF ResumeClear, Goto, At, Outcome
  <2>2. f.pc = "resume.form" /\ f.obj = frame[t].obj /\ f.chat = frame[t].chat
    BY <1>1 DEF Frame
  <2> HIDE DEF f
  <2>3. FreshOK(registrations, f)
    BY <1>1, <2>1, <2>2 DEF FreshOK
  <2> QED
    BY <1>2, <2>1, <2>2, <2>3, FreshRead
<1>5. CASE ResumeForm(t)
  <2> DEFINE m == Len(messages[frame[t].chat]) + 1
             f == [frame[t] EXCEPT !.pc = "resume.update",
                                   !.obj = SetMessageId(@, m)]
  <2>1. PICK accepted, log : Api(t, accepted, log, f)
    BY <1>1, <1>5 DEF ResumeForm, Send, Frame
  <2>2. f.chat = frame[t].chat /\ FreshOK(registrations, f)
    BY <1>1, <1>5, NextMessageId, FreshId DEF ResumeForm, At
  <2> HIDE DEF f
  <2> QED
    BY <1>1, <1>2, <2>1, <2>2, ApiOutcome, FreshRead
<1>6. CASE ResumeUpdate(t)
  <2> DEFINE f == [frame[t] EXCEPT !.pc = "resume.prompt"]
  <2>1. Update(t, f) /\ frame[t].pc = "resume.update"
    BY <1>6 DEF ResumeUpdate, At
  <2>2. f.pc = "resume.prompt" /\ f.obj = frame[t].obj /\ f.chat = frame[t].chat
    BY <1>1 DEF Frame
  <2> HIDE DEF f
  <2>3. frame[t].pc \in Writing
    BY <2>1 DEF Writing
  <2>4. PICK ob : ob = frame[t].obj
    OBVIOUS
  <2>5. PICK new : new = Updated(registrations, ob)
    OBVIOUS
  <2>6. new[ob.id] = ob.row
    BY <2>3, <2>4, <2>5, WritesInside
  <2>7. FreshOK(new, f)
    BY <2>2, <2>4, <2>6 DEF FreshOK
  <2> QED
    BY <2>1, <2>2, <2>3, <2>4, <2>5, <2>7, FreshWritten
<1> QED
  BY <1>3, <1>4, <1>5, <1>6 DEF ResumeRegistration

(* A patient user's update finds the chat without a coroutine at work. *)
LEMMA DeliveredFresh ==
  ASSUME Patient, FormInv, NEW t \in Tasks, NewUpdate(t)
  PROVE  Fresh'
<1>1. /\ IInv /\ OnePerChat
      /\ \A u \in Tasks : FreshOK(registrations, frame[u])
  BY DEF FormInv, WInv
<1>2. PICK c \in Chats :
        \/ OnStart(t, c)
        \/ \E x \in Texts : OnMessage(t, c, x)
        \/ \E m \in DOMAIN messages[c] : OnCallbackQuery(t, c, m)
  BY DEF NewUpdate
<1>3. PICK f : Deliver(t, c, f) /\ f.chat = c /\ f.pc \in Plain
  <2>1. {"start.find", "message.find", "check.member", "want.answer",
         "back.find"} \subseteq Plain
    BY DEF Plain, Awaits, StartAwaits, MessageAwaits, CheckAwaits,
           WantAwaits, BackAwaits, Holding
  <2>2. ASSUME NEW pc, NEW x, NEW m
        PROVE  /\ Handler(pc, c).pc = pc /\ Handler(pc, c).chat = c
               /\ [Handler(pc, c) EXCEPT !.text = x].pc = pc
               /\ [Handler(pc, c) EXCEPT !.text = x].chat = c
               /\ [Handler(pc, c) EXCEPT !.click = m].pc = pc
               /\ [Handler(pc, c) EXCEPT !.click = m].chat = c
    BY NoFrameOK DEF Handler, Frame
  <2>3. CASE OnStart(t, c)
    BY <2>1, <2>2, <2>3 DEF OnStart
  <2>4. ASSUME NEW x \in Texts, OnMessage(t, c, x)
        PROVE  \E g : Deliver(t, c, g) /\ g.chat = c /\ g.pc \in Plain
    <3>1. PICK g : g = [Handler("message.find", c) EXCEPT !.text = x]
      OBVIOUS
    <3>2. g.pc = "message.find" /\ g.chat = c
      BY <2>2, <3>1
    <3>3. Deliver(t, c, g)
      BY <2>4, <3>1 DEF OnMessage
    <3> QED
      BY <2>1, <3>2, <3>3
  <2>5. ASSUME NEW m \in DOMAIN messages[c], OnCallbackQuery(t, c, m)
        PROVE  \E g : Deliver(t, c, g) /\ g.chat = c /\ g.pc \in Plain
    <3>1. PICK button : button = messages[c][m].keyboard
      OBVIOUS
    <3>2. button \in Keyboards
      <4>1. messages[c] \in Seq(Message)
        BY <1>1, IInvFacts
      <4>2. messages[c][m] \in Message
        BY <2>5, <4>1
      <4> QED
        BY <3>1, <4>2 DEF Message
    <3>3. /\ button # "none"
          /\ Deliver(t, c, [Handler(FirstAwait[button], c)
                              EXCEPT !.click = m])
      BY <2>5, <3>1 DEF OnCallbackQuery
    <3>4. FirstAwait[button] \in Plain
      BY <2>1, <3>2, <3>3 DEF FirstAwait, Keyboards
    <3> QED
      BY <2>2, <3>3, <3>4
  <2> QED
    BY <1>2, <2>3, <2>4, <2>5
<1>4. /\ UNCHANGED registrations
      /\ \A u \in Tasks : frame'[u] = IF u = t THEN f ELSE frame[u]
      /\ Active(c) = {}
  BY <1>1, <1>3, ResumedFrame DEF Deliver, Spawn
<1>5. \A u \in Tasks : frame[u].pc # "idle" => frame[u].chat # c
  BY <1>4 DEF Active
<1>6. OnePerChat'
  BY <1>1, <1>3, <1>4, <1>5 DEF OnePerChat
<1>7. \A u \in Tasks : FreshOK(registrations', frame'[u])
  BY <1>1, <1>3, <1>4, PlainFresh
<1> QED
  BY <1>6, <1>7 DEF Fresh

(* The invariant holds initially. *)
LEMMA FormInvInit == BotInit => FormInv
<1> SUFFICES ASSUME BotInit PROVE FormInv
  OBVIOUS
<1>1. WInv
  BY WInvInit
<1>2. \A t \in Tasks : frame[t] = NoFrame
  BY DEF BotInit, Init
<1>3. NoFrame.pc = "idle"
  BY DEF NoFrame
<1> QED
  BY <1>1, <1>2, <1>3, NoFrameFresh DEF FormInv, OnePerChat

(* Every step of a bot with patient users keeps it, failures and crashes   *)
(* included.                                                               *)
LEMMA FormInvStep == Patient /\ FormInv /\ [Next]_allVars => FormInv'
<1> SUFFICES ASSUME Patient, FormInv, [Next]_allVars PROVE FormInv'
  OBVIOUS
<1>1. WInv'
  BY WInvStep DEF FormInv
<1>2. ASSUME NEW t \in Tasks, Step(t) PROVE Fresh'
  BY <1>2, StartFresh, ResumptionFresh, CheckFresh, WantFresh, MessageFresh,
     BackFresh, FormFresh DEF Step
<1>3. ASSUME Crash \/ Restart PROVE Fresh'
  <2>1. /\ UNCHANGED registrations
        /\ \A t \in Tasks : frame'[t] \in {frame[t], NoFrame}
    BY <1>3 DEF Crash, Restart, Terminate
  <2>2. NoFrame.pc = "idle"
    BY DEF NoFrame
  <2>3. OnePerChat'
    BY <2>1, <2>2 DEF FormInv, OnePerChat
  <2>4. \A t \in Tasks : FreshOK(registrations', frame'[t])
    BY <2>1, NoFrameFresh DEF FormInv
  <2> QED
    BY <2>3, <2>4 DEF Fresh
<1>4. ASSUME UNCHANGED allVars PROVE Fresh'
  <2>1. OnePerChat'
    BY <1>4 DEF allVars, FormInv, OnePerChat
  <2>2. \A t \in Tasks : FreshOK(registrations', frame'[t])
    BY <1>4 DEF allVars, FormInv
  <2> QED
    BY <2>1, <2>2 DEF Fresh
<1>5. Fresh'
  BY <1>2, <1>3, <1>4, DeliveredFresh DEF Next
<1> QED
  BY <1>1, <1>5 DEF FormInv, Fresh

(* A patient user's chat has one coroutine at work, and what it holds is   *)
(* the row as it is with the change it is about to write, through failures *)
(* of the network, of the database and of the process.                     *)
THEOREM PatientSnapshotsAreFresh == Patient => (Spec => []FormInv)
<1> SUFFICES ASSUME Patient PROVE Spec => []FormInv
  OBVIOUS
<1>1. FormInv /\ [Next]_allVars => FormInv'
  BY FormInvStep
<1> QED
  BY <1>1, FormInvInit, PTL DEF Spec

-----------------------------------------------------------------------------
(* The registrations as forms. *)

(* The form that RegForm sees in each row. *)
Forms ==
  [i \in DOMAIN registrations |->
     [state   |-> registrations[i].state,
      answers |-> registrations[i].answers]]

(* The steps of RegistrationForm are those of the bot. *)
LEMMA SameSteps ==
  /\ RegForm!WaitingName = WaitingName
  /\ RegForm!WaitingPhrase = WaitingPhrase
  /\ RegForm!Completed = Completed
  /\ RegForm!Waiting = Waiting
  /\ RegForm!States = States
  /\ RegForm!Blank = Blank
  /\ \A s : /\ RegForm!FieldOf(s) = FieldOf(s)
            /\ RegForm!NextState(s) = NextState(s)
            /\ RegForm!PrevState(s) = PrevState(s)
            /\ RegForm!CanGoBack(s) <=> CanGoBack(s)
<1>1. /\ RegForm!WaitingName = WaitingName
      /\ RegForm!WaitingCompanyName = WaitingCompanyName
      /\ RegForm!WaitingCompanyPosition = WaitingCompanyPosition
      /\ RegForm!WaitingPhrase = WaitingPhrase
      /\ RegForm!Completed = Completed
  BY DEF RegForm!WaitingName, RegForm!WaitingCompanyName,
         RegForm!WaitingCompanyPosition, RegForm!WaitingPhrase,
         RegForm!Completed, WaitingName, WaitingCompanyName,
         WaitingCompanyPosition, WaitingPhrase, Completed
<1>2. RegForm!Waiting = Waiting
  BY <1>1 DEF RegForm!Waiting, Waiting
<1>3. RegForm!States = States
  BY <1>1, <1>2 DEF RegForm!States, States
<1>4. RegForm!Blank = Blank
  BY DEF RegForm!Blank, RegForm!Fields, Blank, Fields
<1>5. \A s : /\ RegForm!FieldOf(s) = FieldOf(s)
             /\ RegForm!NextState(s) = NextState(s)
             /\ RegForm!PrevState(s) = PrevState(s)
             /\ RegForm!CanGoBack(s) <=> CanGoBack(s)
  BY <1>1 DEF RegForm!FieldOf, RegForm!NextState, RegForm!PrevState,
              RegForm!CanGoBack, FieldOf, NextState, PrevState, CanGoBack
<1> QED
  BY <1>1, <1>2, <1>3, <1>4, <1>5

(* A row that is written is one form that changes. *)
LEMMA WrittenForms ==
  ASSUME NEW i \in DOMAIN registrations, NEW row,
         registrations' = [registrations EXCEPT ![i] = row]
  PROVE  /\ i \in DOMAIN Forms
         /\ Forms[i].state = registrations[i].state
         /\ Forms[i].answers = registrations[i].answers
         /\ Forms' = [Forms EXCEPT ![i] = [state   |-> row.state,
                                           answers |-> row.answers]]
BY DEF Forms

(* Form i turns to state s with the given answers. *)
Turns(i, s, answers) ==
  Forms' = [Forms EXCEPT ![i] = [state |-> s, answers |-> answers]]

(* The operations of RegForm on the form of row i. *)
LEMMA FormsOfRegForm ==
  ASSUME NEW i \in DOMAIN Forms,
         NEW s, s = Forms[i].state, NEW answers, answers = Forms[i].answers,
         NEW s1, NEW answers1, Turns(i, s1, answers1)
  PROVE  /\ \A x \in Texts :
              /\ s \in Waiting \ {WaitingPhrase} /\ s1 = s
              /\ answers1 = [answers EXCEPT ![FieldOf(s)] = x]
              => RegForm!Next
         /\ \A x \in Texts :
              /\ s = WaitingPhrase /\ s1 = Completed
              /\ answers1 = [answers EXCEPT ![FieldOf(WaitingPhrase)] = x]
              => RegForm!Next
         /\ /\ CanGoBack(s) /\ s1 = PrevState(s)
            /\ answers1 = [answers EXCEPT ![FieldOf(s1)] = NoText]
            => RegForm!Next
         /\ /\ s \in Waiting \ {WaitingPhrase} /\ s1 = NextState(s)
            /\ answers[FieldOf(s)] # NoText /\ answers1 = answers
            => RegForm!Next
<1>1. RegForm!Next <=>
       \/ RegForm!Open
       \/ \E j \in DOMAIN Forms :
            \/ RegForm!Advance(j) \/ RegForm!GoBack(j)
            \/ \E x \in Texts : RegForm!Answer(j, x) \/ RegForm!Complete(j, x)
  BY DEF RegForm!Next, Forms
<1>2. \A x :
        RegForm!Answer(i, x) <=>
          /\ Forms[i].state \in RegForm!Waiting \ {RegForm!WaitingPhrase}
          /\ Forms' = [Forms EXCEPT ![i] =
               [state   |-> Forms[i].state,
                answers |-> [Forms[i].answers EXCEPT
                               ![RegForm!FieldOf(Forms[i].state)] = x]]]
  BY DEF RegForm!Answer, RegForm!Become, RegForm!With, Forms
<1>3. \A x :
        RegForm!Complete(i, x) <=>
          /\ Forms[i].state = RegForm!WaitingPhrase
          /\ Forms' = [Forms EXCEPT ![i] =
               [state   |-> RegForm!Completed,
                answers |-> [Forms[i].answers EXCEPT
                               ![RegForm!FieldOf(RegForm!WaitingPhrase)] = x]]]
  BY DEF RegForm!Complete, RegForm!Become, RegForm!With, Forms
<1>4. RegForm!GoBack(i) <=>
        /\ RegForm!CanGoBack(Forms[i].state)
        /\ Forms' = [Forms EXCEPT ![i] =
             [state   |-> RegForm!PrevState(Forms[i].state),
              answers |-> [Forms[i].answers EXCEPT
                ![RegForm!FieldOf(RegForm!PrevState(Forms[i].state))] = NoText]]]
  BY DEF RegForm!GoBack, RegForm!Become, RegForm!With, Forms
<1>5. RegForm!Advance(i) <=>
        /\ Forms[i].state \in RegForm!Waiting \ {RegForm!WaitingPhrase}
        /\ Forms[i].answers[RegForm!FieldOf(Forms[i].state)] # NoText
        /\ Forms' = [Forms EXCEPT ![i] =
             [state   |-> RegForm!NextState(Forms[i].state),
              answers |-> Forms[i].answers]]
  BY DEF RegForm!Advance, RegForm!Become, Forms
<1>6. ASSUME NEW x \in Texts, s \in Waiting \ {WaitingPhrase}, s1 = s,
             answers1 = [answers EXCEPT ![FieldOf(s)] = x]
      PROVE  RegForm!Answer(i, x)
  BY <1>2, <1>6, SameSteps DEF Turns
<1>7. ASSUME NEW x \in Texts, s = WaitingPhrase, s1 = Completed,
             answers1 = [answers EXCEPT ![FieldOf(WaitingPhrase)] = x]
      PROVE  RegForm!Complete(i, x)
  BY <1>3, <1>7, SameSteps DEF Turns
<1>8. ASSUME CanGoBack(s), s1 = PrevState(s),
             answers1 = [answers EXCEPT ![FieldOf(s1)] = NoText]
      PROVE  RegForm!GoBack(i)
  BY <1>4, <1>8, SameSteps DEF Turns
<1>9. ASSUME s \in Waiting \ {WaitingPhrase}, s1 = NextState(s),
             answers[FieldOf(s)] # NoText, answers1 = answers
      PROVE  RegForm!Advance(i)
  BY <1>5, <1>9, SameSteps DEF Turns
<1> QED
  BY <1>1, <1>6, <1>7, <1>8, <1>9

(* The forms of a table, and what INSERT adds to them. *)
FormsOf(table) ==
  [i \in DOMAIN table |-> [state   |-> table[i].state,
                           answers |-> table[i].answers]]

(* INSERT appends a blank form. *)
LEMMA InsertedForms ==
  ASSUME NEW table \in Seq(Row), NEW c \in Chats,
         NEW new, new = Inserted(table, c)
  PROVE  FormsOf(new) = Append(FormsOf(table), [state   |-> WaitingName,
                                                answers |-> Blank])
<1> DEFINE Form1 == [state : States, answers : Answers]
           blank == [state |-> WaitingName, answers |-> Blank]
           old   == FormsOf(table)
           next  == FormsOf(new)
<1>1. /\ new \in Seq(Row) /\ Len(new) = Len(table) + 1
      /\ \A i \in DOMAIN table : new[i] = table[i]
      /\ new[Len(new)] = [chat_id |-> c, state |-> WaitingName,
                          message_id |-> 0, answers |-> Blank]
  <2>1. Insertion(table, new, c)
    BY Inserts
  <2> QED
    BY <2>1 DEF Insertion
<1>2. /\ DOMAIN table = 1..Len(table) /\ DOMAIN new = 1..Len(new)
      /\ Len(table) \in Nat
  BY <1>1, LenProperties
<1>3. ASSUME NEW s \in Seq(Row)
      PROVE  /\ FormsOf(s) \in Seq(Form1) /\ Len(FormsOf(s)) = Len(s)
             /\ \A i \in 1..Len(s) :
                  FormsOf(s)[i] = [state |-> s[i].state,
                                   answers |-> s[i].answers]
  <2>1. DOMAIN s = 1..Len(s) /\ Len(s) \in Nat
    BY LenProperties
  <2>2. FormsOf(s) \in [1..Len(s) -> Form1]
    BY <2>1, RowFields DEF FormsOf
  <2>3. FormsOf(s) \in Seq(Form1)
    <3>1. \A S : \A n \in Nat : [1..n -> S] \subseteq Seq(S)
      BY SeqDef
    <3> HIDE DEF Form1
    <3> QED
      BY <2>1, <2>2, <3>1
  <2>4. Len(FormsOf(s)) = Len(s)
    BY <2>1, <2>3, LenProperties DEF FormsOf
  <2> QED
    BY <2>1, <2>3, <2>4 DEF FormsOf
<1>4. /\ old \in Seq(Form1) /\ Len(old) = Len(table)
      /\ \A i \in 1..Len(table) : old[i] = [state |-> table[i].state,
                                            answers |-> table[i].answers]
  BY <1>3
<1>5. /\ next \in Seq(Form1) /\ Len(next) = Len(new)
      /\ \A i \in 1..Len(new) : next[i] = [state |-> new[i].state,
                                           answers |-> new[i].answers]
  BY <1>1, <1>3
<1>6. blank \in Form1
  BY CompletedIsLast, StatesAreNaturals DEF Answers, Blank
<1> HIDE DEF old, next, Form1
<1>7. /\ Append(old, blank) \in Seq(Form1)
      /\ Len(Append(old, blank)) = Len(old) + 1
      /\ \A i \in 1..Len(old) : Append(old, blank)[i] = old[i]
      /\ Append(old, blank)[Len(old) + 1] = blank
  BY <1>4, <1>6, AppendProperties
<1>8. \A i \in 1..Len(next) : next[i] = Append(old, blank)[i]
  <2> SUFFICES ASSUME NEW i \in 1..Len(next)
               PROVE  next[i] = Append(old, blank)[i]
    OBVIOUS
  <2>1. CASE i \in 1..Len(table)
    BY <1>1, <1>2, <1>4, <1>5, <1>7, <2>1
  <2>2. CASE i = Len(table) + 1
    BY <1>1, <1>2, <1>4, <1>5, <1>7, <2>2
  <2>3. Len(next) = Len(table) + 1
    BY <1>1, <1>5
  <2>4. i \in 1..Len(table) \/ i = Len(table) + 1
    BY <1>2, <2>3
  <2> QED
    BY <2>1, <2>2, <2>4
<1>9. next = Append(old, blank)
  BY <1>1, <1>4, <1>5, <1>7, <1>8, SeqEqual
<1> QED
  BY <1>9 DEF old, next

(* "want to participate" opens a form. *)
LEMMA WantOpens ==
  ASSUME FormInv, NEW t \in Tasks, WantSave(t)
  PROVE  RegForm!Next \/ UNCHANGED Forms
<1>1. registrations \in Seq(Row) /\ frame[t].chat \in Chats
  BY FormInvFacts
<1>2. \/ UNCHANGED registrations
      \/ registrations' = Inserted(registrations, frame[t].chat)
  BY StatementTable DEF WantSave
<1>3. Forms = FormsOf(registrations) /\ Forms' = FormsOf(registrations')
  BY DEF Forms, FormsOf
<1>4. CASE registrations' = Inserted(registrations, frame[t].chat)
  <2>1. Forms' = Append(Forms, [state |-> WaitingName, answers |-> Blank])
    BY <1>1, <1>3, <1>4, InsertedForms
  <2>2. RegForm!Open <=>
          Forms' = Append(Forms, [state   |-> RegForm!WaitingName,
                                  answers |-> RegForm!Blank])
    BY DEF RegForm!Open, Forms
  <2>3. RegForm!Open => RegForm!Next
    BY DEF RegForm!Next
  <2> QED
    BY <2>1, <2>2, <2>3, SameSteps
<1>5. CASE UNCHANGED registrations
  BY <1>3, <1>5
<1> QED
  BY <1>2, <1>4, <1>5

(* UPDATE is one step of one form, or none. *)
LEMMA UpdateMaps ==
  ASSUME FormInv, NEW t \in Tasks, frame[t].pc \in Writing,
         NEW g, Update(t, g)
  PROVE  RegForm!Next \/ UNCHANGED Forms
<1>1. PICK o, row, f :
        o = frame[t].obj /\ row = registrations[o.id] /\ f = frame[t]
  OBVIOUS
<1>2. /\ o \in Object /\ o.id \in DOMAIN registrations
      /\ row \in Row /\ Change(f, o, row)
  BY <1>1, FreshWriting
<1>3. \/ UNCHANGED registrations
      \/ registrations' = Updated(registrations, o)
  BY <1>1, StatementTable DEF Update
<1>4. Updated(registrations, o) = [registrations EXCEPT ![o.id] = o.row]
  BY <1>1, WritesInside
<1>5. CASE registrations' = Updated(registrations, o)
  <2> DEFINE i == o.id
  <2>1. /\ i \in DOMAIN Forms
        /\ row.state = Forms[i].state /\ row.answers = Forms[i].answers
        /\ Turns(i, o.row.state, o.row.answers)
    BY <1>1, <1>2, <1>4, <1>5, WrittenForms DEF Turns
  <2>2. Forms[i] = [state |-> row.state, answers |-> row.answers]
    BY <1>1, <1>2 DEF Forms
  <2> HIDE DEF i
  <2>3. o.row.state = row.state /\ o.row.answers = row.answers
          => UNCHANGED Forms
    <3>1. Forms = [j \in DOMAIN Forms |-> Forms[j]]
      BY DEF Forms
    <3> QED
      BY <2>1, <2>2, <3>1 DEF Turns
  <2>4. CASE f.pc \in {"want.update", "resume.update"}
    BY <1>2, <2>3, <2>4 DEF Change
  <2>5. CASE f.pc = "save.update"
    <3>1. /\ f.step \in Waiting /\ f.text \in Texts /\ row.state = f.step
          /\ o.row.state = IF row.state = WaitingPhrase
                             THEN Completed ELSE row.state
          /\ o.row.answers = [row.answers EXCEPT
                                ![FieldOf(row.state)] = f.text]
      BY <1>2, <2>5 DEF Change
    <3>2. PICK s, answers, s1, answers1 :
            /\ s = Forms[i].state /\ answers = Forms[i].answers
            /\ s1 = o.row.state /\ answers1 = o.row.answers
      OBVIOUS
    <3>3. Turns(i, s1, answers1)
      BY <2>1, <3>2
    <3>4. /\ s \in Waiting
          /\ s1 = IF s = WaitingPhrase THEN Completed ELSE s
          /\ answers1 = [answers EXCEPT ![FieldOf(s)] = f.text]
      BY <2>1, <3>1, <3>2
    <3>5. CASE s = WaitingPhrase
      <4>1. /\ s1 = Completed
            /\ answers1 = [answers EXCEPT ![FieldOf(WaitingPhrase)] = f.text]
        BY <3>4, <3>5
      <4>2. f.text \in Texts /\ i \in DOMAIN Forms
        BY <2>1, <3>1
      <4> QED
        BY <3>2, <3>3, <3>5, <4>1, <4>2, FormsOfRegForm, ZenonT(40)
    <3>6. CASE s # WaitingPhrase
      BY <2>1, <3>1, <3>2, <3>3, <3>4, <3>6, FormsOfRegForm
    <3> QED
      BY <3>5, <3>6
  <2>6. CASE f.pc = "back.update"
    <3>1. /\ CanGoBack(row.state) /\ o.row.state = PrevState(row.state)
          /\ o.row.answers = [row.answers EXCEPT
                                ![FieldOf(PrevState(row.state))] = NoText]
      BY <1>2, <2>6 DEF Change
    <3> QED
      BY <2>1, <3>1, FormsOfRegForm
  <2>7. CASE f.pc = "form.update"
    <3>1. /\ Due(row, f.step) /\ o.row.state = f.step
          /\ o.row.answers = row.answers
      BY <1>2, <2>7 DEF Change
    <3>2. CASE f.step = row.state
      BY <2>3, <3>1, <3>2
    <3>3. CASE f.step # row.state
      <4>1. /\ row.state \in Waiting \ {WaitingPhrase}
            /\ f.step = NextState(row.state)
            /\ row.answers[FieldOf(row.state)] # NoText
        BY <3>1, <3>3 DEF Due
      <4> QED
        BY <2>1, <3>1, <4>1, FormsOfRegForm
    <3> QED
      BY <3>2, <3>3
  <2> QED
    BY <1>1, <2>4, <2>5, <2>6, <2>7 DEF Writing
<1>6. CASE UNCHANGED registrations
  BY <1>6 DEF Forms
<1> QED
  BY <1>3, <1>5, <1>6

(* Every step of the bot is a step of a form, or none. *)
LEMMA NextMaps ==
  ASSUME FormInv, [Next]_allVars
  PROVE  RegForm!Next \/ UNCHANGED Forms
<1>1. UNCHANGED registrations => UNCHANGED Forms
  BY DEF Forms
<1>2. ASSUME NEW t \in Tasks, NewUpdate(t) PROVE UNCHANGED registrations
  BY <1>2, DeliveredFrames DEF FormInv
<1>3. Crash \/ Restart \/ UNCHANGED allVars => UNCHANGED registrations
  BY DEF Crash, Restart, allVars
<1>4. ASSUME NEW t \in Tasks, Step(t)
      PROVE  RegForm!Next \/ UNCHANGED Forms
  BY <1>1, <1>4, StepTable, WantOpens, UpdateMaps
<1> QED
  BY <1>1, <1>2, <1>3, <1>4 DEF Next

(* The handlers of RegistrationWorkflow, interleaved, failing and crashing *)
(* as they may, do to the table what RegistrationForm promises, provided   *)
(* that a user waits for the handling of an update to end.                 *)
THEOREM RegistrationsImplementForms ==
  Patient => (Spec => RegistrationsAreForms)
<1> SUFFICES ASSUME Patient PROVE Spec => RegistrationsAreForms
  OBVIOUS
<1>1. BotInit => RegForm!Init
  BY DEF BotInit, Init, RegForm!Init
<1>2. FormInv /\ [Next]_allVars => [RegForm!Next]_Forms
  BY NextMaps
<1>3. Spec => []FormInv
  BY PatientSnapshotsAreFresh
<1> QED
  BY <1>1, <1>2, <1>3, PTL
  DEF Spec, RegistrationsAreForms, RegForm!Spec, Forms

(* A step of a form leaves the completed ones alone. *)
LEMMA CompletedFormsStay ==
  ASSUME registrations \in Seq(Row), RegForm!Next,
         NEW i \in DOMAIN Forms
  PROVE  /\ i \in DOMAIN Forms'
         /\ Forms[i].state = Completed => Forms'[i] = Forms[i]
<1>1. CASE RegForm!Open
  <2> DEFINE Form1 == [state : States, answers : Answers]
             blank == [state |-> WaitingName, answers |-> Blank]
  <2>1. DOMAIN registrations = 1..Len(registrations)
        /\ Len(registrations) \in Nat
    BY LenProperties
  <2>2. Forms \in [1..Len(registrations) -> Form1]
    BY <2>1, RowFields DEF Forms
  <2>3. Forms \in Seq(Form1)
    <3>1. \A S : \A n \in Nat : [1..n -> S] \subseteq Seq(S)
      BY SeqDef
    <3> HIDE DEF Form1
    <3> QED
      BY <2>1, <2>2, <3>1
  <2>4. blank \in Form1
    BY CompletedIsLast, StatesAreNaturals DEF Answers, Blank
  <2>5. Forms' = Append(Forms, blank)
    BY <1>1, SameSteps DEF RegForm!Open, Forms
  <2>6. DOMAIN Forms = 1..Len(Forms) /\ Len(Forms) \in Nat
    BY <2>3, LenProperties
  <2> HIDE DEF Form1, blank
  <2>7. /\ Append(Forms, blank) \in Seq(Form1)
        /\ Len(Append(Forms, blank)) = Len(Forms) + 1
        /\ \A k \in 1..Len(Forms) : Append(Forms, blank)[k] = Forms[k]
    BY <2>3, <2>4, AppendProperties
  <2>8. DOMAIN Append(Forms, blank) = 1..(Len(Forms) + 1)
    BY <2>7, LenProperties
  <2> QED
    BY <2>5, <2>6, <2>7, <2>8
<1>2. ASSUME NEW j \in DOMAIN Forms, Forms[j].state # Completed,
             NEW form, Forms' = [Forms EXCEPT ![j] = form]
      PROVE  /\ i \in DOMAIN Forms'
             /\ Forms[i].state = Completed => Forms'[i] = Forms[i]
  BY <1>2
<1>3. ASSUME NEW j \in DOMAIN Forms,
             \/ RegForm!Advance(j) \/ RegForm!GoBack(j)
             \/ \E x \in Texts : RegForm!Answer(j, x) \/ RegForm!Complete(j, x)
      PROVE  /\ Forms[j].state # Completed
             /\ \E form : Forms' = [Forms EXCEPT ![j] = form]
  <2>1. /\ Completed \notin Waiting /\ WaitingPhrase # Completed
        /\ ~CanGoBack(Completed)
    BY DEF Waiting, WaitingName, WaitingCompanyName, WaitingCompanyPosition,
           WaitingPhrase, Completed, CanGoBack
  <2>2. CASE RegForm!Advance(j)
    BY <2>1, <2>2, SameSteps DEF RegForm!Advance, RegForm!Become, Forms
  <2>3. CASE RegForm!GoBack(j)
    BY <2>1, <2>3, SameSteps DEF RegForm!GoBack, RegForm!Become, Forms
  <2>4. ASSUME NEW x \in Texts, RegForm!Answer(j, x)
        PROVE  /\ Forms[j].state # Completed
               /\ \E form : Forms' = [Forms EXCEPT ![j] = form]
    BY <2>1, <2>4, SameSteps DEF RegForm!Answer, RegForm!Become, Forms
  <2>5. ASSUME NEW x \in Texts, RegForm!Complete(j, x)
        PROVE  /\ Forms[j].state # Completed
               /\ \E form : Forms' = [Forms EXCEPT ![j] = form]
    BY <2>1, <2>5, SameSteps DEF RegForm!Complete, RegForm!Become, Forms
  <2> QED
    BY <1>3, <2>2, <2>3, <2>4, <2>5
<1>4. RegForm!Open \/ \E j \in DOMAIN Forms :
         \/ RegForm!Advance(j) \/ RegForm!GoBack(j)
         \/ \E x \in Texts : RegForm!Answer(j, x) \/ RegForm!Complete(j, x)
  BY DEF RegForm!Next, Forms
<1> QED
  BY <1>1, <1>2, <1>3, <1>4

(* No handler of a patient user changes a completed registration, whatever *)
(* buttons earlier failures and crashes have left in his chat.             *)
THEOREM CompletedRegistrationsAreFinal ==
  Patient => (Spec => CompletionIsFinal)
<1> SUFFICES ASSUME Patient PROVE Spec => CompletionIsFinal
  OBVIOUS
<1> DEFINE Final == \A i \in DOMAIN Forms :
                      /\ i \in DOMAIN Forms'
                      /\ Forms[i].state = RegForm!Completed
                           => Forms'[i] = Forms[i]
<1>1. FormInv /\ [Next]_allVars => [Final]_Forms
  <2> SUFFICES ASSUME FormInv, [Next]_allVars, RegForm!Next
               PROVE  Final
    BY NextMaps
  <2>1. registrations \in Seq(Row)
    BY IInvFacts DEF FormInv, WInv
  <2> QED
    BY <2>1, CompletedFormsStay, SameSteps
<1>2. Spec => []FormInv
  BY PatientSnapshotsAreFresh
<1>3. CompletionIsFinal <=> [][Final]_Forms
  BY DEF CompletionIsFinal, RegForm!CompletedIsFinal, Forms
<1> HIDE DEF Final
<1> QED
  BY <1>1, <1>2, <1>3, PTL DEF Spec

-----------------------------------------------------------------------------
(* No question is skipped. *)

(* Every question before the row's state is answered. *)
Filled(row) ==
  \A s \in Waiting : s < row.state => row.answers[FieldOf(s)] # NoText

FilledRows(table) == \A i \in DOMAIN table : Filled(table[i])

(* The rows are the forms of RegForm. *)
LEMMA FilledForms == AnsweredUpToState <=> FilledRows(registrations)
<1>1. AnsweredUpToState <=>
        \A i \in DOMAIN Forms : \A s \in RegForm!Waiting :
          s < Forms[i].state
            => Forms[i].answers[RegForm!FieldOf(s)] # NoText
  BY DEF AnsweredUpToState, RegForm!FilledUpToState, Forms
<1>2. /\ DOMAIN Forms = DOMAIN registrations
      /\ \A i \in DOMAIN registrations :
           /\ Forms[i].state = registrations[i].state
           /\ Forms[i].answers = registrations[i].answers
  BY DEF Forms
<1> QED
  BY <1>1, <1>2, SameSteps DEF FilledRows, Filled

(* What a handler writes leaves no question behind unanswered. *)
LEMMA ChangeFills ==
  ASSUME NEW row \in Row, NEW o \in Object, NEW f, f.pc \in Writing,
         Change(f, o, row), Filled(row)
  PROVE  Filled(o.row)
<1>1. /\ row.answers \in [Fields -> Texts \cup {NoText}]
      /\ row.state \in States
  BY RowFields DEF Answers
<1>2. \A s \in Waiting : s \in Nat /\ FieldOf(s) \in Fields
  BY StatesAreNaturals, FieldOfType
<1>3. CASE f.pc \in {"want.update", "resume.update"}
  BY <1>3 DEF Change, Filled
<1>4. CASE f.pc = "save.update"
  <2> DEFINE s == row.state
  <2>1. /\ f.text \in Texts /\ s \in Waiting
        /\ o.row.state = IF s = WaitingPhrase THEN Completed ELSE s
        /\ o.row.answers = [row.answers EXCEPT ![FieldOf(s)] = f.text]
    BY <1>4 DEF Change
  <2> HIDE DEF s
  <2>2. f.text # NoText
    BY <2>1, TextAssumption
  <2>3. \A r \in Waiting :
          r < o.row.state => r = s \/ r < row.state
    <3>1. \A r \in Waiting : r < Completed => r < WaitingPhrase
                                               \/ r = WaitingPhrase
      BY DEF Waiting, WaitingName, WaitingCompanyName,
             WaitingCompanyPosition, WaitingPhrase, Completed
    <3> QED
      BY <2>1, <3>1 DEF s
  <2>4. \A r \in Waiting :
          o.row.answers[FieldOf(r)] = IF FieldOf(r) = FieldOf(s) THEN f.text
                                      ELSE row.answers[FieldOf(r)]
    BY <1>1, <1>2, <2>1
  <2> QED
    BY <2>2, <2>3, <2>4 DEF Filled
<1>5. CASE f.pc = "back.update"
  <2> DEFINE s == PrevState(row.state)
  <2>1. /\ CanGoBack(row.state) /\ o.row.state = s
        /\ o.row.answers = [row.answers EXCEPT ![FieldOf(s)] = NoText]
    BY <1>5 DEF Change
  <2>2. s \in Waiting /\ s < row.state
    BY <1>1, <2>1, PrevStateStep
  <2> HIDE DEF s
  <2>3. ASSUME NEW r \in Waiting, r < s
        PROVE  o.row.answers[FieldOf(r)] # NoText
    <3>1. r \in Nat /\ s \in Nat /\ row.state \in Nat
      BY <1>1, <2>2, StatesAreNaturals
    <3>2. r < row.state /\ r # s
      BY <2>2, <2>3, <3>1
    <3>3. FieldOf(r) # FieldOf(s)
      BY <2>2, <3>2, FieldOfInjective
    <3>4. o.row.answers[FieldOf(r)] = row.answers[FieldOf(r)]
      BY <1>1, <1>2, <2>1, <3>3
    <3> QED
      BY <3>2, <3>4 DEF Filled
  <2> QED
    BY <2>1, <2>3 DEF Filled
<1>6. CASE f.pc = "form.update"
  <2>1. Due(row, f.step) /\ o.row.state = f.step /\ o.row.answers = row.answers
    BY <1>6 DEF Change
  <2>2. CASE f.step = row.state
    BY <2>1, <2>2 DEF Filled
  <2>3. CASE f.step # row.state
    <3>1. /\ row.state \in Waiting /\ f.step = NextState(row.state)
          /\ row.answers[FieldOf(row.state)] # NoText
      BY <2>1, <2>3 DEF Due
    <3>2. \A r \in Waiting :
            r < f.step => r < row.state \/ r = row.state
      BY <3>1, NextStateStep
    <3> QED
      BY <2>1, <3>1, <3>2 DEF Filled
  <2> QED
    BY <2>2, <2>3
<1> QED
  BY <1>3, <1>4, <1>5, <1>6 DEF Writing

(* Every step keeps the rows filled up to their state. *)
LEMMA FilledStep ==
  ASSUME FormInv, FilledRows(registrations), [Next]_allVars
  PROVE  FilledRows(registrations')
<1>1. ASSUME UNCHANGED registrations PROVE FilledRows(registrations')
  BY <1>1
<1>2. ASSUME NEW t \in Tasks, NewUpdate(t) PROVE UNCHANGED registrations
  BY <1>2, DeliveredFrames DEF FormInv
<1>3. Crash \/ Restart \/ UNCHANGED allVars => UNCHANGED registrations
  BY DEF Crash, Restart, allVars
<1>4. ASSUME NEW t \in Tasks, WantSave(t) PROVE FilledRows(registrations')
  <2>1. PICK c, new : c = frame[t].chat /\ new = Inserted(registrations, c)
    OBVIOUS
  <2>2. /\ registrations \in Seq(Row) /\ c \in Chats
        /\ new = Inserted(registrations, c)
    BY <2>1, FormInvFacts
  <2>3. UNCHANGED registrations \/ registrations' = new
    BY <1>4, <2>1, StatementTable DEF WantSave
  <2>4. /\ DOMAIN new = DOMAIN registrations \cup {Len(new)}
        /\ \A i \in DOMAIN registrations : new[i] = registrations[i]
        /\ new[Len(new)] = [chat_id |-> c, state |-> WaitingName,
                            message_id |-> 0, answers |-> Blank]
    <3>1. Insertion(registrations, new, c)
      BY <2>2, Inserts
    <3> QED
      BY <3>1 DEF Insertion
  <2>5. Filled(new[Len(new)])
    BY <2>4, CompletedIsLast DEF Filled
  <2>6. FilledRows(new)
    BY <2>4, <2>5 DEF FilledRows
  <2> QED
    BY <1>1, <2>3, <2>6
<1>5. ASSUME NEW t \in Tasks, frame[t].pc \in Writing, NEW g, Update(t, g)
      PROVE  FilledRows(registrations')
  <2>1. PICK o, row, f :
          o = frame[t].obj /\ row = registrations[o.id] /\ f = frame[t]
    OBVIOUS
  <2>2. /\ o \in Object /\ o.id \in DOMAIN registrations
        /\ row \in Row /\ Change(f, o, row)
    BY <1>5, <2>1, FreshWriting
  <2>3. PICK new : new = Updated(registrations, o)
    OBVIOUS
  <2>4. UNCHANGED registrations \/ registrations' = new
    BY <1>5, <2>1, <2>3, StatementTable DEF Update
  <2>5. /\ DOMAIN new = DOMAIN registrations /\ new[o.id] = o.row
        /\ \A i \in DOMAIN registrations \ {o.id} : new[i] = registrations[i]
    BY <1>5, <2>1, <2>3, WritesInside
  <2>6. Filled(o.row)
    BY <1>5, <2>1, <2>2, ChangeFills DEF FilledRows
  <2>7. FilledRows(new)
    BY <2>5, <2>6 DEF FilledRows
  <2> QED
    BY <1>1, <2>4, <2>7
<1>6. ASSUME NEW t \in Tasks, Step(t) PROVE FilledRows(registrations')
  BY <1>1, <1>4, <1>5, <1>6, StepTable
<1> QED
  BY <1>1, <1>2, <1>3, <1>6 DEF Next

(* showFormPrompt never asks a question before the one in front of it is   *)
(* answered: every registration has an answer for each question before its *)
(* state, whatever fails, if the user waits for the bot.                   *)
THEOREM NoQuestionIsSkipped == Patient => (Spec => []AnsweredUpToState)
<1> SUFFICES ASSUME Patient PROVE Spec => []AnsweredUpToState
  OBVIOUS
<1> DEFINE A == FilledRows(registrations)
<1>1. BotInit => A
  BY DEF BotInit, Init, FilledRows
<1>2. FormInv /\ A /\ [Next]_allVars => A'
  BY FilledStep
<1>3. A => AnsweredUpToState
  BY FilledForms
<1>4. Spec => []FormInv
  BY PatientSnapshotsAreFresh
<1> HIDE DEF A
<1> QED
  BY <1>1, <1>2, <1>3, <1>4, PTL DEF Spec

-----------------------------------------------------------------------------
(* Patient users: what is announced as completed is completed.             *)

(* The rows that are completed stay so. *)
Completions(table, new) ==
  \A i \in DOMAIN table : table[i].state = Completed =>
    /\ i \in DOMAIN new
    /\ new[i].chat_id = table[i].chat_id
    /\ new[i].state = Completed

(* No handler of a patient user is about to take a completed row back. *)
LEMMA ChangeKeepsCompleted ==
  ASSUME NEW row, NEW o, NEW f, f.pc \in Writing, Change(f, o, row),
         row.state = Completed
  PROVE  o.row.state = Completed
<1>1. CASE f.pc \in {"want.update", "resume.update"}
  BY <1>1 DEF Change
<1>2. CASE f.pc = "save.update"
  BY <1>2, CompletedIsLast DEF Change
<1>3. CASE f.pc = "back.update"
  BY <1>3 DEF Change, CanGoBack
<1>4. CASE f.pc = "form.update"
  BY <1>4, CompletedIsLast DEF Change, Due
<1> QED
  BY <1>1, <1>2, <1>3, <1>4 DEF Writing

(* So completed rows stay completed in every step. *)
LEMMA CompletionsStay ==
  ASSUME FormInv, [Next]_allVars
  PROVE  Completions(registrations, registrations')
<1>1. UNCHANGED registrations => Completions(registrations, registrations')
  BY DEF Completions
<1>2. ASSUME NEW t \in Tasks, NewUpdate(t) PROVE UNCHANGED registrations
  BY <1>2, DeliveredFrames DEF FormInv
<1>3. Crash \/ Restart \/ UNCHANGED allVars => UNCHANGED registrations
  BY DEF Crash, Restart, allVars
<1>4. ASSUME NEW t \in Tasks, WantSave(t)
      PROVE  Completions(registrations, registrations')
  <2>1. PICK c, new : c = frame[t].chat /\ new = Inserted(registrations, c)
    OBVIOUS
  <2>2. /\ registrations \in Seq(Row) /\ c \in Chats
        /\ new = Inserted(registrations, c)
    BY <2>1, FormInvFacts
  <2>3. UNCHANGED registrations \/ registrations' = new
    BY <1>4, <2>1, StatementTable DEF WantSave
  <2>4. Insertion(registrations, new, c)
    BY <2>2, Inserts
  <2>5. Completions(registrations, new)
    BY <2>4 DEF Insertion, Completions
  <2> QED
    BY <1>1, <2>3, <2>5
<1>5. ASSUME NEW t \in Tasks, frame[t].pc \in Writing, NEW g, Update(t, g)
      PROVE  Completions(registrations, registrations')
  <2>1. PICK o, row, f :
          o = frame[t].obj /\ row = registrations[o.id] /\ f = frame[t]
    OBVIOUS
  <2>2. /\ Agrees(registrations, o) /\ Change(f, o, row)
    BY <1>5, <2>1, FreshWriting
  <2>3. PICK new : new = Updated(registrations, o)
    OBVIOUS
  <2>4. UNCHANGED registrations \/ registrations' = new
    BY <1>5, <2>1, <2>3, StatementTable DEF Update
  <2>5. /\ DOMAIN new = DOMAIN registrations /\ new[o.id] = o.row
        /\ \A i \in DOMAIN registrations \ {o.id} : new[i] = registrations[i]
    BY <1>5, <2>1, <2>3, WritesInside
  <2>6. row.state = Completed => o.row.state = Completed
    BY <1>5, <2>1, <2>2, ChangeKeepsCompleted
  <2>7. o.row.chat_id = row.chat_id
    BY <2>1, <2>2 DEF Agrees
  <2>8. Completions(registrations, new)
    BY <2>1, <2>5, <2>6, <2>7 DEF Completions
  <2> QED
    BY <1>1, <2>4, <2>8
<1>6. ASSUME NEW t \in Tasks, Step(t)
      PROVE  Completions(registrations, registrations')
  BY <1>1, <1>4, <1>5, <1>6, StepTable
<1> QED
  BY <1>1, <1>2, <1>3, <1>6 DEF Next

(* A coroutine that will say, or is saying, that the form is completed. *)
Announcing(f) ==
  \/ f.pc \in FormAwaits /\ f.step = Completed
  \/ f.pc = "save.thanks"

HasCompleted(table, c) ==
  \E i \in RowsOf(table, c) : table[i].state = Completed

(* Then a row of its chat is. *)
AnnouncedInv ==
  /\ FormInv
  /\ \A t \in Tasks :
       Announcing(frame[t]) => HasCompleted(registrations, frame[t].chat)

(* After a step. *)
Announced ==
  \A t \in Tasks : Announcing(frame'[t]) =>
    /\ frame'[t].chat = frame[t].chat
    /\ HasCompleted(registrations', frame[t].chat)

(* An idle coroutine says nothing. *)
LEMMA NoFrameSilent == ~Announcing(NoFrame)
<1>1. NoFrame.pc = "idle"
  BY DEF NoFrame
<1> QED
  BY <1>1 DEF Announcing, FormAwaits

(* A chat keeps its completed row. *)
LEMMA CompletedStays ==
  ASSUME NEW table, NEW new, Completions(table, new), NEW c,
         HasCompleted(table, c)
  PROVE  HasCompleted(new, c)
BY DEF Completions, HasCompleted, RowsOf

(* The frame f leaves t silent or goes on with its announcement. *)
Quietly(t, f) ==
  /\ Announcing(f) => Announcing(frame[t]) /\ f.chat = frame[t].chat
  /\ \A u \in Tasks : u = t \/ frame'[u] \in {frame[u], NoFrame}
  /\ frame'[t] \in {frame[t], f, NoFrame}

(* Such a step announces nothing new. *)
LEMMA QuietlyAnnounced ==
  ASSUME AnnouncedInv, Completions(registrations, registrations'),
         NEW t \in Tasks, NEW f, Quietly(t, f)
  PROVE  Announced
<1> SUFFICES ASSUME NEW u \in Tasks, Announcing(frame'[u])
             PROVE  /\ frame'[u].chat = frame[u].chat
                    /\ HasCompleted(registrations', frame[u].chat)
  BY DEF Announced
<1>1. Announcing(frame[u]) /\ frame'[u].chat = frame[u].chat
  BY NoFrameSilent DEF Quietly
<1>2. HasCompleted(registrations, frame[u].chat)
  BY <1>1 DEF AnnouncedInv
<1> QED
  BY <1>1, <1>2, CompletedStays
(* A step that leads to such a frame. *)
LEMMA OutcomeAnnounced ==
  ASSUME AnnouncedInv, Completions(registrations, registrations'),
         NEW t \in Tasks, NEW table, NEW f, Outcome(t, table, f),
         Announcing(f) => Announcing(frame[t]) /\ f.chat = frame[t].chat
  PROVE  Announced
<1>1. Quietly(t, f)
  BY DEF Outcome, Quietly
<1> QED
  BY <1>1, QuietlyAnnounced

(* The awaits of the other handlers. *)
Silent == Awaits \ (FormAwaits \cup {"save.thanks"})

(* A step that leads to one of them. *)
LEMMA SilentAnnounced ==
  ASSUME AnnouncedInv, Completions(registrations, registrations'),
         NEW t \in Tasks, NEW table, NEW f, Outcome(t, table, f),
         f.pc \in Silent \cup {"idle"}
  PROVE  Announced
<1>1. ~Announcing(f)
  BY DEF Announcing, Silent, FormAwaits
<1> QED
  BY <1>1, OutcomeAnnounced

(* Nor does one that can only end the handler. *)
LEMMA EndAnnounced ==
  ASSUME AnnouncedInv, Completions(registrations, registrations'),
         NEW t \in Tasks, NEW table, Outcome(t, table, NoFrame)
  PROVE  Announced
BY NoFrameSilent, OutcomeAnnounced

(* /start announces nothing. *)
LEMMA StartAnnounced ==
  ASSUME AnnouncedInv, Completions(registrations, registrations'),
         NEW t \in Tasks, ReplyStartCommand(t)
  PROVE  Announced
<1>1. FormInv /\ IInv /\ frame[t] \in Frame
  BY FormInvFacts DEF AnnouncedInv
<1>2. CASE StartWelcome(t)
  BY <1>1, <1>2, ApiOutcome, EndAnnounced DEF StartWelcome, Send
<1>3. CASE StartFind(t)
  <2>1. PICK o, g, h :
          /\ o = Snapshot(registrations, TheRow(registrations, frame[t].chat))
          /\ g = ResumeWith(t, o)
          /\ h = [frame[t] EXCEPT !.pc = "start.welcome"]
    OBVIOUS
  <2>2. PICK f : f \in {g, h} /\ Statement(t, registrations, f)
    BY <1>3, <2>1 DEF StartFind, FindByChatId
  <2>3. /\ g.pc \in {"resume.thanks", "resume.clear", "resume.form"}
        /\ h.pc = "start.welcome"
    BY <1>1, <2>1 DEF ResumeWith, Frame
  <2>4. f.pc \in Silent
    BY <2>2, <2>3 DEF Silent, Awaits, StartAwaits, FormAwaits
  <2> QED
    BY <1>1, <2>2, <2>4, StatementOutcome, SilentAnnounced
<1> QED
  BY <1>2, <1>3 DEF ReplyStartCommand

(* Resuming a form announces nothing. *)
LEMMA ResumptionAnnounced ==
  ASSUME AnnouncedInv, Completions(registrations, registrations'),
         NEW t \in Tasks, ResumeRegistration(t)
  PROVE  Announced
<1>1. FormInv /\ IInv /\ frame[t] \in Frame
  BY FormInvFacts DEF AnnouncedInv
<1>2. CASE ResumeThanks(t) \/ ResumePrompt(t)
  BY <1>1, <1>2, ApiOutcome, EndAnnounced
  DEF ResumeThanks, ResumePrompt, Send
<1>3. {"resume.form", "resume.update", "resume.prompt"} \subseteq Silent
  BY DEF Silent, Awaits, StartAwaits, FormAwaits
<1>4. CASE ResumeClear(t)
  <2>1. PICK f : f = [frame[t] EXCEPT !.pc = "resume.form"]
    OBVIOUS
  <2>2. Outcome(t, registrations, f)
    BY <1>1, <1>4, <2>1, ResumedFrame DEF ResumeClear, Goto, Outcome
  <2>3. f.pc = "resume.form"
    BY <1>1, <2>1 DEF Frame
  <2> QED
    BY <1>3, <2>2, <2>3, SilentAnnounced
<1>5. CASE ResumeForm(t)
  <2>1. PICK o, f : f = [frame[t] EXCEPT !.pc = "resume.update", !.obj = o]
                    /\ \E accepted, log : Api(t, accepted, log, f)
    BY <1>5 DEF ResumeForm, Send
  <2>2. f.pc = "resume.update"
    BY <1>1, <2>1 DEF Frame
  <2> QED
    BY <1>1, <1>3, <2>1, <2>2, ApiOutcome, SilentAnnounced
<1>6. CASE ResumeUpdate(t)
  <2>1. PICK f : f = [frame[t] EXCEPT !.pc = "resume.prompt"]
    OBVIOUS
  <2>2. \E table : Statement(t, table, f)
    BY <1>6, <2>1 DEF ResumeUpdate, Update
  <2>3. f.pc = "resume.prompt"
    BY <1>1, <2>1 DEF Frame
  <2> QED
    BY <1>1, <1>3, <2>2, <2>3, StatementOutcome, SilentAnnounced
<1> QED
  BY <1>2, <1>4, <1>5, <1>6 DEF ResumeRegistration

(* The subscription check announces nothing. *)
LEMMA CheckAnnounced ==
  ASSUME AnnouncedInv, Completions(registrations, registrations'),
         NEW t \in Tasks, CheckSubscription(t)
  PROVE  Announced
<1>1. FormInv /\ IInv /\ frame[t] \in Frame
  BY FormInvFacts DEF AnnouncedInv
<1>2. CASE CheckDeny(t) \/ CheckConfirm(t)
  BY <1>1, <1>2, ApiOutcome, EndAnnounced
  DEF CheckDeny, CheckConfirm, Request, Send
<1>3. CASE CheckMember(t) \/ CheckClear(t) \/ CheckAnswer(t)
  <2>1. PICK pc \in {"check.clear", "check.deny", "check.answer",
                     "check.confirm"} :
          Outcome(t, registrations, [frame[t] EXCEPT !.pc = pc])
    BY <1>1, <1>3, ApiOutcome
    DEF CheckMember, CheckClear, CheckAnswer, Request, Clear
  <2>2. PICK f : f = [frame[t] EXCEPT !.pc = pc]
    OBVIOUS
  <2>3. f.pc = pc
    BY <1>1, <2>2 DEF Frame
  <2>4. pc \in Silent
    BY DEF Silent, Awaits, CheckAwaits, FormAwaits
  <2> QED
    BY <2>1, <2>2, <2>3, <2>4, SilentAnnounced
<1> QED
  BY <1>2, <1>3 DEF CheckSubscription

(* Opening a registration announces nothing. *)
LEMMA WantAnnounced ==
  ASSUME AnnouncedInv, Completions(registrations, registrations'),
         NEW t \in Tasks, AnswerWantParticipateQuery(t)
  PROVE  Announced
<1>1. FormInv /\ IInv /\ frame[t] \in Frame
  BY FormInvFacts DEF AnnouncedInv
<1>2. CASE WantUpdate(t)
  BY <1>1, <1>2, StatementOutcome, EndAnnounced DEF WantUpdate, Update
<1>3. {"want.clear", "want.contest", "want.save", "want.prompt",
       "want.update"} \subseteq Silent
  BY DEF Silent, Awaits, WantAwaits, FormAwaits
<1>4. CASE WantAnswer(t) \/ WantClear(t) \/ WantContest(t)
  <2>1. PICK pc \in {"want.clear", "want.contest", "want.save"} :
          Outcome(t, registrations, [frame[t] EXCEPT !.pc = pc])
    BY <1>1, <1>4, ApiOutcome
    DEF WantAnswer, WantClear, WantContest, Request, Clear
  <2>2. PICK f : f = [frame[t] EXCEPT !.pc = pc]
    OBVIOUS
  <2>3. f.pc = pc
    BY <1>1, <2>2 DEF Frame
  <2> QED
    BY <1>3, <2>1, <2>2, <2>3, SilentAnnounced
<1>5. CASE WantSave(t)
  <2>1. PICK table : table = Inserted(registrations, frame[t].chat)
    OBVIOUS
  <2>2. PICK o, f :
          /\ o = Snapshot(table, Len(table))
          /\ f = [frame[t] EXCEPT !.pc = "want.prompt", !.obj = o]
    OBVIOUS
  <2>3. Outcome(t, table, f)
    <3>1. CASE Statement(t, table, f)
      BY <1>1, <3>1, StatementOutcome
    <3>2. CASE registrations' = table /\ Throw(t, CatchesDatabase)
      <4>1. /\ frame'[t] = NoFrame
            /\ \A u \in Tasks \ {t} : frame'[u] \in {frame[u], NoFrame}
        BY <1>1, <3>2, ResumedFrame, ThrownFrame
        DEF Throw, Finish, Terminate
      <4> QED
        BY <3>2, <4>1 DEF Outcome
    <3> QED
      BY <1>5, <2>1, <2>2, <3>1, <3>2 DEF WantSave
  <2>4. f.pc = "want.prompt"
    BY <1>1, <2>2 DEF Frame
  <2> QED
    BY <1>3, <2>3, <2>4, SilentAnnounced
<1>6. CASE WantPrompt(t)
  <2>1. PICK o, f : f = [frame[t] EXCEPT !.pc = "want.update", !.obj = o]
                    /\ \E accepted, log : Api(t, accepted, log, f)
    BY <1>6 DEF WantPrompt, Send
  <2>2. f.pc = "want.update"
    BY <1>1, <2>1 DEF Frame
  <2> QED
    BY <1>1, <1>3, <2>1, <2>2, ApiOutcome, SilentAnnounced
<1> QED
  BY <1>2, <1>4, <1>5, <1>6 DEF AnswerWantParticipateQuery

(* The UPDATE of the phrase completes the row before showFormPrompt is     *)
(* called with the completed state.                                        *)
LEMMA SaveUpdateAnnounced ==
  ASSUME AnnouncedInv, Completions(registrations, registrations'),
         NEW t \in Tasks, SaveUpdate(t)
  PROVE  Announced
<1>1. /\ FormInv /\ IInv /\ frame[t] \in Frame /\ frame[t].step \in States
      /\ frame[t].pc = "save.update"
  BY FormInvFacts DEF AnnouncedInv, SaveUpdate, At
<1>2. PICK o, row, new :
        /\ o = frame[t].obj /\ row = registrations[o.id]
        /\ new = Updated(registrations, o)
  OBVIOUS
<1>3. PICK f : f = [frame[t] EXCEPT !.pc = "form.find", !.step = NextState(@),
                                    !.text = NoText, !.obj = NoObject]
  OBVIOUS
<1>4. f.step = NextState(frame[t].step) /\ f.chat = frame[t].chat
  BY <1>1, <1>3 DEF Frame
<1>5. f.pc = "form.find"
  BY <1>1, <1>3 DEF Frame
<1>6. Outcome(t, new, f)
  BY <1>1, <1>2, <1>3, StatementOutcome DEF SaveUpdate, Update
<1>7. frame[t].pc \in Writing
  BY <1>1 DEF Writing
<1>8. /\ o.id \in DOMAIN registrations /\ row.chat_id = frame[t].chat
      /\ Change(frame[t], o, row)
  BY <1>1, <1>2, <1>7, FreshWriting
<1>9. /\ new[o.id] = o.row
      /\ RowsOf(new, frame[t].chat) = RowsOf(registrations, frame[t].chat)
  BY <1>1, <1>2, <1>7, WritesInside
<1>10. ASSUME f.step = Completed PROVE HasCompleted(new, frame[t].chat)
  <2>1. frame[t].step = WaitingPhrase
    BY <1>1, <1>4, <1>8, <1>10
    DEF Change, NextState, Waiting, WaitingName, WaitingCompanyName,
        WaitingCompanyPosition, WaitingPhrase, Completed
  <2>2. o.row.state = Completed
    BY <1>1, <1>8, <2>1 DEF Change
  <2>3. o.id \in RowsOf(new, frame[t].chat)
    BY <1>2, <1>8, <1>9 DEF RowsOf
  <2> QED
    BY <1>9, <2>2, <2>3 DEF HasCompleted
<1>11. CASE f.step = Completed /\ frame'[t] = f /\ registrations' = new
  <2>1. ASSUME NEW u \in Tasks, Announcing(frame'[u])
        PROVE  /\ frame'[u].chat = frame[u].chat
               /\ HasCompleted(registrations', frame[u].chat)
    <3>1. CASE u = t
      BY <1>4, <1>10, <1>11, <3>1
    <3>2. CASE u # t
      <4>1. frame'[u] = frame[u] /\ Announcing(frame[u])
        BY <1>6, <2>1, <3>2, NoFrameSilent DEF Outcome
      <4>2. HasCompleted(registrations, frame[u].chat)
        BY <4>1 DEF AnnouncedInv
      <4> QED
        BY <4>1, <4>2, CompletedStays
    <3> QED
      BY <3>1, <3>2
  <2> QED
    BY <2>1 DEF Announced
<1>12. CASE f.step # Completed
  <2>1. ~Announcing(f)
    BY <1>5, <1>12 DEF Announcing
  <2> QED
    BY <1>6, <2>1, OutcomeAnnounced
<1>13. CASE frame'[t] = NoFrame
  <2>1. Quietly(t, NoFrame)
    BY <1>6, <1>13, NoFrameSilent DEF Outcome, Quietly
  <2> QED
    BY <2>1, QuietlyAnnounced
<1> QED
  BY <1>6, <1>11, <1>12, <1>13 DEF Outcome

(* An answer. *)
LEMMA MessageAnnounced ==
  ASSUME AnnouncedInv, Completions(registrations, registrations'),
         NEW t \in Tasks, ProcessMessage(t)
  PROVE  Announced
<1>1. FormInv /\ IInv /\ frame[t] \in Frame
  BY FormInvFacts DEF AnnouncedInv
<1>2. {"save.find", "save.update"} \subseteq Silent
  BY DEF Silent, Awaits, MessageAwaits, FormAwaits
<1>3. Statement(t, registrations, NoFrame) => Announced
  BY <1>1, StatementOutcome, EndAnnounced
<1>4. CASE MessageFind(t)
  <2>1. PICK o, f :
          /\ o = Snapshot(registrations, TheRow(registrations, frame[t].chat))
          /\ f = [frame[t] EXCEPT !.pc = "save.find", !.step = o.row.state]
    OBVIOUS
  <2>2. \/ Statement(t, registrations, NoFrame)
        \/ Statement(t, registrations, f)
    BY <1>4, <2>1 DEF MessageFind, FindByChatId
  <2>3. f.pc = "save.find"
    BY <1>1, <2>1 DEF Frame
  <2> QED
    BY <1>1, <1>2, <1>3, <2>2, <2>3, StatementOutcome, SilentAnnounced
<1>5. CASE SaveFind(t)
  <2>1. PICK o, new, f :
          /\ o = Snapshot(registrations, TheRow(registrations, frame[t].chat))
          /\ new = SavedAnswer(o, frame[t].step, frame[t].text)
          /\ f = [frame[t] EXCEPT !.pc = "save.update", !.obj = new]
    OBVIOUS
  <2>2. \/ Statement(t, registrations, NoFrame)
        \/ Statement(t, registrations, f)
    BY <1>5, <2>1 DEF SaveFind, FindByChatId
  <2>3. f.pc = "save.update"
    BY <1>1, <2>1 DEF Frame
  <2> QED
    BY <1>1, <1>2, <1>3, <2>2, <2>3, StatementOutcome, SilentAnnounced
<1>6. CASE SaveThanks(t)
  BY <1>1, <1>6, ApiOutcome, EndAnnounced DEF SaveThanks, Send
<1> QED
  BY <1>4, <1>5, <1>6, SaveUpdateAnnounced DEF ProcessMessage

(* A step back leads to a question. *)
LEMMA BackAnnounced ==
  ASSUME AnnouncedInv, Completions(registrations, registrations'),
         NEW t \in Tasks, ReplyBackQuery(t)
  PROVE  Announced
<1>1. FormInv /\ IInv /\ frame[t] \in Frame
  BY FormInvFacts DEF AnnouncedInv
<1>2. {"back.unknown", "back.outdated", "back.answer", "back.update"}
        \subseteq Silent
  BY DEF Silent, Awaits, BackAwaits, FormAwaits
<1>3. CASE BackFind(t)
  <2>1. PICK o, f1, f2, f3 :
          /\ o = Snapshot(registrations, TheRow(registrations, frame[t].chat))
          /\ f1 = [frame[t] EXCEPT !.pc = "back.outdated"]
          /\ f2 = [frame[t] EXCEPT !.pc = "back.answer", !.obj = o]
          /\ f3 = [frame[t] EXCEPT !.pc = "back.unknown"]
    OBVIOUS
  <2>2. PICK f \in {f1, f2, f3} : Statement(t, registrations, f)
    BY <1>3, <2>1 DEF BackFind, FindByChatId
  <2>3. /\ f1.pc = "back.outdated" /\ f2.pc = "back.answer"
        /\ f3.pc = "back.unknown"
    BY <1>1, <2>1 DEF Frame
  <2> QED
    BY <1>1, <1>2, <2>2, <2>3, StatementOutcome, SilentAnnounced
<1>4. CASE BackRefuse(t)
  BY <1>1, <1>4, ApiOutcome, EndAnnounced DEF BackRefuse, Request
<1>5. CASE BackAnswer(t)
  <2>1. PICK s, new, f :
          /\ s = PrevState(frame[t].obj.row.state)
          /\ new = SteppedBack(frame[t].obj)
          /\ f = [frame[t] EXCEPT !.pc = "back.update", !.step = s,
                                  !.obj = new]
    OBVIOUS
  <2>2. Request(t, f) \/ Request(t, NoFrame)
    BY <1>5, <2>1 DEF BackAnswer
  <2>3. f.pc = "back.update"
    BY <1>1, <2>1 DEF Frame
  <2> QED
    BY <1>1, <1>2, <2>2, <2>3, ApiOutcome, EndAnnounced, SilentAnnounced
    DEF Request
<1>6. CASE BackUpdate(t)
  <2>1. PICK f : f = [frame[t] EXCEPT !.pc = "form.find", !.obj = NoObject]
    OBVIOUS
  <2>2. PICK o, row : o = frame[t].obj /\ row = registrations[o.id]
    OBVIOUS
  <2>3. frame[t].pc = "back.update" /\ frame[t].pc \in Writing
    BY <1>6 DEF BackUpdate, At, Writing
  <2>4. row \in Row /\ Change(frame[t], o, row)
    BY <1>1, <2>2, <2>3, FreshWriting
  <2>5. CanGoBack(row.state) /\ frame[t].step = PrevState(row.state)
    BY <2>3, <2>4 DEF Change
  <2>6. frame[t].step # Completed
    <3>1. row.state \in States
      BY <2>4, RowFields
    <3> QED
      BY <2>5, <3>1, PrevStateStep, CompletedIsLast
  <2>7. f.pc = "form.find" /\ f.step = frame[t].step
    BY <1>1, <2>1 DEF Frame
  <2>8. ~Announcing(f)
    BY <2>6, <2>7 DEF Announcing
  <2>9. Statement(t, Updated(registrations, o), f)
    BY <1>6, <2>1, <2>2 DEF BackUpdate, Update
  <2> QED
    BY <1>1, <2>8, <2>9, StatementOutcome, OutcomeAnnounced
<1> QED
  BY <1>3, <1>4, <1>5, <1>6 DEF ReplyBackQuery

(* showFormPrompt passes its step on. *)
LEMMA FormAnnounced ==
  ASSUME AnnouncedInv, Completions(registrations, registrations'),
         NEW t \in Tasks, ShowFormPrompt(t)
  PROVE  Announced
<1>1. FormInv /\ IInv /\ frame[t] \in Frame
  BY FormInvFacts DEF AnnouncedInv
<1>2. frame[t].pc \in FormAwaits
  BY DEF ShowFormPrompt, FormFind, FormUpdate, FormEdit, FormPrompt, At,
         FormAwaits
<1>3. ASSUME NEW f, f.chat = frame[t].chat, f.step = frame[t].step,
             f.pc \in FormAwaits, NEW table, Outcome(t, table, f)
      PROVE  Announced
  <2>1. Announcing(f) => Announcing(frame[t])
    BY <1>2, <1>3 DEF Announcing, FormAwaits
  <2> QED
    BY <1>3, <2>1, OutcomeAnnounced
<1>4. ASSUME NEW table, Outcome(t, table, AfterForm(t)) PROVE Announced
  <2>1. CASE frame[t].step = Completed
    <3>1. PICK f : f = [frame[t] EXCEPT !.pc = "save.thanks",
                                        !.obj = NoObject]
      OBVIOUS
    <3>2. f = AfterForm(t)
      BY <2>1, <3>1 DEF AfterForm
    <3>3. f.chat = frame[t].chat
      BY <1>1, <3>1 DEF Frame
    <3>4. Announcing(frame[t])
      BY <1>2, <2>1 DEF Announcing
    <3> QED
      BY <1>4, <3>2, <3>3, <3>4, OutcomeAnnounced
  <2>2. CASE frame[t].step # Completed
    <3>1. Outcome(t, table, NoFrame)
      BY <1>4, <2>2 DEF AfterForm
    <3> QED
      BY <3>1, EndAnnounced
  <2> QED
    BY <2>1, <2>2
<1>5. CASE FormFind(t)
  <2>1. PICK o, new, f :
          /\ o = Snapshot(registrations, TheRow(registrations, frame[t].chat))
          /\ new = SetState(o, frame[t].step)
          /\ f = [frame[t] EXCEPT !.pc = "form.update", !.obj = new]
    OBVIOUS
  <2>2. \/ Statement(t, registrations, f)
        \/ Statement(t, registrations, AfterForm(t))
    BY <1>5, <2>1 DEF FormFind, FindByChatId
  <2>3. /\ f.chat = frame[t].chat /\ f.step = frame[t].step
        /\ f.pc \in FormAwaits
    BY <1>1, <2>1 DEF Frame, FormAwaits
  <2> QED
    BY <1>1, <1>3, <1>4, <2>2, <2>3, StatementOutcome
<1>6. CASE FormUpdate(t)
  <2>1. PICK f : f = [frame[t] EXCEPT !.pc = "form.edit"]
    OBVIOUS
  <2>2. \E table : Statement(t, table, f)
    BY <1>6, <2>1 DEF FormUpdate, Update
  <2>3. /\ f.chat = frame[t].chat /\ f.step = frame[t].step
        /\ f.pc \in FormAwaits
    BY <1>1, <2>1 DEF Frame, FormAwaits
  <2> QED
    BY <1>1, <1>3, <2>2, <2>3, StatementOutcome
<1>7. CASE FormEdit(t)
  <2>1. PICK f : f = [frame[t] EXCEPT !.pc = "form.prompt", !.obj = NoObject]
    OBVIOUS
  <2>2. \E accepted, log : Api(t, accepted, log, f)
    BY <1>7, <2>1 DEF FormEdit, Edit
  <2>3. /\ f.chat = frame[t].chat /\ f.step = frame[t].step
        /\ f.pc \in FormAwaits
    BY <1>1, <2>1 DEF Frame, FormAwaits
  <2> QED
    BY <1>1, <1>3, <2>2, <2>3, ApiOutcome
<1>8. CASE FormPrompt(t)
  BY <1>1, <1>4, <1>8, ApiOutcome DEF FormPrompt, Send
<1> QED
  BY <1>5, <1>6, <1>7, <1>8 DEF ShowFormPrompt

(* A new update announces nothing. *)
LEMMA DeliveryAnnounced ==
  ASSUME AnnouncedInv, Completions(registrations, registrations'),
         NEW t \in Tasks, NewUpdate(t)
  PROVE  Announced
<1>1. IInv
  BY FormInvFacts DEF AnnouncedInv
<1>2. PICK f : /\ Resume(t, f) /\ f.pc \in Silent
  <2>1. {"start.find", "message.find", "check.member", "want.answer",
         "back.find"} \subseteq Silent
    BY DEF Silent, Awaits, StartAwaits, MessageAwaits, CheckAwaits,
           WantAwaits, BackAwaits, FormAwaits
  <2>2. ASSUME NEW c, NEW pc, NEW x, NEW m
        PROVE  /\ Handler(pc, c).pc = pc
               /\ [Handler(pc, c) EXCEPT !.text = x].pc = pc
               /\ [Handler(pc, c) EXCEPT !.click = m].pc = pc
    BY NoFrameOK DEF Handler, Frame
  <2>3. PICK c \in Chats :
          \/ OnStart(t, c)
          \/ \E x \in Texts : OnMessage(t, c, x)
          \/ \E m \in DOMAIN messages[c] : OnCallbackQuery(t, c, m)
    BY DEF NewUpdate
  <2>4. CASE OnStart(t, c)
    BY <2>1, <2>2, <2>4 DEF OnStart, Deliver, Spawn
  <2>5. ASSUME NEW x \in Texts, OnMessage(t, c, x)
        PROVE  \E g : Resume(t, g) /\ g.pc \in Silent
    <3>1. PICK g : g = [Handler("message.find", c) EXCEPT !.text = x]
      OBVIOUS
    <3>2. g.pc = "message.find"
      BY <2>2, <3>1
    <3>3. Resume(t, g)
      BY <2>5, <3>1 DEF OnMessage, Deliver, Spawn
    <3> QED
      BY <2>1, <3>2, <3>3
  <2>6. ASSUME NEW m \in DOMAIN messages[c], OnCallbackQuery(t, c, m)
        PROVE  \E g : Resume(t, g) /\ g.pc \in Silent
    <3>1. PICK button : button = messages[c][m].keyboard
      OBVIOUS
    <3>2. button \in Keyboards
      <4>1. messages[c] \in Seq(Message)
        BY <1>1, IInvFacts
      <4>2. messages[c][m] \in Message
        BY <2>6, <4>1
      <4> QED
        BY <3>1, <4>2 DEF Message
    <3>3. /\ button # "none"
          /\ Resume(t, [Handler(FirstAwait[button], c) EXCEPT !.click = m])
      BY <2>6, <3>1 DEF OnCallbackQuery, Deliver, Spawn
    <3>4. FirstAwait[button] \in Silent
      BY <2>1, <3>2, <3>3 DEF FirstAwait, Keyboards
    <3>5. PICK g : g = [Handler(FirstAwait[button], c) EXCEPT !.click = m]
      OBVIOUS
    <3>6. g.pc = FirstAwait[button]
      BY <2>2, <3>5
    <3> QED
      BY <3>3, <3>4, <3>5, <3>6
  <2> QED
    BY <2>3, <2>4, <2>5, <2>6
<1>3. /\ ~Announcing(f)
      /\ \A u \in Tasks : frame'[u] = IF u = t THEN f ELSE frame[u]
  BY <1>1, <1>2, ResumedFrame DEF Announcing, Silent, FormAwaits
<1>4. Quietly(t, f)
  BY <1>3 DEF Quietly
<1> QED
  BY <1>4, QuietlyAnnounced

(* No step of the bot announces what is not so. *)
LEMMA StepAnnounced ==
  ASSUME AnnouncedInv, [Next]_allVars
  PROVE  Announced
<1>1. Completions(registrations, registrations')
  BY CompletionsStay DEF AnnouncedInv
<1>2. ASSUME NEW t \in Tasks, Step(t) PROVE Announced
  BY <1>1, <1>2, StartAnnounced, ResumptionAnnounced, CheckAnnounced,
     WantAnnounced, MessageAnnounced, BackAnnounced, FormAnnounced DEF Step
<1>3. ASSUME Crash \/ Restart \/ UNCHANGED allVars PROVE Announced
  <2>1. \A t \in Tasks : frame'[t] \in {frame[t], NoFrame}
    BY <1>3 DEF Crash, Restart, Terminate, allVars
  <2>2. \A t \in Tasks : Announcing(frame'[t]) =>
          frame'[t] = frame[t] /\ HasCompleted(registrations, frame[t].chat)
    BY <2>1, NoFrameSilent DEF AnnouncedInv
  <2> QED
    BY <1>1, <2>2, CompletedStays DEF Announced
<1> QED
  BY <1>1, <1>2, <1>3, DeliveryAnnounced DEF Next

(* A patient user of whom the log says "Registration COMPLETED", on the    *)
(* way to the last message of completeFormCreation, has a completed        *)
(* registration, whatever has failed and whenever the process died.        *)
THEOREM CompletedIsNotAnnouncedEarly ==
  Patient => (Spec => AnnouncedCompletedIsCompleted)
<1> SUFFICES ASSUME Patient PROVE Spec => AnnouncedCompletedIsCompleted
  OBVIOUS
<1> DEFINE A == \A t \in Tasks :
                  (~At(t, "save.thanks") /\ At(t, "save.thanks")') =>
                    \E i \in RowsOf(registrations', frame[t].chat) :
                      registrations'[i].state = Completed
           I == \A t \in Tasks : Announcing(frame[t]) =>
                  HasCompleted(registrations, frame[t].chat)
<1>1. BotInit => I
  BY NoFrameSilent DEF BotInit, Init
<1>2. FormInv /\ I /\ [Next]_allVars => Announced
  BY StepAnnounced DEF AnnouncedInv
<1>3. Announced => I'
  BY DEF Announced
<1>4. Announced => A
  BY DEF Announced, Announcing, HasCompleted, At
<1>5. FormInv /\ I /\ [Next]_allVars => I' /\ A
  BY <1>2, <1>3, <1>4
<1>6. Spec => []FormInv
  BY PatientSnapshotsAreFresh
<1> HIDE DEF I
<1> QED
  BY <1>1, <1>5, <1>6, PTL DEF Spec, AnnouncedCompletedIsCompleted

=============================================================================
