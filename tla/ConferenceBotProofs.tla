------------------------ MODULE ConferenceBotProofs ------------------------
(***************************************************************************)
(* Safety of the bot for any number of chats, coroutines, updates and      *)
(* failures, and whether or not users wait for an answer.                  *)
(*                                                                         *)
(* CompletedHasPhrase is not inductive: a coroutine about to write the     *)
(* state Completed must be known to write, or to have written, the phrase. *)
(* FrameOK says that of every coroutine, in terms of the object it holds   *)
(* and of the table it has not looked at since.                            *)
(***************************************************************************)
EXTENDS ConferenceBot, RegistrationStateProofs, SequenceTheorems,
        FiniteSetTheorems

(* The awaits over which a coroutine keeps the object it has read. *)
Holding ==
  {"form.update", "form.edit", "want.prompt", "want.update", "save.update",
   "back.answer", "back.update", "resume.thanks", "resume.clear",
   "resume.form", "resume.update", "resume.prompt"}

(* The object is of the coroutine's chat; writing it brings no empty       *)
(* phrase, and the state Completed only where the phrase is or comes.      *)
ObjectOK(table, f) ==
  f.pc \in Holding =>
    /\ f.obj.id \in DOMAIN table
    /\ table[f.obj.id].chat_id = f.chat
    /\ "phrase" \in f.obj.dirty => f.obj.row.answers["phrase"] # NoText
    /\ "state" \in f.obj.dirty /\ f.obj.row.state = Completed
         => \/ "phrase" \in f.obj.dirty
            \/ table[f.obj.id].answers["phrase"] # NoText

Phrased(table, c) ==
  \E i \in DOMAIN table :
    table[i].chat_id = c /\ table[i].answers["phrase"] # NoText

(* A coroutine that goes on to Completed or to the thanks. *)
Concluding(f) ==
  \/ f.pc \in FormAwaits /\ f.step = Completed
  \/ f.pc \in {"save.thanks", "resume.thanks"}

FrameOK(table, f) ==
  /\ ObjectOK(table, f)
  /\ f.pc \in {"message.find", "save.find"} => f.text \in Texts
  /\ f.pc = "save.update" /\ NextState(f.step) = Completed
       => "phrase" \in f.obj.dirty
  /\ f.pc = "back.update" => f.step # Completed
  /\ Concluding(f) => Phrased(table, f.chat)

IInv ==
  /\ BotTypeOK
  /\ CompletedHasPhrase
  /\ ThankedOnlyAfterSaved
  /\ \A t \in Tasks : FrameOK(registrations, frame[t])

-----------------------------------------------------------------------------
(* The table. *)

(* The columns of a row have their types.                                  *)
LEMMA RowFields ==
  ASSUME NEW r \in Row
  PROVE  /\ r.chat_id \in Chats
         /\ r.state \in States
         /\ r.message_id \in Nat
         /\ r.answers \in Answers
BY DEF Row

(* The parts of a model object have their types.                           *)
LEMMA ObjectFields ==
  ASSUME NEW o \in Object
  PROVE  /\ o.id \in Nat
         /\ o.row \in Row
         /\ o.dirty \in SUBSET Columns
BY DEF Object

(* A row that was found is the only one of its chat. *)
LEMMA FoundRow ==
  ASSUME NEW table \in Seq(Row), NEW c, Found(table, c)
  PROVE  /\ TheRow(table, c) \in DOMAIN table
         /\ table[TheRow(table, c)].chat_id = c
         /\ \A i \in DOMAIN table :
              table[i].chat_id = c => i = TheRow(table, c)
<1>1. IsFiniteSet(DOMAIN table)
  BY FS_Interval, LenProperties
<1>2. IsFiniteSet(RowsOf(table, c))
  BY <1>1, FS_Subset DEF RowsOf
<1>3. PICK x : RowsOf(table, c) = {x}
  BY <1>2, FS_Singleton DEF Found
<1> QED
  BY <1>3 DEF RowsOf, TheRow

(* An object built from row i has the id i and nothing to write.           *)
LEMMA SnapshotType ==
  ASSUME NEW table \in Seq(Row), NEW i \in DOMAIN table
  PROVE  /\ Snapshot(table, i) \in Object
         /\ Snapshot(table, i).id = i
         /\ Snapshot(table, i).row = table[i]
         /\ Snapshot(table, i).dirty = {}
<1>1. table[i] \in Row /\ i \in Nat
  BY LenProperties
<1> QED
  BY <1>1 DEF Snapshot, Object

(* setState changes the state and marks that column.                       *)
LEMMA SetStateType ==
  ASSUME NEW o \in Object, NEW s \in States
  PROVE  /\ SetState(o, s) \in Object
         /\ SetState(o, s).id = o.id
         /\ SetState(o, s).row.state = s
         /\ SetState(o, s).row.answers = o.row.answers
         /\ SetState(o, s).dirty = o.dirty \cup {"state"}
BY DEF SetState, Object, Row, Columns

(* setMessageId marks message_id and leaves state and answers alone.       *)
LEMMA SetMessageIdType ==
  ASSUME NEW o \in Object, NEW m \in Nat
  PROVE  /\ SetMessageId(o, m) \in Object
         /\ SetMessageId(o, m).id = o.id
         /\ SetMessageId(o, m).row.state = o.row.state
         /\ SetMessageId(o, m).row.answers = o.row.answers
         /\ SetMessageId(o, m).dirty = o.dirty \cup {"message_id"}
BY DEF SetMessageId, Object, Row, Columns

(* The setter of an answer changes that answer and marks its column.       *)
LEMMA SetAnswerType ==
  ASSUME NEW o \in Object, NEW f \in Fields, NEW x \in Texts \cup {NoText}
  PROVE  /\ SetAnswer(o, f, x) \in Object
         /\ SetAnswer(o, f, x).id = o.id
         /\ SetAnswer(o, f, x).row.state = o.row.state
         /\ SetAnswer(o, f, x).row.answers = [o.row.answers EXCEPT ![f] = x]
         /\ SetAnswer(o, f, x).dirty = o.dirty \cup {f}
BY DEF SetAnswer, Object, Row, Columns, Answers

(* UPDATE and INSERT never lose a row, its chat or its phrase. *)
Grows(table, new) ==
  /\ new \in Seq(Row)
  /\ DOMAIN table \subseteq DOMAIN new
  /\ \A i \in DOMAIN table :
       /\ new[i].chat_id = table[i].chat_id
       /\ table[i].answers["phrase"] # NoText
            => new[i].answers["phrase"] # NoText

CompletedOK(table) ==
  \A i \in DOMAIN table :
    table[i].state = Completed => table[i].answers["phrase"] # NoText

(* UPDATE changes one row, and of it the marked columns.                   *)
LEMMA UpdatedTable ==
  ASSUME NEW table \in Seq(Row), NEW o \in Object, o.id \in DOMAIN table
  PROVE  /\ Updated(table, o) \in Seq(Row)
         /\ DOMAIN Updated(table, o) = DOMAIN table
         /\ \A i \in DOMAIN table \ {o.id} : Updated(table, o)[i] = table[i]
         /\ Updated(table, o)[o.id].chat_id = table[o.id].chat_id
         /\ Updated(table, o)[o.id].state =
              IF "state" \in o.dirty THEN o.row.state ELSE table[o.id].state
         /\ Updated(table, o)[o.id].answers["phrase"] =
              IF "phrase" \in o.dirty THEN o.row.answers["phrase"]
                                      ELSE table[o.id].answers["phrase"]
<1> DEFINE old == table[o.id]
           new == [chat_id    |-> old.chat_id,
                   state      |-> IF "state" \in o.dirty
                                    THEN o.row.state ELSE old.state,
                   message_id |-> IF "message_id" \in o.dirty
                                    THEN o.row.message_id
                                    ELSE old.message_id,
                   answers    |-> [f \in Fields |-> IF f \in o.dirty
                                                      THEN o.row.answers[f]
                                                      ELSE old.answers[f]]]
<1>1. old \in Row /\ o.row \in Row
  BY ObjectFields
<1>2. new \in Row
  BY <1>1 DEF Row, Answers
<1>3. Updated(table, o) = [table EXCEPT ![o.id] = new]
  BY DEF Updated, UpdateColumns
<1>4. "phrase" \in Fields
  BY DEF Fields
<1>5. /\ new.chat_id = old.chat_id
      /\ new.state = IF "state" \in o.dirty THEN o.row.state ELSE old.state
      /\ new.answers["phrase"] = IF "phrase" \in o.dirty
                                   THEN o.row.answers["phrase"]
                                   ELSE old.answers["phrase"]
  BY <1>4
<1>6. o.id \in 1..Len(table) /\ DOMAIN table = 1..Len(table)
  BY LenProperties
<1> HIDE DEF new, old
<1>7. /\ Updated(table, o) \in Seq(Row)
      /\ DOMAIN Updated(table, o) = DOMAIN table
      /\ Updated(table, o)[o.id] = new
      /\ \A i \in DOMAIN table \ {o.id} : Updated(table, o)[i] = table[i]
  BY <1>2, <1>3, <1>6, ExceptSeq
<1> QED
  BY <1>5, <1>7 DEF old

(* A write of an object that is in order keeps the table in order. *)
LEMMA UpdatedGrows ==
  ASSUME NEW table \in Seq(Row), NEW f \in Frame, f.pc \in Holding,
         ObjectOK(table, f), CompletedOK(table)
  PROVE  /\ Grows(table, Updated(table, f.obj))
         /\ CompletedOK(Updated(table, f.obj))
         /\ f.obj.id \in DOMAIN Updated(table, f.obj)
         /\ Updated(table, f.obj)[f.obj.id].chat_id = f.chat
         /\ "phrase" \in f.obj.dirty
              => Updated(table, f.obj)[f.obj.id].answers["phrase"] # NoText
<1>1. f.obj \in Object
  BY DEF Frame
<1>2. f.obj.id \in DOMAIN table
  BY DEF ObjectOK
<1> DEFINE o   == f.obj
           new == Updated(table, o)
<1>3. /\ new \in Seq(Row)
      /\ DOMAIN new = DOMAIN table
      /\ \A i \in DOMAIN table \ {o.id} : new[i] = table[i]
      /\ new[o.id].chat_id = table[o.id].chat_id
      /\ new[o.id].state =
           IF "state" \in o.dirty THEN o.row.state ELSE table[o.id].state
      /\ new[o.id].answers["phrase"] =
           IF "phrase" \in o.dirty THEN o.row.answers["phrase"]
                                   ELSE table[o.id].answers["phrase"]
  BY <1>1, <1>2, UpdatedTable
<1>4. /\ table[o.id].chat_id = f.chat
      /\ "phrase" \in o.dirty => o.row.answers["phrase"] # NoText
      /\ "state" \in o.dirty /\ o.row.state = Completed
           => \/ "phrase" \in o.dirty
              \/ table[o.id].answers["phrase"] # NoText
  BY DEF ObjectOK
<1> HIDE DEF new, o
<1>5. Grows(table, new)
  BY <1>3, <1>4 DEF Grows
<1>6. CompletedOK(new)
  <2> SUFFICES ASSUME NEW i \in DOMAIN new, new[i].state = Completed
               PROVE  new[i].answers["phrase"] # NoText
    BY DEF CompletedOK
  <2>1. CASE i = o.id
    BY <2>1, <1>2, <1>3, <1>4 DEF CompletedOK, o
  <2>2. CASE i # o.id
    BY <2>2, <1>3 DEF CompletedOK
  <2> QED
    BY <2>1, <2>2
<1> QED
  BY <1>2, <1>3, <1>4, <1>5, <1>6 DEF new, o

(* INSERT loses nothing and adds a row of the chat.                        *)
LEMMA InsertedGrows ==
  ASSUME NEW table \in Seq(Row), NEW c \in Chats, CompletedOK(table)
  PROVE  /\ Grows(table, Inserted(table, c))
         /\ CompletedOK(Inserted(table, c))
         /\ Len(Inserted(table, c)) \in DOMAIN Inserted(table, c)
         /\ Inserted(table, c)[Len(Inserted(table, c))].chat_id = c
<1> DEFINE r == [chat_id |-> c, state |-> WaitingName, message_id |-> 0,
                 answers |-> Blank]
<1>1. r \in Row
  BY CompletedIsLast, StatesAreNaturals DEF Row, Answers, Blank
<1>2. Inserted(table, c) = Append(table, r)
  BY DEF Inserted
<1>3. r.state # Completed /\ r.chat_id = c
  BY CompletedIsLast
<1> HIDE DEF r
<1>4. /\ Inserted(table, c) \in Seq(Row)
      /\ Len(Inserted(table, c)) = Len(table) + 1
      /\ \A i \in 1..Len(table) : Inserted(table, c)[i] = table[i]
      /\ Inserted(table, c)[Len(table) + 1] = r
  BY <1>1, <1>2, AppendProperties
<1>5. /\ DOMAIN table = 1..Len(table)
      /\ DOMAIN Inserted(table, c) = 1..(Len(table) + 1)
      /\ Len(table) \in Nat
  BY <1>4, LenProperties
<1> QED
  BY <1>3, <1>4, <1>5 DEF Grows, CompletedOK

(* What a coroutine relies on survives the writes of the others. *)
LEMMA PhrasedGrows ==
  ASSUME NEW table, NEW new, Grows(table, new), NEW c, Phrased(table, c)
  PROVE  Phrased(new, c)
BY DEF Grows, Phrased

(* A coroutine in order stays so while others write to the table.          *)
LEMMA FrameGrows ==
  ASSUME NEW table, NEW new, Grows(table, new), NEW f, FrameOK(table, f)
  PROVE  FrameOK(new, f)
<1>1. ObjectOK(new, f)
  BY DEF Grows, FrameOK, ObjectOK
<1> QED
  BY <1>1, PhrasedGrows DEF FrameOK

(* A table that is left alone loses nothing.                               *)
LEMMA GrowsRefl ==
  ASSUME NEW table \in Seq(Row) PROVE Grows(table, table)
BY DEF Grows

-----------------------------------------------------------------------------
(* The runtime: what an await does to the invariant. *)

(* An idle coroutine holds nothing to write. *)
LEMMA NoFrameOK ==
  /\ NoFrame \in Frame
  /\ \A table : FrameOK(table, NoFrame)
<1>1. AnyChat \in Chats
  BY ChatAssumption DEF AnyChat
<1>2. NoFrame \in Frame
  BY <1>1, CompletedIsLast, StatesAreNaturals
  DEF NoFrame, NoObject, Frame, Object, Row, Answers, Blank
<1>3. NoFrame.pc = "idle"
  BY DEF NoFrame
<1> QED
  BY <1>2, <1>3 DEF FrameOK, ObjectOK, Concluding, Holding, FormAwaits

(* The chats are in order: thanks only where a phrase is stored. *)
ChatsOK(table, chats) ==
  \A c \in Chats : \A m \in DOMAIN chats[c] :
    chats[c][m].kind = "thanks" => Phrased(table, c)

(* A step keeps the invariant if the table, the chats and every frame it   *)
(* changes are in order afterwards.                                        *)
LEMMA StepInv ==
  ASSUME IInv,
         Grows(registrations, registrations'), CompletedOK(registrations'),
         messages' \in [Chats -> Seq(Message)],
         ChatsOK(registrations', messages'),
         frame' \in [Tasks -> Frame],
         \A t \in Tasks : \/ frame'[t] = frame[t]
                          \/ FrameOK(registrations', frame'[t]),
         up' \in BOOLEAN, faults' \in 0..MaxFaults, updates' \in 0..MaxUpdates
  PROVE  IInv'
<1>1. BotTypeOK'
  BY DEF BotTypeOK, TypeOK, Grows
<1>2. CompletedHasPhrase'
  BY DEF CompletedHasPhrase, CompletedOK
<1>3. ThankedOnlyAfterSaved'
  BY DEF ThankedOnlyAfterSaved, HasPhrase, ChatsOK, Phrased
<1>4. \A t \in Tasks : FrameOK(registrations', frame'[t])
  BY FrameGrows DEF IInv
<1> QED
  BY <1>1, <1>2, <1>3, <1>4 DEF IInv

(* The parts of the invariant, as the later steps cite them.               *)
LEMMA IInvFacts ==
  ASSUME IInv
  PROVE  /\ registrations \in Seq(Row)
         /\ messages \in [Chats -> Seq(Message)]
         /\ frame \in [Tasks -> Frame]
         /\ up \in BOOLEAN
         /\ faults \in 0..MaxFaults
         /\ updates \in 0..MaxUpdates
         /\ CompletedOK(registrations)
         /\ ChatsOK(registrations, messages)
         /\ \A t \in Tasks : FrameOK(registrations, frame[t])
         /\ Grows(registrations, registrations)
<1>1. registrations \in Seq(Row)
  BY DEF IInv, BotTypeOK, TypeOK
<1>2. ChatsOK(registrations, messages)
  BY DEF IInv, ThankedOnlyAfterSaved, HasPhrase, ChatsOK, Phrased
<1> QED
  BY <1>1, <1>2, GrowsRefl
  DEF IInv, BotTypeOK, TypeOK, CompletedHasPhrase, CompletedOK

(* The chats stay in order while the table grows. *)
LEMMA ChatsGrow ==
  ASSUME NEW table, NEW new, Grows(table, new), NEW chats,
         ChatsOK(table, chats)
  PROVE  ChatsOK(new, chats)
BY PhrasedGrows DEF ChatsOK

(* Resuming one coroutine moves no other.                                  *)
LEMMA ResumeFrames ==
  ASSUME IInv, NEW t \in Tasks, NEW f \in Frame, Resume(t, f)
  PROVE  /\ frame' \in [Tasks -> Frame]
         /\ frame'[t] = f
         /\ \A u \in Tasks : u # t => frame'[u] = frame[u]
BY IInvFacts DEF Resume

(* An exception ends one handler or all of them. *)
LEMMA ThrowFrames ==
  ASSUME IInv, NEW t \in Tasks, NEW catching, Throw(t, catching)
  PROVE  /\ frame' \in [Tasks -> Frame]
         /\ \A u \in Tasks : frame'[u] = frame[u] \/ frame'[u] = NoFrame
         /\ up' \in BOOLEAN
<1>1. CASE Finish(t) /\ UNCHANGED up
  BY <1>1, NoFrameOK, ResumeFrames, IInvFacts DEF Finish
<1>2. CASE Terminate
  BY <1>2, NoFrameOK DEF Terminate
<1> QED
  BY <1>1, <1>2 DEF Throw

(* A counted fault stays within the bound.                                 *)
LEMMA FaultCount ==
  ASSUME IInv, Fault PROVE faults' \in 0..MaxFaults
BY IInvFacts, FaultAssumption DEF Fault

(* A statement of SQL. *)
LEMMA StatementInv ==
  ASSUME IInv, NEW t \in Tasks, NEW table, NEW f \in Frame,
         Grows(registrations, table), CompletedOK(table),
         FrameOK(table, f), Statement(t, table, f), UNCHANGED updates
  PROVE  IInv'
<1>1. messages' = messages /\ updates' = updates
  BY DEF Statement
<1>2. CASE registrations' = table /\ Resume(t, f) /\ UNCHANGED <<up, faults>>
  <2>1. /\ frame' \in [Tasks -> Frame]
        /\ \A u \in Tasks : frame'[u] = frame[u] \/ FrameOK(table, frame'[u])
    BY <1>2, ResumeFrames
  <2> QED
    BY <1>1, <1>2, <2>1, IInvFacts, ChatsGrow, StepInv
<1>3. CASE Fault /\ Throw(t, CatchesDatabase) /\ UNCHANGED registrations
  <2>1. /\ frame' \in [Tasks -> Frame]
        /\ \A u \in Tasks : \/ frame'[u] = frame[u]
                            \/ FrameOK(registrations, frame'[u])
        /\ up' \in BOOLEAN
    BY <1>3, ThrowFrames, NoFrameOK
  <2> QED
    BY <1>1, <1>3, <2>1, IInvFacts, FaultCount, StepInv
<1> QED
  BY <1>2, <1>3 DEF Statement

(* A write of the object the coroutine holds. *)
LEMMA UpdateInv ==
  ASSUME IInv, NEW t \in Tasks, frame[t].pc \in Holding, NEW f \in Frame,
         FrameOK(Updated(registrations, frame[t].obj), f),
         Update(t, f), UNCHANGED updates
  PROVE  IInv'
<1>1. frame[t] \in Frame /\ ObjectOK(registrations, frame[t])
  BY IInvFacts DEF FrameOK
<1>2. /\ Grows(registrations, Updated(registrations, frame[t].obj))
      /\ CompletedOK(Updated(registrations, frame[t].obj))
  BY <1>1, IInvFacts, UpdatedGrows
<1> QED
  BY <1>2, StatementInv DEF Update

(* A request to the Bot API.  The chat it goes to is the coroutine's. *)
LEMMA ApiInv ==
  ASSUME IInv, NEW t \in Tasks, NEW accepted, NEW log, NEW f \in Frame,
         accepted => /\ log \in Seq(Message)
                     /\ \A m \in DOMAIN log :
                          log[m].kind = "thanks"
                            => Phrased(registrations, frame[t].chat)
                     /\ FrameOK(registrations, f),
         Api(t, accepted, log, f), UNCHANGED updates
  PROVE  IInv'
<1> DEFINE Carry == messages' = [messages EXCEPT ![frame[t].chat] = log]
<1>1. registrations' = registrations /\ updates' = updates
  BY DEF Api
<1>2. frame[t].chat \in Chats
  BY IInvFacts DEF Frame
<1>3. ASSUME accepted, Carry
      PROVE  /\ messages' \in [Chats -> Seq(Message)]
             /\ ChatsOK(registrations, messages')
  <2>1. /\ messages' \in [Chats -> Seq(Message)]
        /\ messages'[frame[t].chat] = log
        /\ \A c \in Chats : c # frame[t].chat => messages'[c] = messages[c]
    BY <1>2, <1>3, IInvFacts
  <2> QED
    BY <1>3, <2>1, IInvFacts DEF ChatsOK
<1>4. CASE accepted /\ Carry /\ Resume(t, f) /\ UNCHANGED <<up, faults>>
  <2>1. /\ frame' \in [Tasks -> Frame]
        /\ \A u \in Tasks : \/ frame'[u] = frame[u]
                            \/ FrameOK(registrations, frame'[u])
    BY <1>4, ResumeFrames
  <2> QED
    BY <1>1, <1>3, <1>4, <2>1, IInvFacts, StepInv
<1>5. CASE /\ ~accepted
           /\ Throw(t, CatchesTelegram)
           /\ UNCHANGED <<messages, faults>>
  <2>1. /\ frame' \in [Tasks -> Frame]
        /\ \A u \in Tasks : \/ frame'[u] = frame[u]
                            \/ FrameOK(registrations, frame'[u])
        /\ up' \in BOOLEAN
    BY <1>5, ThrowFrames, NoFrameOK
  <2> QED
    BY <1>1, <1>5, <2>1, IInvFacts, StepInv
<1>6. CASE /\ Fault
           /\ (accepted /\ Carry) \/ UNCHANGED messages
           /\ Throw(t, CatchesTelegram)
  <2>1. /\ frame' \in [Tasks -> Frame]
        /\ \A u \in Tasks : \/ frame'[u] = frame[u]
                            \/ FrameOK(registrations, frame'[u])
        /\ up' \in BOOLEAN
    BY <1>6, ThrowFrames, NoFrameOK
  <2>2. /\ messages' \in [Chats -> Seq(Message)]
        /\ ChatsOK(registrations, messages')
    BY <1>3, <1>6, IInvFacts
  <2> QED
    BY <1>1, <1>6, <2>1, <2>2, IInvFacts, FaultCount, StepInv
<1> QED
  BY <1>4, <1>5, <1>6 DEF Api

(* The chat of a coroutine. *)
LEMMA ChatLog ==
  ASSUME IInv, NEW t \in Tasks
  PROVE  /\ messages[frame[t].chat] \in Seq(Message)
         /\ \A m \in DOMAIN messages[frame[t].chat] :
              messages[frame[t].chat][m].kind = "thanks"
                => Phrased(registrations, frame[t].chat)
<1>1. frame[t].chat \in Chats
  BY IInvFacts DEF Frame
<1> QED
  BY <1>1, IInvFacts DEF ChatsOK

(* A request without effect in the chat keeps the invariant.               *)
LEMMA RequestInv ==
  ASSUME IInv, NEW t \in Tasks, NEW f \in Frame, FrameOK(registrations, f),
         Request(t, f), UNCHANGED updates
  PROVE  IInv'
BY ChatLog, ApiInv DEF Request

(* Sending a message keeps the invariant: thanks need a phrase.            *)
LEMMA SendInv ==
  ASSUME IInv, NEW t \in Tasks, NEW new \in Message, NEW f \in Frame,
         new.kind = "thanks" => Phrased(registrations, frame[t].chat),
         FrameOK(registrations, f), Send(t, new, f), UNCHANGED updates
  PROVE  IInv'
<1> DEFINE old == messages[frame[t].chat]
           log == Append(old, new)
<1>1. /\ log \in Seq(Message)
      /\ \A m \in DOMAIN log : log[m].kind = "thanks"
                                 => Phrased(registrations, frame[t].chat)
  <2>1. /\ old \in Seq(Message)
        /\ \A m \in DOMAIN old :
             old[m].kind = "thanks" => Phrased(registrations, frame[t].chat)
    BY ChatLog
  <2>2. /\ log \in Seq(Message)
        /\ Len(log) = Len(old) + 1
        /\ \A m \in 1..Len(old) : log[m] = old[m]
        /\ log[Len(old) + 1] = new
    BY <2>1, AppendProperties
  <2> HIDE DEF log, old
  <2>3. /\ DOMAIN old = 1..Len(old)
        /\ DOMAIN log = 1..(Len(old) + 1)
        /\ Len(old) \in Nat
    BY <2>1, <2>2, LenProperties
  <2> QED
    BY <2>1, <2>2, <2>3
<1> HIDE DEF log
<1> QED
  BY <1>1, ApiInv DEF Send, log, old

(* Both edits keep a message's place, and neither makes it a thanks. *)
LEMMA EditInv ==
  ASSUME IInv, NEW t \in Tasks, NEW m, NEW new \in Message, NEW f \in Frame,
         new.kind # "thanks",
         FrameOK(registrations, f), Edit(t, m, new, f), UNCHANGED updates
  PROVE  IInv'
<1> DEFINE log == messages[frame[t].chat]
<1>1. log \in Seq(Message)
  BY ChatLog
<1>2. ASSUME CanEdit(log, m, new)
      PROVE  /\ Edited(log, m, new) \in Seq(Message)
             /\ DOMAIN Edited(log, m, new) = DOMAIN log
             /\ \A k \in DOMAIN log :
                  Edited(log, m, new)[k] = IF k = m THEN new ELSE log[k]
  <2>1. m \in 1..Len(log) /\ DOMAIN log = 1..Len(log)
    BY <1>1, <1>2, LenProperties DEF CanEdit
  <2> QED
    BY <1>1, <2>1, ExceptSeq DEF Edited
<1>3. ASSUME CanEdit(log, m, new), NEW k \in DOMAIN Edited(log, m, new),
             Edited(log, m, new)[k].kind = "thanks"
      PROVE  Phrased(registrations, frame[t].chat)
  BY <1>2, <1>3, ChatLog
<1> QED
  BY <1>2, <1>3, ApiInv DEF Edit

(* Removing a keyboard keeps the messages and their kinds.                 *)
LEMMA ClearedLog ==
  ASSUME NEW log \in Seq(Message), NEW m, CanClear(log, m)
  PROVE  /\ Cleared(log, m) \in Seq(Message)
         /\ DOMAIN Cleared(log, m) = DOMAIN log
         /\ \A k \in DOMAIN log : Cleared(log, m)[k].kind = log[k].kind
<1> DEFINE new == [log[m] EXCEPT !.keyboard = "none"]
<1>1. m \in 1..Len(log) /\ DOMAIN log = 1..Len(log)
  BY LenProperties DEF CanClear
<1>2. new \in Message /\ new.kind = log[m].kind
  <2>1. log[m] \in Message
    BY <1>1
  <2> QED
    BY <2>1 DEF Message, Keyboards
<1>3. Cleared(log, m) = [log EXCEPT ![m] = new]
  BY DEF Cleared
<1> HIDE DEF new
<1> QED
  BY <1>1, <1>2, <1>3, ExceptSeq

(* Removing a keyboard keeps the invariant.                                *)
LEMMA ClearInv ==
  ASSUME IInv, NEW t \in Tasks, NEW m, NEW f \in Frame,
         FrameOK(registrations, f), Clear(t, m, f), UNCHANGED updates
  PROVE  IInv'
<1> DEFINE log == messages[frame[t].chat]
<1>1. ASSUME CanClear(log, m)
      PROVE  /\ Cleared(log, m) \in Seq(Message)
             /\ \A k \in DOMAIN Cleared(log, m) :
                  Cleared(log, m)[k].kind = "thanks"
                    => Phrased(registrations, frame[t].chat)
  BY <1>1, ChatLog, ClearedLog
<1> QED
  BY <1>1, ApiInv DEF Clear

-----------------------------------------------------------------------------
(* The handlers. *)

(* The fields of a frame have their types. *)
LEMMA FrameFields ==
  ASSUME NEW f \in Frame
  PROVE  /\ f.pc \in Awaits \cup {"idle"}
         /\ f.chat \in Chats
         /\ f.click \in Nat
         /\ f.text \in Texts \cup {NoText}
         /\ f.step \in States
         /\ f.obj \in Object
BY DEF Frame

(* The object of an unused frame has the type of an object.                *)
LEMMA NoObjectType == NoObject \in Object
BY NoFrameOK, FrameFields DEF NoFrame

(* The object that findByChatId returns to coroutine t. *)
LEMMA FoundObject ==
  ASSUME IInv, NEW t \in Tasks, Found(registrations, frame[t].chat),
         NEW o, o = Snapshot(registrations,
                             TheRow(registrations, frame[t].chat))
  PROVE  /\ o \in Object
         /\ o.id \in DOMAIN registrations
         /\ registrations[o.id].chat_id = frame[t].chat
         /\ o.row = registrations[o.id]
         /\ o.dirty = {}
         /\ o.row.state \in States
         /\ o.row.message_id \in Nat
         /\ o.row.answers \in Answers
         /\ o.row.state = Completed => o.row.answers["phrase"] # NoText
         /\ Phrased(registrations, frame[t].chat)
              <=> o.row.answers["phrase"] # NoText
<1> DEFINE i == TheRow(registrations, frame[t].chat)
<1>1. registrations \in Seq(Row) /\ CompletedOK(registrations)
  BY IInvFacts
<1>2. /\ i \in DOMAIN registrations
      /\ registrations[i].chat_id = frame[t].chat
      /\ \A j \in DOMAIN registrations :
           registrations[j].chat_id = frame[t].chat => j = i
  BY <1>1, FoundRow
<1> HIDE DEF i
<1>3. o \in Object /\ o.id = i /\ o.row = registrations[i] /\ o.dirty = {}
  BY <1>1, <1>2, SnapshotType DEF i
<1>4. registrations[i] \in Row
  BY <1>1, <1>2
<1> QED
  BY <1>1, <1>2, <1>3, <1>4, RowFields DEF CompletedOK, Phrased

(* A coroutine that leaves showFormPrompt is in order.                     *)
LEMMA AfterFormOK ==
  ASSUME IInv, NEW t \in Tasks, frame[t].pc \in FormAwaits
  PROVE  AfterForm(t) \in Frame /\ FrameOK(registrations, AfterForm(t))
<1>1. frame[t] \in Frame /\ FrameOK(registrations, frame[t])
  BY IInvFacts
<1>2. CASE frame[t].step = Completed
  <2> DEFINE f == [frame[t] EXCEPT !.pc = "save.thanks", !.obj = NoObject]
  <2>1. f \in Frame
    BY <1>1, NoObjectType DEF Frame, Awaits, MessageAwaits
  <2>2. f.pc = "save.thanks" /\ f.chat = frame[t].chat
    BY <1>1 DEF Frame
  <2>3. Phrased(registrations, frame[t].chat)
    BY <1>1, <1>2 DEF FrameOK, Concluding
  <2> HIDE DEF f
  <2>4. FrameOK(registrations, f)
    BY <2>2, <2>3 DEF FrameOK, ObjectOK, Holding
  <2> QED
    BY <1>2, <2>1, <2>4 DEF AfterForm, f
<1>3. CASE frame[t].step # Completed
  BY <1>3, NoFrameOK DEF AfterForm
<1> QED
  BY <1>2, <1>3

(* showFormPrompt, the lookup: the object gets the state passed on.        *)
LEMMA FormFindInv ==
  ASSUME IInv, NEW t \in Tasks, FormFind(t), UNCHANGED updates
  PROVE  IInv'
<1>1. /\ frame[t] \in Frame /\ FrameOK(registrations, frame[t])
      /\ frame[t].pc = "form.find"
  BY IInvFacts DEF FormFind, At
<1>2. CASE Found(registrations, frame[t].chat)
  <2> DEFINE o   == Snapshot(registrations,
                             TheRow(registrations, frame[t].chat))
             new == SetState(o, frame[t].step)
             f   == [frame[t] EXCEPT !.pc = "form.update", !.obj = new]
  <2>1. /\ o \in Object
        /\ o.id \in DOMAIN registrations
        /\ registrations[o.id].chat_id = frame[t].chat
        /\ o.row = registrations[o.id]
        /\ o.dirty = {}
        /\ Phrased(registrations, frame[t].chat)
             <=> o.row.answers["phrase"] # NoText
    BY <1>2, FoundObject
  <2> HIDE DEF o
  <2>2. /\ new \in Object
        /\ new.id = o.id
        /\ new.row.state = frame[t].step
        /\ new.dirty = o.dirty \cup {"state"}
    BY <1>1, <2>1, FrameFields, SetStateType
  <2> HIDE DEF new
  <2>3. /\ f \in Frame
        /\ f.pc = "form.update" /\ f.obj = new
        /\ f.chat = frame[t].chat /\ f.step = frame[t].step
    BY <1>1, <2>2 DEF Frame, Awaits, FormAwaits
  <2>4. frame[t].step = Completed => Phrased(registrations, frame[t].chat)
    BY <1>1 DEF FrameOK, Concluding, FormAwaits
  <2>5. FrameOK(registrations, f)
    <3> HIDE DEF f
    <3>1. ObjectOK(registrations, f)
      BY <2>1, <2>2, <2>3, <2>4 DEF ObjectOK
    <3> QED
      BY <2>3, <2>4, <3>1 DEF FrameOK, Concluding
  <2>6. Statement(t, registrations, f)
    BY <1>2 DEF FormFind, FindByChatId, f, new, o
  <2> QED
    BY <2>3, <2>5, <2>6, StatementInv, IInvFacts
<1>3. CASE ~Found(registrations, frame[t].chat)
  <2>1. Statement(t, registrations, AfterForm(t))
    BY <1>3 DEF FormFind, FindByChatId
  <2> QED
    BY <1>1, <2>1, AfterFormOK, StatementInv, IInvFacts DEF FormAwaits
<1> QED
  BY <1>2, <1>3

(* Moving to another await changes nothing but the await.                  *)
LEMMA MovedFrame ==
  ASSUME IInv, NEW t \in Tasks, NEW pc \in Awaits, NEW f,
         f = [frame[t] EXCEPT !.pc = pc]
  PROVE  /\ f \in Frame
         /\ f.pc = pc
         /\ f.chat = frame[t].chat /\ f.click = frame[t].click
         /\ f.text = frame[t].text /\ f.step = frame[t].step
         /\ f.obj = frame[t].obj
<1>1. frame[t] \in Frame
  BY IInvFacts
<1> QED
  BY <1>1 DEF Frame

(* The awaits at which a coroutine neither holds nor promises anything. *)
Quiet ==
  {"idle", "start.find", "start.welcome", "check.member", "check.clear",
   "check.answer", "check.confirm", "check.deny", "want.answer",
   "want.clear", "want.contest", "want.save", "back.find", "back.unknown",
   "back.outdated"}

(* A coroutine at a quiet await is in order whatever the table.            *)
LEMMA QuietFrame ==
  ASSUME NEW table, NEW f, f.pc \in Quiet PROVE FrameOK(table, f)
BY DEF Quiet, FrameOK, ObjectOK, Concluding, Holding, FormAwaits

(* The sets of awaits used here are awaits.                                *)
LEMMA AwaitSets ==
  /\ Quiet \subseteq Awaits \cup {"idle"}
  /\ Holding \subseteq Awaits
  /\ FormAwaits \subseteq Awaits /\ MessageAwaits \subseteq Awaits
BY DEF Quiet, Holding, Awaits, StartAwaits, CheckAwaits, WantAwaits,
       MessageAwaits, BackAwaits, FormAwaits

(* A coroutine that keeps its object while moving on. *)
LEMMA KeepsObject ==
  ASSUME IInv, NEW t \in Tasks, frame[t].pc \in Holding, NEW f,
         f.pc \in Holding \ {"save.update", "back.update", "resume.thanks"},
         f.obj = frame[t].obj, f.chat = frame[t].chat,
         Concluding(f) => Concluding(frame[t])
  PROVE  FrameOK(registrations, f)
<1>1. FrameOK(registrations, frame[t])
  BY IInvFacts
<1>2. ObjectOK(registrations, f)
  BY <1>1 DEF FrameOK, ObjectOK
<1>3. Concluding(f) => Phrased(registrations, f.chat)
  BY <1>1 DEF FrameOK
<1>4. f.pc \notin {"message.find", "save.find", "save.update", "back.update"}
  BY DEF Holding
<1> QED
  BY <1>2, <1>3, <1>4 DEF FrameOK

(* An UPDATE whose frame was in order before keeps the invariant.          *)
LEMMA UpdateKeeps ==
  ASSUME IInv, NEW t \in Tasks, frame[t].pc \in Holding, NEW f \in Frame,
         FrameOK(registrations, f), Update(t, f), UNCHANGED updates
  PROVE  IInv'
<1>1. frame[t] \in Frame /\ ObjectOK(registrations, frame[t])
  BY IInvFacts DEF FrameOK
<1>2. Grows(registrations, Updated(registrations, frame[t].obj))
  BY <1>1, IInvFacts, UpdatedGrows
<1> QED
  BY <1>2, FrameGrows, UpdateInv

(* showFormPrompt, the UPDATE of the state.                                *)
LEMMA FormUpdateInv ==
  ASSUME IInv, NEW t \in Tasks, FormUpdate(t), UNCHANGED updates
  PROVE  IInv'
<1> DEFINE f == [frame[t] EXCEPT !.pc = "form.edit"]
<1>1. frame[t].pc = "form.update" /\ Update(t, f)
  BY DEF FormUpdate, At
<1>2. "form.edit" \in Awaits
  BY AwaitSets DEF FormAwaits
<1> HIDE DEF f
<1>3. /\ f \in Frame /\ f.pc = "form.edit" /\ f.obj = frame[t].obj
      /\ f.chat = frame[t].chat /\ f.step = frame[t].step
  BY <1>2, MovedFrame DEF f
<1>4. FrameOK(registrations, f)
  BY <1>1, <1>3, KeepsObject DEF Concluding, Holding, FormAwaits
<1> QED
  BY <1>1, <1>3, <1>4, UpdateKeeps DEF Holding

(* The messages the bot sends have their type and kind.                    *)
LEMMA MessageTypes ==
  /\ \A s \in States : Prompt(s) \in Message /\ Prompt(s).kind = "prompt"
  /\ \A s \in States, a \in Answers :
       Form(a, s) \in Message /\ Form(a, s).kind = "form"
  /\ Welcome \in Message /\ Welcome.kind = "welcome"
  /\ Confirmed \in Message /\ Confirmed.kind = "confirmed"
  /\ ThankYou \in Message /\ ThankYou.kind = "thanks"
<1>1. WaitingName \in States
  BY CompletedIsLast, StatesAreNaturals
<1>2. Blank \in [Fields -> Texts \cup {NoText, Placeholder}]
  BY DEF Blank
<1>3. ASSUME NEW kind \in Kinds, NEW keyboard \in Keyboards
      PROVE  /\ Notice(kind, keyboard) \in Message
             /\ Notice(kind, keyboard).kind = kind
  BY <1>1, <1>2 DEF Notice, Message
<1>4. ASSUME NEW s \in States
      PROVE  Prompt(s) \in Message /\ Prompt(s).kind = "prompt"
  <2>1. Notice("prompt", "none") \in Message
    BY <1>3 DEF Kinds, Keyboards
  <2> QED
    BY <1>3, <2>1 DEF Prompt, Message, Kinds, Keyboards
<1>5. ASSUME NEW s \in States, NEW a \in Answers
      PROVE  Form(a, s) \in Message /\ Form(a, s).kind = "form"
  <2>1. FormText(a) \in [Fields -> Texts \cup {NoText, Placeholder}]
    BY DEF FormText, Answers
  <2> QED
    BY <1>1, <2>1 DEF Form, Message, Kinds, Keyboards
<1> QED
  BY <1>3, <1>4, <1>5 DEF Welcome, Confirmed, ThankYou, Kinds, Keyboards

(* showFormPrompt, the edit of the form.                                   *)
LEMMA FormEditInv ==
  ASSUME IInv, NEW t \in Tasks, FormEdit(t), UNCHANGED updates
  PROVE  IInv'
<1> DEFINE f   == [frame[t] EXCEPT !.pc = "form.prompt", !.obj = NoObject]
           row == frame[t].obj.row
           new == Form(row.answers, frame[t].step)
<1>1. frame[t].pc = "form.edit" /\ Edit(t, row.message_id, new, f)
  BY DEF FormEdit, At
<1>2. frame[t] \in Frame /\ FrameOK(registrations, frame[t])
  BY IInvFacts
<1>3. new \in Message /\ new.kind # "thanks"
  BY <1>2, FrameFields, ObjectFields, RowFields, MessageTypes
<1> HIDE DEF f, new
<1>4. /\ f \in Frame /\ f.pc = "form.prompt"
      /\ f.chat = frame[t].chat /\ f.step = frame[t].step
  <2>1. "form.prompt" \in Awaits
    BY AwaitSets DEF FormAwaits
  <2> QED
    BY <1>2, <2>1, NoObjectType DEF f, Frame
<1>5. FrameOK(registrations, f)
  BY <1>1, <1>2, <1>4
  DEF FrameOK, ObjectOK, Concluding, Holding, FormAwaits
<1> QED
  BY <1>1, <1>3, <1>4, <1>5, EditInv

(* showFormPrompt, the prompt.                                             *)
LEMMA FormPromptInv ==
  ASSUME IInv, NEW t \in Tasks, FormPrompt(t), UNCHANGED updates
  PROVE  IInv'
<1>1. frame[t].pc \in FormAwaits /\ frame[t] \in Frame
  BY IInvFacts DEF FormPrompt, At, FormAwaits
<1>2. Send(t, Prompt(frame[t].step), AfterForm(t))
  BY DEF FormPrompt
<1> QED
  BY <1>1, <1>2, FrameFields, MessageTypes, AfterFormOK, SendInv

(* "want to participate" *)

(* An update that starts a handler which holds no object. *)
LEMMA QuietRequest ==
  ASSUME IInv, NEW t \in Tasks, NEW pc \in Quiet \ {"idle"},
         Request(t, [frame[t] EXCEPT !.pc = pc]), UNCHANGED updates
  PROVE  IInv'
<1> DEFINE f == [frame[t] EXCEPT !.pc = pc]
<1>1. pc \in Awaits
  BY AwaitSets
<1> HIDE DEF f
<1>2. f \in Frame /\ f.pc = pc
  BY <1>1, MovedFrame DEF f
<1> QED
  BY <1>2, QuietFrame, RequestInv DEF f

(* Removing a keyboard on the way to a quiet await.                        *)
LEMMA QuietClear ==
  ASSUME IInv, NEW t \in Tasks, NEW pc \in Quiet \ {"idle"}, NEW m,
         Clear(t, m, [frame[t] EXCEPT !.pc = pc]), UNCHANGED updates
  PROVE  IInv'
<1> DEFINE f == [frame[t] EXCEPT !.pc = pc]
<1>1. pc \in Awaits
  BY AwaitSets
<1> HIDE DEF f
<1>2. f \in Frame /\ f.pc = pc
  BY <1>1, MovedFrame DEF f
<1> QED
  BY <1>2, QuietFrame, ClearInv DEF f

(* requestFullName, the INSERT and its two ways to fail.                   *)
LEMMA WantSaveInv ==
  ASSUME IInv, NEW t \in Tasks, WantSave(t), UNCHANGED updates
  PROVE  IInv'
<1> DEFINE table == Inserted(registrations, frame[t].chat)
           o     == Snapshot(table, Len(table))
           saved == [frame[t] EXCEPT !.pc = "want.prompt", !.obj = o]
<1>1. frame[t] \in Frame /\ frame[t].chat \in Chats
  BY IInvFacts, FrameFields
<1> HIDE DEF table
<1>2. /\ Grows(registrations, table)
      /\ CompletedOK(table)
      /\ Len(table) \in DOMAIN table
      /\ table[Len(table)].chat_id = frame[t].chat
  BY <1>1, IInvFacts, InsertedGrows DEF table
<1>3. o \in Object /\ o.id = Len(table) /\ o.dirty = {}
  BY <1>2, SnapshotType DEF Grows
<1> HIDE DEF o
<1>4. CASE Statement(t, table, saved)
  <2>1. "want.prompt" \in Awaits
    BY DEF Awaits, WantAwaits
  <2>2. /\ saved \in Frame /\ saved.pc = "want.prompt"
        /\ saved.chat = frame[t].chat /\ saved.obj = o
    BY <1>1, <1>3, <2>1 DEF Frame
  <2> HIDE DEF saved
  <2>3. FrameOK(table, saved)
    BY <1>2, <1>3, <2>2 DEF FrameOK, ObjectOK, Concluding, FormAwaits
  <2> QED
    BY <1>2, <1>4, <2>2, <2>3, StatementInv
<1>5. CASE /\ Fault
           /\ registrations' = table
           /\ Throw(t, CatchesDatabase)
           /\ UNCHANGED messages
  <2>1. /\ frame' \in [Tasks -> Frame]
        /\ \A u \in Tasks : frame'[u] = frame[u] \/ FrameOK(table, frame'[u])
        /\ up' \in BOOLEAN
    BY <1>5, ThrowFrames, NoFrameOK
  <2>2. ChatsOK(table, messages)
    BY <1>2, IInvFacts, ChatsGrow
  <2> QED
    BY <1>2, <1>5, <2>1, <2>2, IInvFacts, FaultCount, StepInv
<1> QED
  BY <1>4, <1>5 DEF WantSave, saved, o, table

(* The id of the next message is a number.                                 *)
LEMMA NextMessageId ==
  ASSUME IInv, NEW t \in Tasks
  PROVE  Len(messages[frame[t].chat]) + 1 \in Nat
BY ChatLog, LenProperties

(* A message is sent and its id set in the object held. *)
LEMMA SendSetsId ==
  ASSUME IInv, NEW t \in Tasks, frame[t].pc \in Holding, NEW m \in Nat,
         NEW pc \in {"want.update", "resume.update"}, NEW new \in Message,
         new.kind # "thanks",
         Send(t, new, [frame[t] EXCEPT
                         !.pc = pc, !.obj = SetMessageId(frame[t].obj, m)]),
         UNCHANGED updates
  PROVE  IInv'
<1> DEFINE o == SetMessageId(frame[t].obj, m)
           f == [frame[t] EXCEPT !.pc = pc, !.obj = o]
<1>1. /\ frame[t] \in Frame /\ frame[t].obj \in Object
      /\ ObjectOK(registrations, frame[t])
  BY IInvFacts, FrameFields DEF FrameOK
<1>2. /\ o \in Object
      /\ o.id = frame[t].obj.id
      /\ o.row.state = frame[t].obj.row.state
      /\ o.row.answers = frame[t].obj.row.answers
      /\ o.dirty = frame[t].obj.dirty \cup {"message_id"}
  BY <1>1, SetMessageIdType
<1> HIDE DEF o
<1>3. pc \in Awaits
  BY DEF Awaits, WantAwaits, StartAwaits
<1>4. /\ f \in Frame /\ f.pc = pc
      /\ f.chat = frame[t].chat /\ f.obj = o
  BY <1>1, <1>2, <1>3 DEF Frame
<1> HIDE DEF f
<1>5. ObjectOK(registrations, f)
  BY <1>1, <1>2, <1>4 DEF ObjectOK
<1>6. FrameOK(registrations, f)
  BY <1>4, <1>5 DEF FrameOK, Concluding, FormAwaits
<1> QED
  BY <1>4, <1>6, SendInv DEF f, o

(* answerWantParticipateQuery keeps the invariant.                         *)
LEMMA WantInv ==
  ASSUME IInv, NEW t \in Tasks, AnswerWantParticipateQuery(t),
         UNCHANGED updates
  PROVE  IInv'
<1>1. CASE WantAnswer(t)
  BY <1>1, QuietRequest DEF WantAnswer, Quiet
<1>2. CASE WantClear(t)
  BY <1>2, QuietClear DEF WantClear, Quiet
<1>3. CASE WantContest(t)
  BY <1>3, QuietRequest DEF WantContest, Quiet
<1>4. CASE WantSave(t)
  BY <1>4, WantSaveInv
<1>5. CASE WantPrompt(t)
  <2>1. frame[t].pc \in Holding
    BY <1>5 DEF WantPrompt, At, Holding
  <2>2. Prompt(WaitingName) \in Message /\ Prompt(WaitingName).kind # "thanks"
    BY MessageTypes, CompletedIsLast, StatesAreNaturals
  <2> QED
    BY <1>5, <2>1, <2>2, NextMessageId, SendSetsId DEF WantPrompt
<1>6. CASE WantUpdate(t)
  <2>1. frame[t].pc \in Holding
    BY <1>6 DEF WantUpdate, At, Holding
  <2> QED
    BY <1>6, <2>1, NoFrameOK, UpdateKeeps DEF WantUpdate
<1> QED
  BY <1>1, <1>2, <1>3, <1>4, <1>5, <1>6 DEF AnswerWantParticipateQuery

(* showFormPrompt keeps the invariant.                                     *)
LEMMA ShowFormPromptInv ==
  ASSUME IInv, NEW t \in Tasks, ShowFormPrompt(t), UNCHANGED updates
  PROVE  IInv'
BY FormFindInv, FormUpdateInv, FormEditInv, FormPromptInv DEF ShowFormPrompt

(* An answer. *)

(* The row for an answer is read: the answer goes on to be saved, or ends
   at a completed registration. *)
LEMMA MessageFindInv ==
  ASSUME IInv, NEW t \in Tasks, MessageFind(t), UNCHANGED updates
  PROVE  IInv'
<1> DEFINE o == Snapshot(registrations,
                         TheRow(registrations, frame[t].chat))
           f == [frame[t] EXCEPT !.pc = "save.find", !.step = o.row.state]
           g == IF o.row.state = Completed THEN NoFrame ELSE f
<1>1. frame[t] \in Frame /\ frame[t].text \in Texts
  BY IInvFacts DEF MessageFind, At, FrameOK
<1>2. CASE Found(registrations, frame[t].chat)
  <2>1. o.row.state \in States
    BY <1>2, FoundObject
  <2>2. Statement(t, registrations, g)
    BY <1>2 DEF MessageFind, FindByChatId
  <2> HIDE DEF o
  <2>3. f \in Frame /\ f.pc = "save.find" /\ f.text = frame[t].text
    BY <1>1, <2>1 DEF Frame, Awaits, MessageAwaits
  <2> HIDE DEF f
  <2>4. FrameOK(registrations, f)
    BY <1>1, <2>3
    DEF FrameOK, ObjectOK, Concluding, Holding, FormAwaits
  <2>5. g \in Frame /\ FrameOK(registrations, g)
    BY <2>3, <2>4, NoFrameOK
  <2> HIDE DEF g
  <2> QED
    BY <2>2, <2>5, IInvFacts, StatementInv
<1>3. CASE ~Found(registrations, frame[t].chat)
  <2>1. Statement(t, registrations, NoFrame)
    BY <1>3 DEF MessageFind, FindByChatId
  <2> QED
    BY <2>1, NoFrameOK, IInvFacts, StatementInv
<1> QED
  BY <1>2, <1>3

(* What save<Answer> sets: a phrase only if it is not empty, and the state *)
(* Completed only with a phrase.                                           *)
LEMMA SavedAnswerWrites ==
  ASSUME NEW o \in Object, o.dirty = {}, NEW s \in States, NEW x \in Texts,
         NEW new, new = SavedAnswer(o, s, x)
  PROVE  /\ new \in Object
         /\ new.id = o.id
         /\ "phrase" \in new.dirty => new.row.answers["phrase"] # NoText
         /\ "state" \in new.dirty => "phrase" \in new.dirty
         /\ FieldOf(s) = "phrase" => "phrase" \in new.dirty
<1> DEFINE a == SetAnswer(o, FieldOf(s), x)
<1>1. FieldOf(s) \in Fields /\ "state" \notin Fields
  BY FieldOfType DEF Fields
<1>2. x # NoText
  BY TextAssumption
<1>3. o.row.answers \in Answers
  BY ObjectFields, RowFields
<1>4. /\ a \in Object /\ a.id = o.id
      /\ a.row.answers = [o.row.answers EXCEPT ![FieldOf(s)] = x]
      /\ a.dirty = o.dirty \cup {FieldOf(s)}
  BY <1>1, SetAnswerType
<1> HIDE DEF a
<1>5. FieldOf(s) = "phrase" => a.row.answers["phrase"] = x
  BY <1>1, <1>3, <1>4 DEF Answers
<1>6. CASE s = WaitingPhrase
  <2>1. new = SetState(a, Completed)
    BY <1>6 DEF SavedAnswer, a
  <2>2. Completed \in States
    BY CompletedIsLast
  <2>3. /\ new \in Object /\ new.id = a.id
        /\ new.row.answers = a.row.answers
        /\ new.dirty = a.dirty \cup {"state"}
    <3>1. a \in Object
      BY <1>4
    <3> QED
      BY <2>1, <2>2, <3>1, SetStateType
  <2>4. FieldOf(s) = "phrase"
    BY <1>6 DEF FieldOf, WaitingPhrase, WaitingName, WaitingCompanyName,
                WaitingCompanyPosition
  <2> QED
    BY <1>2, <1>4, <1>5, <2>3, <2>4
<1>7. CASE s # WaitingPhrase
  <2>1. new = a
    BY <1>7 DEF SavedAnswer, a
  <2> QED
    BY <1>1, <1>2, <1>4, <1>5, <2>1
<1> QED
  BY <1>6, <1>7

(* save<Answer>, the second lookup and the object it prepares.             *)
LEMMA SaveFindInv ==
  ASSUME IInv, NEW t \in Tasks, SaveFind(t), UNCHANGED updates
  PROVE  IInv'
<1> DEFINE o   == Snapshot(registrations,
                           TheRow(registrations, frame[t].chat))
           new == SavedAnswer(o, frame[t].step, frame[t].text)
           f   == [frame[t] EXCEPT !.pc = "save.update", !.obj = new]
           g   == IF o.row.state # frame[t].step THEN NoFrame ELSE f
<1>1. /\ frame[t] \in Frame /\ frame[t].text \in Texts
      /\ frame[t].step \in States
  BY IInvFacts, FrameFields DEF SaveFind, At, FrameOK
<1>2. CASE Found(registrations, frame[t].chat)
  <2>1. /\ o \in Object /\ o.dirty = {}
        /\ o.id \in DOMAIN registrations
        /\ registrations[o.id].chat_id = frame[t].chat
    BY <1>2, FoundObject
  <2>2. Statement(t, registrations, g)
    BY <1>2 DEF SaveFind, FindByChatId
  <2> HIDE DEF o
  <2>3. /\ new \in Object
        /\ new.id = o.id
        /\ "phrase" \in new.dirty => new.row.answers["phrase"] # NoText
        /\ "state" \in new.dirty => "phrase" \in new.dirty
        /\ FieldOf(frame[t].step) = "phrase" => "phrase" \in new.dirty
    BY <1>1, <2>1, SavedAnswerWrites
  <2> HIDE DEF new
  <2>4. /\ f \in Frame /\ f.pc = "save.update" /\ f.obj = new
        /\ f.chat = frame[t].chat /\ f.step = frame[t].step
    BY <1>1, <2>3 DEF Frame, Awaits, MessageAwaits
  <2> HIDE DEF f
  <2>5. ObjectOK(registrations, f)
    BY <2>1, <2>3, <2>4 DEF ObjectOK
  <2>6. NextState(f.step) = Completed => "phrase" \in f.obj.dirty
    BY <1>1, <2>3, <2>4, NextStateCompleted
  <2>7. FrameOK(registrations, f)
    BY <2>4, <2>5, <2>6 DEF FrameOK, Concluding, FormAwaits
  <2>8. g \in Frame /\ FrameOK(registrations, g)
    BY <2>4, <2>7, NoFrameOK
  <2> HIDE DEF g
  <2> QED
    BY <2>2, <2>8, IInvFacts, StatementInv
<1>3. CASE ~Found(registrations, frame[t].chat)
  <2>1. Statement(t, registrations, NoFrame)
    BY <1>3 DEF SaveFind, FindByChatId
  <2> QED
    BY <2>1, NoFrameOK, IInvFacts, StatementInv
<1> QED
  BY <1>2, <1>3

(* Once savePhrase has written, the chat has a phrase. *)
LEMMA SaveUpdateInv ==
  ASSUME IInv, NEW t \in Tasks, SaveUpdate(t), UNCHANGED updates
  PROVE  IInv'
<1> DEFINE s   == NextState(frame[t].step)
           f   == [frame[t] EXCEPT !.pc = "form.find", !.step = s,
                                   !.text = NoText, !.obj = NoObject]
           new == Updated(registrations, frame[t].obj)
<1>1. frame[t].pc = "save.update" /\ Update(t, f)
  BY DEF SaveUpdate, At
<1>2. /\ frame[t] \in Frame /\ FrameOK(registrations, frame[t])
      /\ registrations \in Seq(Row) /\ CompletedOK(registrations)
  BY IInvFacts
<1>3. s \in States
  BY CompletedIsLast DEF NextState, States, Waiting
<1>4. /\ f \in Frame /\ f.pc = "form.find" /\ f.chat = frame[t].chat
      /\ f.step = s
  BY <1>2, <1>3, NoObjectType DEF Frame, Awaits, FormAwaits
<1>5. frame[t].pc \in Holding /\ ObjectOK(registrations, frame[t])
  BY <1>1, <1>2 DEF Holding, FrameOK
<1>6. /\ frame[t].obj.id \in DOMAIN new
      /\ new[frame[t].obj.id].chat_id = frame[t].chat
      /\ "phrase" \in frame[t].obj.dirty
           => new[frame[t].obj.id].answers["phrase"] # NoText
  BY <1>2, <1>5, UpdatedGrows
<1>7. s = Completed => "phrase" \in frame[t].obj.dirty
  BY <1>1, <1>2 DEF FrameOK
<1> HIDE DEF f, s, new
<1>8. s = Completed => Phrased(new, frame[t].chat)
  BY <1>6, <1>7 DEF Phrased
<1>9. FrameOK(new, f)
  BY <1>4, <1>8 DEF FrameOK, ObjectOK, Concluding, Holding
<1> QED
  BY <1>1, <1>4, <1>5, <1>9, UpdateInv DEF new

(* completeFormCreation keeps the invariant.                               *)
LEMMA SaveThanksInv ==
  ASSUME IInv, NEW t \in Tasks, SaveThanks(t), UNCHANGED updates
  PROVE  IInv'
<1>1. frame[t].pc = "save.thanks" /\ Send(t, ThankYou, NoFrame)
  BY DEF SaveThanks, At
<1>2. Phrased(registrations, frame[t].chat)
  BY <1>1, IInvFacts DEF FrameOK, Concluding
<1> QED
  BY <1>1, <1>2, MessageTypes, NoFrameOK, SendInv

(* processMessage keeps the invariant.                                     *)
LEMMA ProcessMessageInv ==
  ASSUME IInv, NEW t \in Tasks, ProcessMessage(t), UNCHANGED updates
  PROVE  IInv'
BY MessageFindInv, SaveFindInv, SaveUpdateInv, SaveThanksInv
DEF ProcessMessage

(* "back" *)

(* The row for a step back is read: outdated, or on with its snapshot. *)
LEMMA BackFindInv ==
  ASSUME IInv, NEW t \in Tasks, BackFind(t), UNCHANGED updates
  PROVE  IInv'
<1> DEFINE o  == Snapshot(registrations,
                          TheRow(registrations, frame[t].chat))
           f1 == [frame[t] EXCEPT !.pc = "back.outdated"]
           f2 == [frame[t] EXCEPT !.pc = "back.answer", !.obj = o]
           g  == IF frame[t].click # o.row.message_id THEN f1 ELSE f2
           f3 == [frame[t] EXCEPT !.pc = "back.unknown"]
<1>1. frame[t] \in Frame
  BY IInvFacts
<1>2. /\ f1 \in Frame /\ FrameOK(registrations, f1)
      /\ f3 \in Frame /\ FrameOK(registrations, f3)
  <2>1. f1 \in Frame /\ f1.pc \in Quiet
    BY <1>1 DEF Frame, Awaits, BackAwaits, Quiet
  <2>2. f3 \in Frame /\ f3.pc \in Quiet
    BY <1>1 DEF Frame, Awaits, BackAwaits, Quiet
  <2> QED
    BY <2>1, <2>2, QuietFrame
<1>3. CASE Found(registrations, frame[t].chat)
  <2>1. /\ o \in Object /\ o.dirty = {}
        /\ o.id \in DOMAIN registrations
        /\ registrations[o.id].chat_id = frame[t].chat
    BY <1>3, FoundObject
  <2>2. Statement(t, registrations, g)
    BY <1>3 DEF BackFind, FindByChatId
  <2> HIDE DEF o
  <2>3. /\ f2 \in Frame /\ f2.pc = "back.answer" /\ f2.obj = o
        /\ f2.chat = frame[t].chat
    BY <1>1, <2>1 DEF Frame, Awaits, BackAwaits
  <2> HIDE DEF f1, f2, f3
  <2>4. FrameOK(registrations, f2)
    BY <2>1, <2>3 DEF FrameOK, ObjectOK, Concluding, FormAwaits
  <2>5. g \in Frame /\ FrameOK(registrations, g)
    BY <1>2, <2>3, <2>4
  <2> HIDE DEF g
  <2> QED
    BY <2>2, <2>5, IInvFacts, StatementInv
<1>4. CASE ~Found(registrations, frame[t].chat)
  <2>1. Statement(t, registrations, f3)
    BY <1>4 DEF BackFind, FindByChatId
  <2> HIDE DEF f1, f3
  <2> QED
    BY <1>2, <2>1, IInvFacts, StatementInv
<1> QED
  BY <1>3, <1>4

(* A step back writes no phrase and never the state Completed. *)
LEMMA SteppedBackWrites ==
  ASSUME NEW o \in Object, CanGoBack(o.row.state), NEW new, new = SteppedBack(o)
  PROVE  /\ new \in Object
         /\ new.id = o.id
         /\ new.row.state # Completed
         /\ "phrase" \in new.dirty => "phrase" \in o.dirty
         /\ new.row.answers["phrase"] = o.row.answers["phrase"]
<1> DEFINE s == PrevState(o.row.state)
           a == SetState(o, s)
<1>1. o.row.state \in States /\ o.row.answers \in Answers
  BY ObjectFields, RowFields
<1>2. s \in Waiting \ {WaitingPhrase} /\ s \in States /\ s # Completed
  BY <1>1, PrevStateStep, StatesAreNaturals, CompletedIsLast
<1> HIDE DEF s
<1>3. FieldOf(s) # "phrase" /\ FieldOf(s) \in Fields /\ "phrase" \in Fields
  BY <1>2, FieldOfPhrase, FieldOfType DEF Fields
<1>4. /\ a \in Object /\ a.id = o.id
      /\ a.row.state = s /\ a.row.answers = o.row.answers
      /\ a.dirty = o.dirty \cup {"state"}
  BY <1>2, SetStateType
<1> HIDE DEF a
<1>5. new = SetAnswer(a, FieldOf(s), NoText)
  BY DEF SteppedBack, a, s
<1>6. /\ new \in Object /\ new.id = a.id
      /\ new.row.state = a.row.state
      /\ new.row.answers = [a.row.answers EXCEPT ![FieldOf(s)] = NoText]
      /\ new.dirty = a.dirty \cup {FieldOf(s)}
  <2>1. a \in Object /\ NoText \in Texts \cup {NoText}
    BY <1>4
  <2> QED
    BY <1>3, <1>5, <2>1, SetAnswerType
<1> QED
  BY <1>1, <1>2, <1>3, <1>4, <1>6 DEF Answers

(* replyBackQuery, from the answered query to the stepped back object.     *)
LEMMA BackAnswerInv ==
  ASSUME IInv, NEW t \in Tasks, BackAnswer(t), UNCHANGED updates
  PROVE  IInv'
<1> DEFINE o   == frame[t].obj
           new == SteppedBack(o)
           s   == PrevState(o.row.state)
           f   == [frame[t] EXCEPT !.pc = "back.update", !.step = s,
                                   !.obj = new]
<1>1. frame[t] \in Frame /\ o \in Object /\ o.row.state \in States
  BY IInvFacts, FrameFields, ObjectFields, RowFields
<1>2. ObjectOK(registrations, frame[t]) /\ frame[t].pc = "back.answer"
  BY IInvFacts DEF BackAnswer, At, FrameOK
<1>3. CASE CanGoBack(o.row.state)
  <2>1. Request(t, f)
    BY <1>3 DEF BackAnswer
  <2>2. /\ new \in Object /\ new.id = o.id
        /\ new.row.state # Completed
        /\ "phrase" \in new.dirty => "phrase" \in o.dirty
        /\ new.row.answers["phrase"] = o.row.answers["phrase"]
    BY <1>1, <1>3, SteppedBackWrites
  <2>3. s \in States /\ s # Completed
    BY <1>1, <1>3, PrevStateStep, StatesAreNaturals, CompletedIsLast
  <2> HIDE DEF new, s
  <2>4. /\ f \in Frame /\ f.pc = "back.update" /\ f.obj = new
        /\ f.chat = frame[t].chat /\ f.step = s
    BY <1>1, <2>2, <2>3 DEF Frame, Awaits, BackAwaits
  <2> HIDE DEF f
  <2>5. ObjectOK(registrations, f)
    BY <1>2, <2>2, <2>4 DEF ObjectOK, Holding
  <2>6. FrameOK(registrations, f)
    BY <2>3, <2>4, <2>5 DEF FrameOK, Concluding, FormAwaits
  <2> QED
    BY <2>1, <2>4, <2>6, RequestInv
<1>4. CASE ~CanGoBack(o.row.state)
  <2>1. Request(t, NoFrame)
    BY <1>4 DEF BackAnswer
  <2> QED
    BY <2>1, NoFrameOK, RequestInv
<1> QED
  BY <1>3, <1>4

(* replyBackQuery, the UPDATE.                                             *)
LEMMA BackUpdateInv ==
  ASSUME IInv, NEW t \in Tasks, BackUpdate(t), UNCHANGED updates
  PROVE  IInv'
<1> DEFINE f == [frame[t] EXCEPT !.pc = "form.find", !.obj = NoObject]
<1>1. frame[t].pc = "back.update" /\ Update(t, f)
  BY DEF BackUpdate, At
<1>2. frame[t] \in Frame /\ FrameOK(registrations, frame[t])
  BY IInvFacts
<1>3. /\ f \in Frame /\ f.pc = "form.find" /\ f.step = frame[t].step
  BY <1>2, NoObjectType DEF Frame, Awaits, FormAwaits
<1> HIDE DEF f
<1>4. FrameOK(registrations, f)
  BY <1>1, <1>2, <1>3 DEF FrameOK, ObjectOK, Concluding, Holding
<1> QED
  BY <1>1, <1>3, <1>4, UpdateKeeps DEF Holding

(* replyBackQuery keeps the invariant.                                     *)
LEMMA BackInv ==
  ASSUME IInv, NEW t \in Tasks, ReplyBackQuery(t), UNCHANGED updates
  PROVE  IInv'
<1>1. CASE BackRefuse(t)
  BY <1>1, NoFrameOK, RequestInv DEF BackRefuse
<1> QED
  BY <1>1, BackFindInv, BackAnswerInv, BackUpdateInv DEF ReplyBackQuery

(* /start *)

(* The row for /start is read: resumed if there is one, else the welcome. *)
LEMMA StartFindInv ==
  ASSUME IInv, NEW t \in Tasks, StartFind(t), UNCHANGED updates
  PROVE  IInv'
<1> DEFINE o  == Snapshot(registrations,
                          TheRow(registrations, frame[t].chat))
           pc == IF o.row.state = Completed THEN "resume.thanks"
                 ELSE IF o.row.message_id # 0 THEN "resume.clear"
                 ELSE "resume.form"
           f  == [frame[t] EXCEPT !.obj = o, !.pc = pc]
           g  == [frame[t] EXCEPT !.pc = "start.welcome"]
<1>1. frame[t] \in Frame
  BY IInvFacts
<1>2. CASE Found(registrations, frame[t].chat)
  <2>1. /\ o \in Object /\ o.dirty = {}
        /\ o.id \in DOMAIN registrations
        /\ registrations[o.id].chat_id = frame[t].chat
        /\ o.row.state = Completed => o.row.answers["phrase"] # NoText
        /\ Phrased(registrations, frame[t].chat)
             <=> o.row.answers["phrase"] # NoText
    BY <1>2, FoundObject
  <2>2. Statement(t, registrations, f)
    BY <1>2 DEF StartFind, FindByChatId, ResumeWith
  <2> HIDE DEF o
  <2>3. /\ pc \in {"resume.thanks", "resume.clear", "resume.form"}
        /\ pc = "resume.thanks" => o.row.state = Completed
    OBVIOUS
  <2> HIDE DEF pc
  <2>4. f \in Frame /\ f.pc = pc /\ f.obj = o /\ f.chat = frame[t].chat
    BY <1>1, <2>1, <2>3 DEF Frame, Awaits, StartAwaits
  <2> HIDE DEF f
  <2>5. ObjectOK(registrations, f)
    BY <2>1, <2>4 DEF ObjectOK
  <2>6. FrameOK(registrations, f)
    BY <2>1, <2>3, <2>4, <2>5 DEF FrameOK, Concluding, FormAwaits
  <2> QED
    BY <2>2, <2>4, <2>6, IInvFacts, StatementInv
<1>3. CASE ~Found(registrations, frame[t].chat)
  <2>1. Statement(t, registrations, g)
    BY <1>3 DEF StartFind, FindByChatId
  <2>2. g \in Frame /\ g.pc \in Quiet
    BY <1>1 DEF Frame, Awaits, StartAwaits, Quiet
  <2> HIDE DEF g
  <2> QED
    BY <2>1, <2>2, QuietFrame, IInvFacts, StatementInv
<1> QED
  BY <1>2, <1>3

(* replyStartCommand keeps the invariant.                                  *)
LEMMA StartInv ==
  ASSUME IInv, NEW t \in Tasks, ReplyStartCommand(t), UNCHANGED updates
  PROVE  IInv'
<1>1. CASE StartWelcome(t)
  BY <1>1, MessageTypes, NoFrameOK, SendInv DEF StartWelcome
<1> QED
  BY <1>1, StartFindInv DEF ReplyStartCommand

(* resumeRegistration, the keyboard of the previous form.                  *)
LEMMA ResumeClearInv ==
  ASSUME IInv, NEW t \in Tasks, ResumeClear(t), UNCHANGED updates
  PROVE  IInv'
<1> DEFINE c   == frame[t].chat
           m   == frame[t].obj.row.message_id
           log == messages[c]
           f   == [frame[t] EXCEPT !.pc = "resume.form"]
<1>1. /\ frame[t].pc = "resume.clear" /\ Resume(t, f)
      /\ UNCHANGED <<registrations, up>>
  BY DEF ResumeClear, At, Goto
<1>2. "resume.form" \in Awaits
  BY DEF Awaits, StartAwaits
<1> HIDE DEF f
<1>3. /\ f \in Frame /\ f.pc = "resume.form" /\ f.obj = frame[t].obj
      /\ f.chat = frame[t].chat
  BY <1>2, MovedFrame DEF f
<1>4. FrameOK(registrations, f)
  BY <1>1, <1>3, KeepsObject DEF Concluding, Holding, FormAwaits
<1>5. /\ frame' \in [Tasks -> Frame]
      /\ \A u \in Tasks : \/ frame'[u] = frame[u]
                          \/ FrameOK(registrations, frame'[u])
  BY <1>1, <1>3, <1>4, ResumeFrames
<1>6. /\ messages' \in [Chats -> Seq(Message)]
      /\ ChatsOK(registrations, messages')
  <2>1. CASE UNCHANGED messages
    BY <2>1, IInvFacts
  <2>2. CASE /\ CanClear(log, m)
             /\ messages' = [messages EXCEPT ![c] = Cleared(log, m)]
    <3>1. c \in Chats
      BY IInvFacts, FrameFields
    <3>2. /\ Cleared(log, m) \in Seq(Message)
          /\ \A k \in DOMAIN Cleared(log, m) :
               Cleared(log, m)[k].kind = "thanks" => Phrased(registrations, c)
      <4>1. /\ log \in Seq(Message)
            /\ \A k \in DOMAIN log :
                 log[k].kind = "thanks" => Phrased(registrations, c)
        BY ChatLog
      <4> HIDE DEF log, m, c
      <4>2. /\ Cleared(log, m) \in Seq(Message)
            /\ DOMAIN Cleared(log, m) = DOMAIN log
            /\ \A k \in DOMAIN log : Cleared(log, m)[k].kind = log[k].kind
        BY <2>2, <4>1, ClearedLog
      <4> QED
        BY <4>1, <4>2
    <3>3. /\ messages' \in [Chats -> Seq(Message)]
          /\ messages'[c] = Cleared(log, m)
          /\ \A d \in Chats : d # c => messages'[d] = messages[d]
      BY <2>2, <3>1, <3>2, IInvFacts
    <3> QED
      BY <3>2, <3>3, IInvFacts DEF ChatsOK
  <2> QED
    BY <2>1, <2>2 DEF ResumeClear
<1>7. faults' \in 0..MaxFaults
  BY IInvFacts, FaultCount DEF ResumeClear
<1> QED
  BY <1>1, <1>5, <1>6, <1>7, IInvFacts, StepInv

(* resumeRegistration keeps the invariant.                                 *)
LEMMA ResumeInv ==
  ASSUME IInv, NEW t \in Tasks, ResumeRegistration(t), UNCHANGED updates
  PROVE  IInv'
<1>1. CASE ResumeThanks(t)
  <2>1. Phrased(registrations, frame[t].chat)
    BY <1>1, IInvFacts DEF ResumeThanks, At, FrameOK, Concluding
  <2> QED
    BY <1>1, <2>1, MessageTypes, NoFrameOK, SendInv DEF ResumeThanks
<1>2. CASE ResumeClear(t)
  BY <1>2, ResumeClearInv
<1>3. CASE ResumeForm(t)
  <2> DEFINE row == frame[t].obj.row
  <2>1. Form(row.answers, row.state) \in Message
        /\ Form(row.answers, row.state).kind # "thanks"
    BY IInvFacts, FrameFields, ObjectFields, RowFields, MessageTypes
  <2>2. frame[t].pc \in Holding
    BY <1>3 DEF ResumeForm, At, Holding
  <2> QED
    BY <1>3, <2>1, <2>2, NextMessageId, SendSetsId DEF ResumeForm
<1>4. CASE ResumeUpdate(t)
  <2> DEFINE f == [frame[t] EXCEPT !.pc = "resume.prompt"]
  <2>1. frame[t].pc = "resume.update" /\ Update(t, f)
    BY <1>4 DEF ResumeUpdate, At
  <2>2. "resume.prompt" \in Awaits
    BY DEF Awaits, StartAwaits
  <2> HIDE DEF f
  <2>3. /\ f \in Frame /\ f.pc = "resume.prompt" /\ f.obj = frame[t].obj
        /\ f.chat = frame[t].chat
    BY <2>2, MovedFrame DEF f
  <2>4. FrameOK(registrations, f)
    BY <2>1, <2>3, KeepsObject DEF Concluding, Holding, FormAwaits
  <2> QED
    BY <2>1, <2>3, <2>4, UpdateKeeps DEF Holding
<1>5. CASE ResumePrompt(t)
  <2>1. frame[t].obj.row.state \in States
    BY IInvFacts, FrameFields, ObjectFields, RowFields
  <2> QED
    BY <1>5, <2>1, MessageTypes, NoFrameOK, SendInv DEF ResumePrompt
<1> QED
  BY <1>1, <1>2, <1>3, <1>4, <1>5 DEF ResumeRegistration

(* The subscription check *)

(* Every await of the check keeps the invariant. *)
LEMMA CheckInv ==
  ASSUME IInv, NEW t \in Tasks, CheckSubscription(t), UNCHANGED updates
  PROVE  IInv'
<1>1. CASE CheckMember(t)
  BY <1>1, QuietRequest DEF CheckMember, Quiet
<1>2. CASE CheckDeny(t)
  BY <1>2, NoFrameOK, RequestInv DEF CheckDeny
<1>3. CASE CheckClear(t)
  BY <1>3, QuietClear DEF CheckClear, Quiet
<1>4. CASE CheckAnswer(t)
  BY <1>4, QuietRequest DEF CheckAnswer, Quiet
<1>5. CASE CheckConfirm(t)
  BY <1>5, MessageTypes, NoFrameOK, SendInv DEF CheckConfirm
<1> QED
  BY <1>1, <1>2, <1>3, <1>4, <1>5 DEF CheckSubscription

-----------------------------------------------------------------------------
(* The bot. *)

(* The empty table and idle coroutines satisfy it. *)
LEMMA IInvInit == BotInit => IInv
<1> SUFFICES ASSUME BotInit PROVE IInv
  OBVIOUS
<1>1. /\ registrations = <<>>
      /\ messages = [c \in Chats |-> <<>>]
      /\ frame = [t \in Tasks |-> NoFrame]
      /\ up = TRUE /\ faults = 0 /\ updates = 0
  BY DEF BotInit, Init
<1>2. <<>> \in Seq(Row) /\ <<>> \in Seq(Message)
  BY EmptySeq
<1>3. BotTypeOK
  BY <1>1, <1>2, NoFrameOK, FaultAssumption, UpdateAssumption
  DEF BotTypeOK, TypeOK
<1>4. CompletedHasPhrase /\ ThankedOnlyAfterSaved
  BY <1>1 DEF CompletedHasPhrase, ThankedOnlyAfterSaved
<1>5. \A t \in Tasks : FrameOK(registrations, frame[t])
  BY <1>1, NoFrameOK
<1> QED
  BY <1>3, <1>4, <1>5 DEF IInv

(* An update starts a handler at its first await. *)
LEMMA DeliverInv ==
  ASSUME IInv, NEW t \in Tasks, NEW c \in Chats, NEW f \in Frame,
         FrameOK(registrations, f), Deliver(t, c, f)
  PROVE  IInv'
<1>1. /\ UNCHANGED <<registrations, messages, up, faults>>
      /\ Resume(t, f)
      /\ updates' \in 0..MaxUpdates
  BY IInvFacts, UpdateAssumption DEF Deliver, Spawn
<1>2. /\ frame' \in [Tasks -> Frame]
      /\ \A u \in Tasks : frame'[u] = frame[u] \/ FrameOK(registrations, frame'[u])
  BY <1>1, ResumeFrames
<1> QED
  BY <1>1, <1>2, IInvFacts, StepInv

(* The frame a handler starts with.                                        *)
LEMMA HandlerFrame ==
  ASSUME NEW pc \in Quiet \cup {"message.find"}, NEW c \in Chats
  PROVE  /\ Handler(pc, c) \in Frame
         /\ Handler(pc, c).pc = pc
<1>1. pc \in Awaits \cup {"idle"}
  BY AwaitSets DEF MessageAwaits
<1> QED
  BY <1>1, NoFrameOK DEF Handler, Frame

(* A delivered update keeps the invariant.                                 *)
LEMMA NewUpdateInv ==
  ASSUME IInv, NEW t \in Tasks, NewUpdate(t) PROVE IInv'
<1>1. PICK c \in Chats :
        \/ OnStart(t, c)
        \/ \E x \in Texts : OnMessage(t, c, x)
        \/ \E m \in DOMAIN messages[c] : OnCallbackQuery(t, c, m)
  BY DEF NewUpdate
<1>2. CASE OnStart(t, c)
  <2>1. /\ Handler("start.find", c) \in Frame
        /\ Handler("start.find", c).pc \in Quiet
    BY HandlerFrame DEF Quiet
  <2> QED
    BY <1>2, <2>1, QuietFrame, DeliverInv DEF OnStart
<1>3. ASSUME NEW x \in Texts, OnMessage(t, c, x) PROVE IInv'
  <2> DEFINE f == [Handler("message.find", c) EXCEPT !.text = x]
  <2>1. f \in Frame /\ f.pc = "message.find" /\ f.text = x
    BY HandlerFrame DEF Frame
  <2> HIDE DEF f
  <2>2. FrameOK(registrations, f)
    BY <2>1 DEF FrameOK, ObjectOK, Concluding, Holding, FormAwaits
  <2> QED
    BY <1>3, <2>1, <2>2, DeliverInv DEF OnMessage, f
<1>4. ASSUME NEW m \in DOMAIN messages[c], OnCallbackQuery(t, c, m)
      PROVE  IInv'
  <2> DEFINE button == messages[c][m].keyboard
             pc     == FirstAwait[button]
             f      == [Handler(pc, c) EXCEPT !.click = m]
  <2>1. messages[c] \in Seq(Message)
    BY IInvFacts
  <2>2. m \in Nat /\ button \in Keyboards
    <3>1. messages[c][m] \in Message /\ m \in Nat
      BY <2>1, LenProperties
    <3> QED
      BY <3>1 DEF Message
  <2>3. button # "none" /\ Deliver(t, c, f)
    BY <1>4 DEF OnCallbackQuery
  <2> HIDE DEF button
  <2>4. pc \in Quiet
    BY <2>2, <2>3 DEF FirstAwait, Keyboards, Quiet
  <2> HIDE DEF pc
  <2>5. f \in Frame /\ f.pc \in Quiet
    BY <2>2, <2>4, HandlerFrame DEF Frame
  <2> HIDE DEF f
  <2> QED
    BY <2>3, <2>5, QuietFrame, DeliverInv
<1> QED
  BY <1>1, <1>2, <1>3, <1>4

(* Crash and restart keep the invariant.                                   *)
LEMMA CrashInv ==
  ASSUME IInv, Crash \/ Restart, UNCHANGED updates PROVE IInv'
<1>1. /\ UNCHANGED <<registrations, messages>>
      /\ frame' = frame \/ frame' = [t \in Tasks |-> NoFrame]
      /\ up' \in BOOLEAN /\ faults' \in 0..MaxFaults
  BY IInvFacts, FaultCount DEF Crash, Restart, Terminate
<1>2. /\ frame' \in [Tasks -> Frame]
      /\ \A t \in Tasks : \/ frame'[t] = frame[t]
                          \/ FrameOK(registrations, frame'[t])
  BY <1>1, IInvFacts, NoFrameOK
<1> QED
  BY <1>1, <1>2, IInvFacts, StepInv

(* Every step keeps the invariant.                                         *)
LEMMA IInvStep == IInv /\ [Next]_allVars => IInv'
<1> SUFFICES ASSUME IInv, [Next]_allVars PROVE IInv'
  OBVIOUS
<1>1. ASSUME NEW t \in Tasks, Step(t) PROVE IInv'
  BY <1>1, StartInv, ResumeInv, CheckInv, WantInv, ProcessMessageInv, BackInv,
     ShowFormPromptInv DEF Step
<1>2. CASE UNCHANGED allVars
  BY <1>2, IInvFacts, StepInv DEF allVars
<1> QED
  BY <1>1, <1>2, NewUpdateInv, CrashInv DEF Next

(* The invariant of the bot, whatever the users do and whatever fails.     *)
THEOREM Invariance == Spec => []IInv
BY IInvInit, IInvStep, PTL DEF Spec

(* Types: among others, an UPDATE always finds the row it was read from,   *)
(* and state never leaves the values getState accepts.                     *)
THEOREM Typing == Spec => []BotTypeOK
<1>1. IInv => BotTypeOK
  BY DEF IInv
<1> QED
  BY <1>1, Invariance, PTL

(* savePhrase, showFormPrompt and replyBackQuery, however their steps      *)
(* interleave: a registration marked Completed has its phrase.             *)
THEOREM CompletedRegistrationsHavePhrases == Spec => []CompletedHasPhrase
<1>1. IInv => CompletedHasPhrase
  BY DEF IInv
<1> QED
  BY <1>1, Invariance, PTL

(* completeFormCreation and resumeRegistration thank only users whose      *)
(* phrase is in the database, across exceptions and crashes.               *)
THEOREM ThanksComeAfterThePhrase == Spec => []ThankedOnlyAfterSaved
<1>1. IInv => ThankedOnlyAfterSaved
  BY DEF IInv
<1> QED
  BY <1>1, Invariance, PTL

(* A statement writes its table or leaves the table alone.                 *)
LEMMA StatementTable ==
  ASSUME NEW t, NEW table, NEW f, Statement(t, table, f)
  PROVE  registrations' = registrations \/ registrations' = table
BY DEF Statement

(* An UPDATE of a coroutine in order loses nothing.                        *)
LEMMA UpdateTable ==
  ASSUME IInv, NEW t \in Tasks, frame[t].pc \in Holding, NEW f, Update(t, f)
  PROVE  Grows(registrations, registrations')
<1>1. frame[t] \in Frame /\ ObjectOK(registrations, frame[t])
  BY IInvFacts DEF FrameOK
<1>2. Grows(registrations, Updated(registrations, frame[t].obj))
  BY <1>1, IInvFacts, UpdatedGrows
<1> QED
  BY <1>2, IInvFacts, StatementTable DEF Update

(* Three kinds of step write the table: an insertion, and the updates of   *)
(* objects that are in order.                                              *)
LEMMA StepGrows ==
  ASSUME IInv, NEW t \in Tasks, Step(t)
  PROVE  Grows(registrations, registrations')
<1>1. CASE ReplyStartCommand(t)
  BY <1>1, IInvFacts, StatementTable
  DEF ReplyStartCommand, StartFind, StartWelcome, FindByChatId, Send, Api
<1>2. CASE CheckSubscription(t)
  BY <1>2, IInvFacts
  DEF CheckSubscription, CheckMember, CheckDeny, CheckClear, CheckAnswer,
      CheckConfirm, Request, Clear, Send, Api
<1>3. CASE AnswerWantParticipateQuery(t)
  <2>1. CASE WantSave(t)
    <3>1. frame[t].chat \in Chats
      BY IInvFacts, FrameFields
    <3>2. \/ registrations' = registrations
          \/ registrations' = Inserted(registrations, frame[t].chat)
      BY <2>1, StatementTable DEF WantSave
    <3> QED
      BY <3>1, <3>2, IInvFacts, InsertedGrows
  <2>2. CASE WantUpdate(t)
    BY <2>2, UpdateTable DEF WantUpdate, At, Holding
  <2> QED
    BY <1>3, <2>1, <2>2, IInvFacts
    DEF AnswerWantParticipateQuery, WantAnswer, WantClear, WantContest,
        WantPrompt, Request, Clear, Send, Api
<1>4. CASE ProcessMessage(t)
  <2>1. CASE SaveUpdate(t)
    BY <2>1, UpdateTable DEF SaveUpdate, At, Holding
  <2> QED
    BY <1>4, <2>1, IInvFacts, StatementTable
    DEF ProcessMessage, MessageFind, SaveFind, SaveThanks, FindByChatId,
        Send, Api
<1>5. CASE ReplyBackQuery(t)
  <2>1. CASE BackUpdate(t)
    BY <2>1, UpdateTable DEF BackUpdate, At, Holding
  <2> QED
    BY <1>5, <2>1, IInvFacts, StatementTable
    DEF ReplyBackQuery, BackFind, BackRefuse, BackAnswer, FindByChatId,
        Request, Api
<1>6. CASE ShowFormPrompt(t)
  <2>1. CASE FormUpdate(t)
    BY <2>1, UpdateTable DEF FormUpdate, At, Holding
  <2> QED
    BY <1>6, <2>1, IInvFacts, StatementTable
    DEF ShowFormPrompt, FormFind, FormEdit, FormPrompt, FindByChatId, Edit,
        Send, Api
<1>7. CASE ResumeRegistration(t)
  <2>1. CASE ResumeUpdate(t)
    BY <2>1, UpdateTable DEF ResumeUpdate, At, Holding
  <2> QED
    BY <1>7, <2>1, IInvFacts
    DEF ResumeRegistration, ResumeThanks, ResumeClear, ResumeForm,
        ResumePrompt, Send, Api
<1> QED
  BY <1>1, <1>2, <1>3, <1>4, <1>5, <1>6, <1>7 DEF Step

(* No write, however stale, and no step back takes a stored phrase away.   *)
THEOREM PhrasesAreKept == Spec => PhraseIsKept
<1> DEFINE Kept == \A i \in DOMAIN registrations :
                     registrations[i].answers["phrase"] # NoText
                       => registrations'[i].answers["phrase"] # NoText
<1>1. ASSUME IInv, Next PROVE Kept
  <2>1. \/ \E t \in Tasks : Step(t)
        \/ UNCHANGED registrations
    BY <1>1
    DEF Next, NewUpdate, OnStart, OnMessage, OnCallbackQuery, Deliver, Spawn,
        Crash, Restart
  <2> QED
    BY <1>1, <2>1, StepGrows DEF Grows
<1>2. IInv /\ [Next]_allVars => [Kept]_allVars
  BY <1>1
<1> QED
  BY <1>2, Invariance, PTL DEF Spec, PhraseIsKept

-----------------------------------------------------------------------------
(***************************************************************************)
(* A button opens one registration, for any number of chats, coroutines,   *)
(* updates and failures, however often and however fast it is pressed.     *)
(*                                                                         *)
(* The argument counts.  A handler that goes on after removing the button  *)
(* has made a pressed message out of one that was not; until it has        *)
(* inserted its row, or has ended, it stands for the row.  So rows and     *)
(* such handlers together are never more than the pressed messages.  The   *)
(* same holds of the confirmations that the first button sends.            *)
(*                                                                         *)
(* It needs that no handler ever edits a message with one of these two     *)
(* buttons: the ids in the table and in the objects are of questions and   *)
(* forms.                                                                  *)
(***************************************************************************)

Editable == {"prompt", "form"}

(* Message id m of chat c is unset, or that of a question or a form. *)
IdOK(chats, c, m) ==
  m # 0 => m \in DOMAIN chats[c] /\ chats[c][m].kind \in Editable

RowsOK(table, chats) ==
  \A i \in DOMAIN table : IdOK(chats, table[i].chat_id, table[i].message_id)

(* Either button is under messages of one kind. *)
ButtonOK(message) ==
  /\ message.keyboard = "want_participate" => message.kind = "confirmed"
  /\ message.keyboard = "check_subscription" => message.kind = "welcome"

ClickOK(chats, f, kind) ==
  /\ f.click \in DOMAIN chats[f.chat]
  /\ chats[f.chat][f.click].kind = kind

PressOK(chats, f) ==
  /\ f.pc \in {"want.answer", "want.clear"} => ClickOK(chats, f, "confirmed")
  /\ f.pc \in {"check.member", "check.clear"} => ClickOK(chats, f, "welcome")
  /\ f.pc \in Holding => IdOK(chats, f.chat, f.obj.row.message_id)

PressedIn(log, kind) ==
  {m \in DOMAIN log : log[m].kind = kind /\ log[m].keyboard = "none"}

ConfirmedIn(log) == {m \in DOMAIN log : log[m].kind = "confirmed"}

OpeningAwaits == {"want.contest", "want.save"}

ConfirmingAwaits == {"check.answer", "check.confirm"}

(* The handlers of chat c between the removal of a button and what it is   *)
(* for.                                                                    *)
Between(frames, c, awaits) ==
  {t \in Tasks : frames[t].chat = c /\ frames[t].pc \in awaits}

(* Of B in flight and A done there are no more than P allow. *)
Covered(A, B, P) ==
  /\ IsFiniteSet(A) /\ IsFiniteSet(B) /\ IsFiniteSet(P)
  /\ Cardinality(A) + Cardinality(B) <= Cardinality(P)

BInv ==
  /\ IInv
  /\ RowsOK(registrations, messages)
  /\ \A c \in Chats : \A m \in DOMAIN messages[c] : ButtonOK(messages[c][m])
  /\ \A t \in Tasks : PressOK(messages, frame[t])
  /\ \A c \in Chats :
       /\ Covered(RowsOf(registrations, c), Between(frame, c, OpeningAwaits),
                  PressedIn(messages[c], "confirmed"))
       /\ Covered(ConfirmedIn(messages[c]),
                  Between(frame, c, ConfirmingAwaits),
                  PressedIn(messages[c], "welcome"))

-----------------------------------------------------------------------------
(* Counting. *)

(* Fewer done, fewer in flight, more pressed. *)
LEMMA CoveredLess ==
  ASSUME NEW A, NEW B, NEW P, Covered(A, B, P),
         NEW A2 \in SUBSET A, NEW B2 \in SUBSET B, NEW P2, P \subseteq P2,
         IsFiniteSet(P2)
  PROVE  Covered(A2, B2, P2)
<1>1. /\ IsFiniteSet(A2) /\ Cardinality(A2) <= Cardinality(A)
      /\ IsFiniteSet(B2) /\ Cardinality(B2) <= Cardinality(B)
      /\ Cardinality(P) <= Cardinality(P2)
  BY FS_Subset DEF Covered
<1>2. /\ Cardinality(A) \in Nat /\ Cardinality(A2) \in Nat
      /\ Cardinality(B) \in Nat /\ Cardinality(B2) \in Nat
      /\ Cardinality(P) \in Nat /\ Cardinality(P2) \in Nat
  BY <1>1, FS_CardinalityType DEF Covered
<1> QED
  BY <1>1, <1>2 DEF Covered

(* One element more. *)
LEMMA OneMore ==
  ASSUME NEW S, IsFiniteSet(S), NEW x
  PROVE  /\ IsFiniteSet(S \cup {x})
         /\ Cardinality(S) \in Nat /\ Cardinality(S \cup {x}) \in Nat
         /\ Cardinality(S \cup {x}) <= Cardinality(S) + 1
         /\ x \notin S => Cardinality(S \cup {x}) = Cardinality(S) + 1
<1>1. IsFiniteSet(S \cup {x})
  BY FS_AddElement
<1>2. Cardinality(S) \in Nat /\ Cardinality(S \cup {x}) \in Nat
  BY <1>1, FS_CardinalityType
<1>3. CASE x \in S
  <2>1. Cardinality(S \cup {x}) = Cardinality(S)
    BY <1>3, FS_AddElement
  <2> QED
    BY <1>1, <1>2, <1>3, <2>1
<1>4. CASE x \notin S
  <2>1. Cardinality(S \cup {x}) = Cardinality(S) + 1
    BY <1>4, FS_AddElement
  <2> QED
    BY <1>1, <1>2, <1>4, <2>1
<1> QED
  BY <1>3, <1>4

(* A press lets one more handler go on. *)
LEMMA CoveredPress ==
  ASSUME NEW A, NEW B, NEW P, Covered(A, B, P), NEW t, NEW m, m \notin P,
         NEW A2 \in SUBSET A, NEW B2 \in SUBSET (B \cup {t}),
         NEW P2, P \cup {m} \subseteq P2, IsFiniteSet(P2)
  PROVE  Covered(A2, B2, P2)
<1>1. /\ IsFiniteSet(B \cup {t})
      /\ Cardinality(B \cup {t}) <= Cardinality(B) + 1
      /\ IsFiniteSet(P \cup {m})
      /\ Cardinality(P \cup {m}) = Cardinality(P) + 1
  BY OneMore DEF Covered
<1>2. Covered(A, B \cup {t}, P \cup {m})
  <2>1. /\ Cardinality(A) \in Nat /\ Cardinality(B) \in Nat
        /\ Cardinality(P) \in Nat /\ Cardinality(B \cup {t}) \in Nat
    BY <1>1, FS_CardinalityType DEF Covered
  <2> QED
    BY <1>1, <2>1 DEF Covered
<1> QED
  BY <1>2, CoveredLess

(* A handler in flight does what the button is for. *)
LEMMA CoveredDone ==
  ASSUME NEW A, NEW B, NEW P, Covered(A, B, P), NEW t \in B, NEW i,
         NEW A2 \in SUBSET (A \cup {i}), NEW B2 \in SUBSET (B \ {t}),
         NEW P2, P \subseteq P2, IsFiniteSet(P2)
  PROVE  Covered(A2, B2, P2)
<1>1. /\ IsFiniteSet(A \cup {i})
      /\ Cardinality(A \cup {i}) <= Cardinality(A) + 1
      /\ IsFiniteSet(B \ {t})
      /\ Cardinality(B \ {t}) = Cardinality(B) - 1
  BY OneMore, FS_RemoveElement DEF Covered
<1>2. Covered(A \cup {i}, B \ {t}, P)
  <2>1. /\ Cardinality(A) \in Nat /\ Cardinality(B) \in Nat
        /\ Cardinality(P) \in Nat /\ Cardinality(A \cup {i}) \in Nat
    BY <1>1, FS_CardinalityType DEF Covered
  <2> QED
    BY <1>1, <2>1 DEF Covered
<1> QED
  BY <1>2, CoveredLess

-----------------------------------------------------------------------------
(* What a chat goes through. *)

(* The log grows; a message stays, loses its keyboard, or is edited, and   *)
(* only a question or a form is.                                           *)
Chatted(log, new) ==
  /\ new \in Seq(Message)
  /\ DOMAIN log \subseteq DOMAIN new
  /\ \A m \in DOMAIN new : ButtonOK(new[m])
  /\ \A m \in DOMAIN log :
       \/ /\ log[m].kind = new[m].kind
          /\ log[m].keyboard = "none" => new[m].keyboard = "none"
       \/ log[m].kind \in Editable /\ new[m].kind \in Editable

(* What coroutines and rows know of a message stays true. *)
LEMMA ChattedPressed ==
  ASSUME NEW log \in Seq(Message), NEW new, Chatted(log, new),
         NEW kind \in {"welcome", "confirmed"}
  PROVE  /\ IsFiniteSet(PressedIn(log, kind))
         /\ IsFiniteSet(PressedIn(new, kind))
         /\ PressedIn(log, kind) \subseteq PressedIn(new, kind)
<1>1. \A s \in Seq(Message) : IsFiniteSet(DOMAIN s)
  <2> SUFFICES ASSUME NEW s \in Seq(Message) PROVE IsFiniteSet(DOMAIN s)
    OBVIOUS
  <2> QED
    BY FS_Interval, LenProperties
<1>2. /\ PressedIn(log, kind) \subseteq DOMAIN log
      /\ PressedIn(new, kind) \subseteq DOMAIN new
  BY DEF PressedIn
<1>3. PressedIn(log, kind) \subseteq PressedIn(new, kind)
  BY DEF PressedIn, Chatted, Editable
<1> QED
  BY <1>1, <1>2, <1>3, FS_Subset DEF Chatted

(* Between two states of the chats, one of them has gone on. *)
ChatOnly(c, chats, new) ==
  /\ Chatted(chats[c], new[c])
  /\ \A d \in Chats \ {c} : new[d] = chats[d]

(* Ids in rows and objects remain in order while the chats go on. *)
LEMMA IdStays ==
  ASSUME NEW c \in Chats, NEW chats, NEW new, ChatOnly(c, chats, new),
         NEW d \in Chats, NEW m, IdOK(chats, d, m)
  PROVE  IdOK(new, d, m)
BY DEF ChatOnly, Chatted, IdOK, Editable

(* So do frames. *)
LEMMA PressStays ==
  ASSUME NEW c \in Chats, NEW chats, NEW new, ChatOnly(c, chats, new),
         NEW f, f.chat \in Chats, PressOK(chats, f)
  PROVE  PressOK(new, f)
<1>1. f.pc \in Holding => IdOK(new, f.chat, f.obj.row.message_id)
  BY IdStays DEF PressOK
<1>2. ASSUME NEW kind \in {"welcome", "confirmed"}, ClickOK(chats, f, kind)
      PROVE  ClickOK(new, f, kind)
  BY <1>2 DEF ChatOnly, Chatted, ClickOK, Editable
<1> QED
  BY <1>1, <1>2 DEF PressOK

(* An unused frame is in order. *)
LEMMA NoFramePressOK == \A chats : PressOK(chats, NoFrame)
<1>1. NoFrame.pc = "idle"
  BY DEF NoFrame
<1> QED
  BY <1>1 DEF PressOK, Holding

-----------------------------------------------------------------------------
(* What a step of one coroutine does to the count. *)

(* From f to g the coroutine keeps its standing; or a message was pressed; *)
(* or the coroutine, in flight before, has added to what is done.          *)
Progress(f, g, awaits, A, A2, P, P2) ==
  \/ /\ A2 \subseteq A
     /\ g.pc \in awaits => f.pc \in awaits
  \/ A2 \subseteq A /\ \E m \in P2 : m \notin P
  \/ /\ \E i : A2 \subseteq A \cup {i}
     /\ f.pc \in awaits /\ g.pc \notin awaits

(* Every coroutine but t goes on as before or has ended. *)
OthersStay(t, frames, new) ==
  \A u \in Tasks \ {t} : new[u] \in {frames[u], NoFrame}

InChat(f, c) == f.pc = "idle" \/ f.chat = c

(* The other coroutines add nobody to those in flight. *)
LEMMA BetweenShrinks ==
  ASSUME NEW t \in Tasks, NEW frames, NEW new, OthersStay(t, frames, new),
         NEW c, NEW awaits, "idle" \notin awaits
  PROVE  Between(new, c, awaits) \ {t} \subseteq Between(frames, c, awaits)
<1>1. NoFrame.pc = "idle"
  BY DEF NoFrame
<1> QED
  BY <1>1 DEF Between, OthersStay

(* A step of one coroutine keeps the count of its chat. *)
LEMMA ProgressCovers ==
  ASSUME NEW t \in Tasks, NEW frames, NEW new, OthersStay(t, frames, new),
         NEW c, NEW awaits, "idle" \notin awaits,
         InChat(frames[t], c), InChat(new[t], c),
         NEW A, NEW A2, NEW P, NEW P2, P \subseteq P2, IsFiniteSet(P2),
         Covered(A, Between(frames, c, awaits), P),
         Progress(frames[t], new[t], awaits, A, A2, P, P2)
  PROVE  Covered(A2, Between(new, c, awaits), P2)
<1> DEFINE B  == Between(frames, c, awaits)
           B2 == Between(new, c, awaits)
<1>1. B2 \ {t} \subseteq B
  BY BetweenShrinks
<1>2. /\ t \in B <=> frames[t].pc \in awaits
      /\ t \in B2 <=> new[t].pc \in awaits
  BY DEF Between, InChat
<1> HIDE DEF B, B2
<1>3. CASE A2 \subseteq A /\ (new[t].pc \in awaits => frames[t].pc \in awaits)
  <2>1. B2 \subseteq B
    BY <1>1, <1>2, <1>3
  <2> QED
    BY <1>3, <2>1, CoveredLess DEF B, B2
<1>4. CASE A2 \subseteq A /\ \E m \in P2 : m \notin P
  <2>1. PICK m \in P2 : m \notin P
    BY <1>4
  <2>2. B2 \subseteq B \cup {t} /\ P \cup {m} \subseteq P2
    BY <1>1, <2>1
  <2> QED
    BY <1>4, <2>1, <2>2, CoveredPress DEF B, B2
<1>5. CASE /\ \E i : A2 \subseteq A \cup {i}
           /\ frames[t].pc \in awaits /\ new[t].pc \notin awaits
  <2>1. PICK i : A2 \subseteq A \cup {i}
    BY <1>5
  <2>2. t \in B /\ B2 \subseteq B \ {t}
    BY <1>1, <1>2, <1>5
  <2>3. Covered(A, B, P)
    BY DEF B
  <2>4. A2 \in SUBSET (A \cup {i}) /\ B2 \in SUBSET (B \ {t})
    BY <2>1, <2>2
  <2>5. Covered(A2, B2, P2)
    BY <2>2, <2>3, <2>4, CoveredDone
  <2> QED
    BY <2>5 DEF B2
<1> QED
  BY <1>3, <1>4, <1>5 DEF Progress

(* A step keeps the invariant if it keeps what rows and frames know of the *)
(* messages, and the count of its chat.                                    *)
LEMMA StepBInv ==
  ASSUME BInv, IInv', NEW t \in Tasks, NEW c \in Chats,
         ChatOnly(c, messages, messages'),
         RowsOK(registrations', messages'),
         \A d \in Chats \ {c} :
           RowsOf(registrations', d) \subseteq RowsOf(registrations, d),
         OthersStay(t, frame, frame'),
         InChat(frame[t], c), InChat(frame'[t], c),
         PressOK(messages', frame'[t]),
         Progress(frame[t], frame'[t], OpeningAwaits,
                  RowsOf(registrations, c), RowsOf(registrations', c),
                  PressedIn(messages[c], "confirmed"),
                  PressedIn(messages'[c], "confirmed")),
         Progress(frame[t], frame'[t], ConfirmingAwaits,
                  ConfirmedIn(messages[c]), ConfirmedIn(messages'[c]),
                  PressedIn(messages[c], "welcome"),
                  PressedIn(messages'[c], "welcome"))
  PROVE  BInv'
<1>1. /\ messages \in [Chats -> Seq(Message)]
      /\ frame \in [Tasks -> Frame]
  BY IInvFacts DEF BInv
<1>2. \A d \in Chats : \A m \in DOMAIN messages'[d] : ButtonOK(messages'[d][m])
  BY DEF BInv, ChatOnly, Chatted
<1>3. \A u \in Tasks : PressOK(messages', frame'[u])
  <2>1. \A u \in Tasks : PressOK(messages', frame[u])
    BY <1>1, FrameFields, PressStays DEF BInv
  <2> QED
    BY <2>1, NoFramePressOK DEF OthersStay
<1>4. "idle" \notin OpeningAwaits /\ "idle" \notin ConfirmingAwaits
  BY DEF OpeningAwaits, ConfirmingAwaits
<1>5. \A kind \in {"welcome", "confirmed"} :
        /\ IsFiniteSet(PressedIn(messages'[c], kind))
        /\ PressedIn(messages[c], kind) \subseteq PressedIn(messages'[c], kind)
  BY <1>1, ChattedPressed DEF ChatOnly
<1>6. /\ Covered(RowsOf(registrations', c), Between(frame', c, OpeningAwaits),
                 PressedIn(messages'[c], "confirmed"))
      /\ Covered(ConfirmedIn(messages'[c]),
                 Between(frame', c, ConfirmingAwaits),
                 PressedIn(messages'[c], "welcome"))
  BY <1>4, <1>5, ProgressCovers DEF BInv
<1>7. ASSUME NEW d \in Chats \ {c}
      PROVE  /\ Covered(RowsOf(registrations', d),
                        Between(frame', d, OpeningAwaits),
                        PressedIn(messages'[d], "confirmed"))
             /\ Covered(ConfirmedIn(messages'[d]),
                        Between(frame', d, ConfirmingAwaits),
                        PressedIn(messages'[d], "welcome"))
  <2>1. messages'[d] = messages[d]
    BY DEF ChatOnly
  <2>2. /\ Between(frame', d, OpeningAwaits)
             \subseteq Between(frame, d, OpeningAwaits)
        /\ Between(frame', d, ConfirmingAwaits)
             \subseteq Between(frame, d, ConfirmingAwaits)
    <3>1. ASSUME NEW awaits, "idle" \notin awaits
          PROVE  Between(frame', d, awaits) \subseteq Between(frame, d, awaits)
      <4>1. t \notin Between(frame', d, awaits)
        BY <3>1 DEF Between, InChat
      <4> QED
        BY <3>1, <4>1, BetweenShrinks
    <3> QED
      BY <1>4, <3>1
  <2>3. RowsOf(registrations', d) \subseteq RowsOf(registrations, d)
    OBVIOUS
  <2>4. /\ Covered(RowsOf(registrations, d), Between(frame, d, OpeningAwaits),
                   PressedIn(messages[d], "confirmed"))
        /\ Covered(ConfirmedIn(messages[d]),
                   Between(frame, d, ConfirmingAwaits),
                   PressedIn(messages[d], "welcome"))
    BY DEF BInv
  <2>5. /\ IsFiniteSet(PressedIn(messages[d], "confirmed"))
        /\ IsFiniteSet(PressedIn(messages[d], "welcome"))
    BY <2>4 DEF Covered
  <2> QED
    BY <2>1, <2>2, <2>3, <2>4, <2>5, CoveredLess
<1> QED
  BY <1>2, <1>3, <1>6, <1>7 DEF BInv

(* An exception ends the coroutine, and perhaps the others. *)
LEMMA ThrowEnds ==
  ASSUME IInv, NEW t \in Tasks, NEW catching, Throw(t, catching)
  PROVE  frame'[t] = NoFrame /\ OthersStay(t, frame, frame')
BY IInvFacts DEF Throw, Finish, Resume, Terminate, OthersStay

(* A coroutine that is resumed goes on, and the others stay. *)
LEMMA ResumeGoes ==
  ASSUME IInv, NEW t \in Tasks, NEW f, Resume(t, f)
  PROVE  frame'[t] = f /\ OthersStay(t, frame, frame')
BY IInvFacts DEF Resume, OthersStay

(* A coroutine that ends instead of going on does not spoil the count. *)
LEMMA ProgressEnds ==
  ASSUME NEW f, NEW g, NEW awaits, "idle" \notin awaits,
         NEW A, NEW A2, NEW P, NEW P2, Progress(f, g, awaits, A, A2, P, P2)
  PROVE  Progress(f, NoFrame, awaits, A, A2, P, P2)
<1>1. NoFrame.pc = "idle"
  BY DEF NoFrame
<1> QED
  BY <1>1 DEF Progress

(* A chat in which nothing happens. *)
LEMMA ChatStays ==
  ASSUME BInv, NEW c \in Chats
  PROVE  /\ messages[c] \in Seq(Message)
         /\ Chatted(messages[c], messages[c])
         /\ ChatOnly(c, messages, messages)
<1>1. messages[c] \in Seq(Message)
  BY IInvFacts DEF BInv
<1>2. Chatted(messages[c], messages[c])
  BY <1>1 DEF BInv, Chatted
<1> QED
  BY <1>1, <1>2 DEF ChatOnly

(* Coroutines may end at any time. *)
LEMMA StopBInv ==
  ASSUME BInv, IInv', UNCHANGED <<registrations, messages>>,
         \A u \in Tasks : frame'[u] \in {frame[u], NoFrame}
  PROVE  BInv'
<1>1. \A u \in Tasks : PressOK(messages, frame'[u])
  BY NoFramePressOK DEF BInv
<1>2. NoFrame.pc = "idle"
  BY DEF NoFrame
<1>3. ASSUME NEW c \in Chats
      PROVE  /\ Between(frame', c, OpeningAwaits)
                  \subseteq Between(frame, c, OpeningAwaits)
             /\ Between(frame', c, ConfirmingAwaits)
                  \subseteq Between(frame, c, ConfirmingAwaits)
  BY <1>2 DEF Between, OpeningAwaits, ConfirmingAwaits
<1>4. ASSUME NEW c \in Chats
      PROVE  /\ Covered(RowsOf(registrations, c),
                        Between(frame', c, OpeningAwaits),
                        PressedIn(messages[c], "confirmed"))
             /\ Covered(ConfirmedIn(messages[c]),
                        Between(frame', c, ConfirmingAwaits),
                        PressedIn(messages[c], "welcome"))
  <2>1. /\ Covered(RowsOf(registrations, c), Between(frame, c, OpeningAwaits),
                   PressedIn(messages[c], "confirmed"))
        /\ Covered(ConfirmedIn(messages[c]),
                   Between(frame, c, ConfirmingAwaits),
                   PressedIn(messages[c], "welcome"))
    BY DEF BInv
  <2>2. /\ IsFiniteSet(PressedIn(messages[c], "confirmed"))
        /\ IsFiniteSet(PressedIn(messages[c], "welcome"))
    BY <2>1 DEF Covered
  <2> QED
    BY <1>3, <2>1, <2>2, CoveredLess
<1> QED
  BY <1>1, <1>4 DEF BInv

(* Both counts of a request that Telegram carries out. *)
Counts(t, f, log) ==
  LET c == frame[t].chat
  IN  /\ Progress(frame[t], f, OpeningAwaits,
                  RowsOf(registrations, c), RowsOf(registrations, c),
                  PressedIn(messages[c], "confirmed"),
                  PressedIn(log, "confirmed"))
      /\ Progress(frame[t], f, ConfirmingAwaits,
                  ConfirmedIn(messages[c]), ConfirmedIn(log),
                  PressedIn(messages[c], "welcome"),
                  PressedIn(log, "welcome"))

(* A request to the Bot API. *)
LEMMA ApiBInv ==
  ASSUME BInv, IInv', NEW t \in Tasks, NEW accepted, NEW log, NEW f,
         Api(t, accepted, log, f),
         accepted => /\ Chatted(messages[frame[t].chat], log)
                     /\ PressOK([messages EXCEPT ![frame[t].chat] = log], f)
                     /\ InChat(f, frame[t].chat)
                     /\ Counts(t, f, log)
  PROVE  BInv'
<1> DEFINE c     == frame[t].chat
           Carry == messages' = [messages EXCEPT ![c] = log]
<1>1. /\ IInv /\ c \in Chats
      /\ messages \in [Chats -> Seq(Message)]
      /\ registrations' = registrations
  BY IInvFacts, FrameFields DEF BInv, Api
<1>2. ASSUME accepted, Carry, frame'[t] \in {f, NoFrame},
             OthersStay(t, frame, frame')
      PROVE  BInv'
  <2>1. /\ messages'[c] = log
        /\ ChatOnly(c, messages, messages')
    BY <1>1, <1>2 DEF ChatOnly
  <2>2. RowsOK(registrations', messages')
    <3>1. registrations \in Seq(Row)
      BY <1>1, IInvFacts
    <3>2. \A i \in DOMAIN registrations : registrations[i].chat_id \in Chats
      BY <3>1, RowFields
    <3> QED
      BY <1>1, <2>1, <3>2, IdStays DEF BInv, RowsOK
  <2>3. PressOK(messages', frame'[t]) /\ InChat(frame'[t], c)
    <3>1. InChat(NoFrame, c)
      BY DEF InChat, NoFrame
    <3> QED
      BY <1>2, <3>1, NoFramePressOK
  <2>4. "idle" \notin OpeningAwaits /\ "idle" \notin ConfirmingAwaits
    BY DEF OpeningAwaits, ConfirmingAwaits
  <2>5. Counts(t, frame'[t], log)
    BY <1>2, <2>4, ProgressEnds DEF Counts
  <2>6. InChat(frame[t], c)
    BY DEF InChat
  <2> QED
    BY <1>1, <1>2, <2>1, <2>2, <2>3, <2>5, <2>6, StepBInv DEF Counts
<1>3. CASE accepted /\ Carry /\ Resume(t, f)
  BY <1>1, <1>2, <1>3, ResumeGoes
<1>4. CASE accepted /\ Carry /\ Throw(t, CatchesTelegram)
  BY <1>1, <1>2, <1>4, ThrowEnds
<1>5. CASE UNCHANGED messages /\ Throw(t, CatchesTelegram)
  <2>1. \A u \in Tasks : frame'[u] \in {frame[u], NoFrame}
    BY <1>1, <1>5, ThrowFrames
  <2> QED
    BY <1>1, <1>5, <2>1, StopBInv
<1> QED
  BY <1>3, <1>4, <1>5 DEF Api

(* A coroutine moves on without being in flight for a button. *)
Elsewhere(f) == f.pc \notin OpeningAwaits \cup ConfirmingAwaits

(* An unused frame is elsewhere. *)
LEMMA NoFrameElsewhere ==
  /\ Elsewhere(NoFrame)
  /\ \A c : InChat(NoFrame, c)
  /\ \A chats : PressOK(chats, NoFrame)
<1>1. NoFrame.pc = "idle"
  BY DEF NoFrame
<1> QED
  BY <1>1, NoFramePressOK
  DEF Elsewhere, InChat, OpeningAwaits, ConfirmingAwaits

(* Or it keeps its standing. *)
Standing(f, g) ==
  /\ g.pc \in OpeningAwaits => f.pc \in OpeningAwaits
  /\ g.pc \in ConfirmingAwaits => f.pc \in ConfirmingAwaits

(* A request that leaves nothing in the chat. *)
LEMMA RequestBInv ==
  ASSUME BInv, IInv', NEW t \in Tasks, NEW f, Request(t, f),
         PressOK(messages, f), InChat(f, frame[t].chat), Standing(frame[t], f)
  PROVE  BInv'
<1> DEFINE c == frame[t].chat
<1>1. c \in Chats
  BY IInvFacts, FrameFields DEF BInv
<1>2. Chatted(messages[c], messages[c])
  BY <1>1, ChatStays
<1>3. [messages EXCEPT ![c] = messages[c]] = messages
  BY <1>1, IInvFacts DEF BInv
<1>4. Counts(t, f, messages[c])
  BY DEF Counts, Progress, Standing
<1>5. Api(t, TRUE, messages[c], f)
  BY DEF Request
<1> HIDE DEF c
<1>6. /\ Chatted(messages[c], messages[c])
      /\ PressOK([messages EXCEPT ![c] = messages[c]], f)
      /\ InChat(f, c)
  BY <1>2, <1>3 DEF c
<1> QED
  BY <1>4, <1>5, <1>6, ApiBInv DEF c

(* A message is sent.  A confirmation is one more that is done. *)
LEMMA SendBInv ==
  ASSUME BInv, IInv', NEW t \in Tasks, NEW new \in Message, NEW f,
         Send(t, new, f), ButtonOK(new),
         new.kind = "confirmed" => frame[t].pc \in ConfirmingAwaits,
         InChat(f, frame[t].chat), Elsewhere(f),
         PressOK([messages EXCEPT ![frame[t].chat] =
                    Append(messages[frame[t].chat], new)], f)
  PROVE  BInv'
<1> DEFINE c   == frame[t].chat
           log == Append(messages[c], new)
<1>1. c \in Chats
  BY IInvFacts, FrameFields DEF BInv
<1>2. messages[c] \in Seq(Message) /\ Chatted(messages[c], messages[c])
  BY <1>1, ChatStays
<1>3. Api(t, Fits(new), log, f)
  BY DEF Send
<1> HIDE DEF log, c
<1>4. /\ log \in Seq(Message)
      /\ Len(log) = Len(messages[c]) + 1
      /\ \A m \in 1..Len(messages[c]) : log[m] = messages[c][m]
      /\ log[Len(messages[c]) + 1] = new
  BY <1>2, AppendProperties DEF log
<1>5. /\ DOMAIN messages[c] = 1..Len(messages[c])
      /\ DOMAIN log = 1..(Len(messages[c]) + 1)
      /\ Len(messages[c]) \in Nat
  BY <1>2, <1>4, LenProperties
<1>6. Chatted(messages[c], log)
  BY <1>2, <1>4, <1>5 DEF Chatted
<1>7. Counts(t, f, log)
  <2>1. f.pc \notin OpeningAwaits /\ f.pc \notin ConfirmingAwaits
    BY DEF Elsewhere
  <2>2. CASE new.kind = "confirmed"
    <3>1. ConfirmedIn(log)
            \subseteq ConfirmedIn(messages[c]) \cup {Len(messages[c]) + 1}
      BY <1>4, <1>5 DEF ConfirmedIn
    <3> QED
      BY <2>1, <2>2, <3>1 DEF Counts, Progress, c
  <2>3. CASE new.kind # "confirmed"
    <3>1. ConfirmedIn(log) \subseteq ConfirmedIn(messages[c])
      BY <1>4, <1>5, <2>3 DEF ConfirmedIn
    <3> QED
      BY <2>1, <3>1 DEF Counts, Progress, c
  <2> QED
    BY <2>2, <2>3
<1>8. PressOK([messages EXCEPT ![c] = log], f) /\ InChat(f, c)
  BY DEF c, log
<1> QED
  BY <1>3, <1>6, <1>7, <1>8, ApiBInv DEF c

(* The same, when nothing or the thanks come next. *)
LEMMA SendEndsBInv ==
  ASSUME BInv, IInv', NEW t \in Tasks, NEW new \in Message, NEW f,
         Send(t, new, f), ButtonOK(new),
         new.kind = "confirmed" => frame[t].pc \in ConfirmingAwaits,
         \/ f = NoFrame
         \/ f.pc = "save.thanks" /\ f.chat = frame[t].chat
  PROVE  BInv'
<1>1. InChat(f, frame[t].chat) /\ Elsewhere(f) /\ \A chats : PressOK(chats, f)
  BY NoFrameElsewhere
  DEF InChat, Elsewhere, OpeningAwaits, ConfirmingAwaits, PressOK, Holding
<1> QED
  BY <1>1, SendBInv

(* Removing a keyboard is the one way to press a message. *)
LEMMA ClearedChat ==
  ASSUME NEW old \in Seq(Message), Chatted(old, old), NEW m, CanClear(old, m),
         NEW log, log = Cleared(old, m)
  PROVE  /\ Chatted(old, log)
         /\ ConfirmedIn(log) \subseteq ConfirmedIn(old)
         /\ old[m].keyboard # "none" /\ m \in DOMAIN old
         /\ m \in DOMAIN log /\ log[m].keyboard = "none"
         /\ log[m].kind = old[m].kind
<1> DEFINE new == [old[m] EXCEPT !.keyboard = "none"]
<1>1. m \in 1..Len(old) /\ DOMAIN old = 1..Len(old)
  BY LenProperties DEF CanClear
<1>2. /\ new \in Message /\ new.kind = old[m].kind
      /\ new.keyboard = "none" /\ ButtonOK(new)
  <2>1. old[m] \in Message
    BY <1>1
  <2> QED
    BY <2>1 DEF Message, Keyboards, ButtonOK
<1>3. log = [old EXCEPT ![m] = new]
  BY DEF Cleared
<1> HIDE DEF new
<1>4. /\ log \in Seq(Message)
      /\ DOMAIN log = DOMAIN old
      /\ \A k \in DOMAIN old : log[k] = IF k = m THEN new ELSE old[k]
  BY <1>1, <1>2, <1>3, ExceptSeq
<1>5. Chatted(old, log)
  BY <1>2, <1>4 DEF Chatted
<1>6. ConfirmedIn(log) \subseteq ConfirmedIn(old)
  BY <1>2, <1>4 DEF ConfirmedIn
<1> QED
  BY <1>1, <1>2, <1>4, <1>5, <1>6 DEF CanClear

(* A question or a form is edited. *)
LEMMA EditBInv ==
  ASSUME BInv, IInv', NEW t \in Tasks, NEW m, NEW new \in Message, NEW f,
         Edit(t, m, new, f), IdOK(messages, frame[t].chat, m), m \in Nat,
         ButtonOK(new), new.kind \in Editable,
         PressOK(messages, f), f.chat = frame[t].chat, Elsewhere(f)
  PROVE  BInv'
<1> DEFINE c   == frame[t].chat
           old == messages[c]
           log == Edited(old, m, new)
<1>1. c \in Chats
  BY IInvFacts, FrameFields DEF BInv
<1>2. old \in Seq(Message) /\ Chatted(old, old)
  BY <1>1, ChatStays
<1>3. Api(t, CanEdit(old, m, new), log, f)
  BY DEF Edit
<1>4. ASSUME CanEdit(old, m, new)
      PROVE  /\ Chatted(old, log)
             /\ ConfirmedIn(log) \subseteq ConfirmedIn(old)
  <2>1. m \in DOMAIN old /\ m \in 1..Len(old) /\ DOMAIN old = 1..Len(old)
    BY <1>2, <1>4, LenProperties DEF CanEdit
  <2>2. m # 0 /\ old[m].kind \in Editable
    BY <2>1 DEF IdOK
  <2> HIDE DEF old
  <2>3. /\ log \in Seq(Message)
        /\ DOMAIN log = DOMAIN old
        /\ \A k \in DOMAIN old : log[k] = IF k = m THEN new ELSE old[k]
    BY <1>2, <2>1, ExceptSeq DEF Edited
  <2> HIDE DEF log
  <2>4. Chatted(old, log)
    BY <1>2, <2>2, <2>3 DEF Chatted
  <2>5. ConfirmedIn(log) \subseteq ConfirmedIn(old)
    BY <2>2, <2>3 DEF ConfirmedIn, Editable
  <2> QED
    BY <2>4, <2>5
<1> HIDE DEF log
<1>5. ASSUME CanEdit(old, m, new)
      PROVE  /\ PressOK([messages EXCEPT ![c] = log], f)
             /\ InChat(f, c)
             /\ Counts(t, f, log)
  <2>1. ChatOnly(c, messages, [messages EXCEPT ![c] = log])
    BY <1>1, <1>4, <1>5, IInvFacts DEF ChatOnly, BInv
  <2>2. PressOK([messages EXCEPT ![c] = log], f)
    BY <1>1, <2>1, PressStays
  <2> QED
    BY <1>4, <1>5, <2>2 DEF Counts, Progress, Elsewhere, InChat
<1> QED
  BY <1>3, <1>4, <1>5, ApiBInv

(* A keyboard is removed: of a button, once. *)
LEMMA ClearBInv ==
  ASSUME BInv, IInv', NEW t \in Tasks, NEW m, NEW f, Clear(t, m, f),
         PressOK(messages, f), f.chat = frame[t].chat,
         f.pc \in OpeningAwaits => ClickOK(messages, frame[t], "confirmed"),
         f.pc \in ConfirmingAwaits => ClickOK(messages, frame[t], "welcome"),
         m = frame[t].click
  PROVE  BInv'
<1> DEFINE c   == frame[t].chat
           old == messages[c]
           log == Cleared(old, m)
<1>1. c \in Chats
  BY IInvFacts, FrameFields DEF BInv
<1>2. old \in Seq(Message) /\ Chatted(old, old)
  BY <1>1, ChatStays
<1>3. Api(t, CanClear(old, m), log, f)
  BY DEF Clear
<1>4. ASSUME CanClear(old, m)
      PROVE  /\ Chatted(old, log)
             /\ ConfirmedIn(log) \subseteq ConfirmedIn(old)
             /\ old[m].keyboard # "none" /\ m \in DOMAIN old
             /\ m \in DOMAIN log /\ log[m].keyboard = "none"
             /\ log[m].kind = old[m].kind
  BY <1>2, <1>4, ClearedChat
<1> HIDE DEF log
<1>5. ASSUME CanClear(old, m)
      PROVE  /\ PressOK([messages EXCEPT ![c] = log], f)
             /\ InChat(f, c)
             /\ Counts(t, f, log)
  <2>1. ChatOnly(c, messages, [messages EXCEPT ![c] = log])
    BY <1>1, <1>4, <1>5, IInvFacts DEF ChatOnly, BInv
  <2>2. PressOK([messages EXCEPT ![c] = log], f)
    BY <1>1, <2>1, PressStays
  <2>3. m \notin PressedIn(old, "confirmed") /\ m \notin PressedIn(old, "welcome")
    BY <1>4, <1>5 DEF PressedIn
  <2>4. /\ f.pc \in OpeningAwaits => m \in PressedIn(log, "confirmed")
        /\ f.pc \in ConfirmingAwaits => m \in PressedIn(log, "welcome")
    BY <1>4, <1>5 DEF PressedIn, ClickOK
  <2>5. Counts(t, f, log)
    BY <1>4, <1>5, <2>3, <2>4 DEF Counts, Progress
  <2> QED
    BY <2>2, <2>5 DEF InChat
<1> QED
  BY <1>3, <1>4, <1>5, ApiBInv

(* A statement of SQL. *)
LEMMA StatementBInv ==
  ASSUME BInv, IInv', NEW t \in Tasks, NEW table, NEW f,
         Statement(t, table, f), RowsOK(table, messages),
         \A d \in Chats \ {frame[t].chat} :
           RowsOf(table, d) \subseteq RowsOf(registrations, d),
         Progress(frame[t], f, OpeningAwaits,
                  RowsOf(registrations, frame[t].chat),
                  RowsOf(table, frame[t].chat),
                  PressedIn(messages[frame[t].chat], "confirmed"),
                  PressedIn(messages[frame[t].chat], "confirmed")),
         f.pc \in ConfirmingAwaits => frame[t].pc \in ConfirmingAwaits,
         PressOK(messages, f), InChat(f, frame[t].chat)
  PROVE  BInv'
<1> DEFINE c == frame[t].chat
<1>1. /\ IInv /\ c \in Chats
      /\ messages' = messages
  BY IInvFacts, FrameFields DEF BInv, Statement
<1>2. CASE registrations' = table /\ Resume(t, f)
  <2>1. frame'[t] = f /\ OthersStay(t, frame, frame')
    BY <1>1, <1>2, ResumeGoes
  <2>2. ChatOnly(c, messages, messages')
    BY <1>1, ChatStays
  <2>3. InChat(frame[t], c)
    BY DEF InChat
  <2>4. Progress(frame[t], frame'[t], ConfirmingAwaits,
                 ConfirmedIn(messages[c]), ConfirmedIn(messages'[c]),
                 PressedIn(messages[c], "welcome"),
                 PressedIn(messages'[c], "welcome"))
    BY <1>1, <2>1 DEF Progress
  <2>5. /\ PressOK(messages', frame'[t]) /\ InChat(frame'[t], c)
        /\ RowsOK(registrations', messages')
        /\ \A d \in Chats \ {c} :
             RowsOf(registrations', d) \subseteq RowsOf(registrations, d)
        /\ Progress(frame[t], frame'[t], OpeningAwaits,
                    RowsOf(registrations, c), RowsOf(registrations', c),
                    PressedIn(messages[c], "confirmed"),
                    PressedIn(messages'[c], "confirmed"))
    BY <1>1, <1>2, <2>1
  <2> HIDE DEF c
  <2> QED
    BY <1>1, <2>1, <2>2, <2>3, <2>4, <2>5, StepBInv
<1>3. CASE UNCHANGED registrations /\ Throw(t, CatchesDatabase)
  <2>1. \A u \in Tasks : frame'[u] \in {frame[u], NoFrame}
    BY <1>1, <1>3, ThrowFrames
  <2> QED
    BY <1>1, <1>3, <2>1, StopBInv
<1> QED
  BY <1>2, <1>3 DEF Statement

(* A lookup. *)
LEMMA FindBInv ==
  ASSUME BInv, IInv', NEW t \in Tasks, NEW f, Statement(t, registrations, f),
         PressOK(messages, f), InChat(f, frame[t].chat), Standing(frame[t], f)
  PROVE  BInv'
BY StatementBInv DEF BInv, Progress, Standing

(* An UPDATE leaves every row with its chat. *)
LEMMA UpdateBInv ==
  ASSUME BInv, IInv', NEW t \in Tasks, frame[t].pc \in Holding, NEW f,
         Update(t, f), PressOK(messages, f), InChat(f, frame[t].chat),
         Elsewhere(f)
  PROVE  BInv'
<1> DEFINE o     == frame[t].obj
           table == Updated(registrations, o)
<1>1. /\ registrations \in Seq(Row)
      /\ o \in Object /\ ObjectOK(registrations, frame[t])
      /\ IdOK(messages, frame[t].chat, o.row.message_id)
  BY IInvFacts, FrameFields DEF BInv, FrameOK, PressOK
<1>2. /\ o.id \in DOMAIN registrations
      /\ registrations[o.id].chat_id = frame[t].chat
  BY <1>1 DEF ObjectOK
<1>3. Statement(t, table, f)
  BY DEF Update
<1> HIDE DEF o
<1>4. /\ DOMAIN table = DOMAIN registrations
      /\ \A i \in DOMAIN registrations \ {o.id} : table[i] = registrations[i]
      /\ table[o.id].chat_id = registrations[o.id].chat_id
  BY <1>1, <1>2, UpdatedTable
<1>5. table[o.id].message_id \in {registrations[o.id].message_id,
                                  o.row.message_id}
  BY <1>1, <1>2 DEF Updated, UpdateColumns
<1> HIDE DEF table
<1>6. \A d : RowsOf(table, d) = RowsOf(registrations, d)
  BY <1>2, <1>4 DEF RowsOf
<1>7. RowsOK(table, messages)
  <2> SUFFICES ASSUME NEW i \in DOMAIN table
               PROVE  IdOK(messages, table[i].chat_id, table[i].message_id)
    BY DEF RowsOK
  <2>1. IdOK(messages, registrations[i].chat_id, registrations[i].message_id)
    BY <1>4 DEF BInv, RowsOK
  <2>2. CASE i = o.id
    BY <1>1, <1>2, <1>4, <1>5, <2>1, <2>2
  <2>3. CASE i # o.id
    BY <1>4, <2>1, <2>3
  <2> QED
    BY <2>2, <2>3
<1> QED
  BY <1>3, <1>6, <1>7, StatementBInv DEF Progress, Elsewhere

(* A registration that was found points to a question or a form. *)
LEMMA FoundId ==
  ASSUME BInv, NEW t \in Tasks, Found(registrations, frame[t].chat),
         NEW o, o = Snapshot(registrations,
                             TheRow(registrations, frame[t].chat))
  PROVE  /\ o \in Object
         /\ IdOK(messages, frame[t].chat, o.row.message_id)
<1>1. /\ o \in Object
      /\ o.id \in DOMAIN registrations
      /\ registrations[o.id].chat_id = frame[t].chat
      /\ o.row = registrations[o.id]
  BY FoundObject DEF BInv
<1> QED
  BY <1>1 DEF BInv, RowsOK

(* Setting state or answers leaves the message id of an object alone. *)
LEMMA SettersKeepId ==
  ASSUME NEW o \in Object
  PROVE  /\ \A s \in States : SetState(o, s).row.message_id = o.row.message_id
         /\ \A s \in States, x \in Texts :
              SavedAnswer(o, s, x).row.message_id = o.row.message_id
         /\ SteppedBack(o).row.message_id = o.row.message_id
<1>1. \A r \in States : /\ SetState(o, r).row.message_id = o.row.message_id
                        /\ SetState(o, r) \in Object
  <2>1. ASSUME NEW p \in Object, NEW r \in States
        PROVE  SetState(p, r).row.message_id = p.row.message_id
    BY DEF SetState, Object, Row
  <2> QED
    BY <2>1, SetStateType
<1>2. ASSUME NEW p \in Object, NEW f \in Fields, NEW y \in Texts \cup {NoText}
      PROVE  /\ SetAnswer(p, f, y).row.message_id = p.row.message_id
             /\ SetAnswer(p, f, y) \in Object
  BY SetAnswerType DEF SetAnswer, Object, Row
<1>3. ASSUME NEW p \in Object, NEW r \in States
      PROVE  SetState(p, r).row.message_id = p.row.message_id
  BY DEF SetState, Object, Row
<1>4. \A r : FieldOf(r) \in Fields
  BY DEF FieldOf, Fields
<1>5. Completed \in States /\ \A r : PrevState(r) \in States
  BY CompletedIsLast DEF PrevState, States, Waiting
<1>6. ASSUME NEW s \in States, NEW x \in Texts
      PROVE  SavedAnswer(o, s, x).row.message_id = o.row.message_id
  <2> DEFINE a == SetAnswer(o, FieldOf(s), x)
  <2>1. a \in Object /\ a.row.message_id = o.row.message_id
    BY <1>2, <1>4
  <2> HIDE DEF a
  <2>2. SetState(a, Completed).row.message_id = o.row.message_id
    BY <1>3, <1>5, <2>1
  <2> QED
    BY <2>1, <2>2 DEF SavedAnswer, a
<1>7. SteppedBack(o).row.message_id = o.row.message_id
  <2> DEFINE r == PrevState(o.row.state)
             a == SetState(o, r)
  <2>1. a \in Object /\ a.row.message_id = o.row.message_id
    BY <1>1, <1>5
  <2>2. NoText \in Texts \cup {NoText} /\ FieldOf(r) \in Fields
    BY <1>4
  <2> HIDE DEF a
  <2>3. SetAnswer(a, FieldOf(r), NoText).row.message_id = o.row.message_id
    BY <1>2, <2>1, <2>2
  <2> QED
    BY <2>3 DEF SteppedBack, a
<1> QED
  BY <1>1, <1>6, <1>7

-----------------------------------------------------------------------------
(* The handlers. *)

(* The messages the bot sends carry their buttons. *)
LEMMA ButtonsSent ==
  /\ ButtonOK(Welcome) /\ ButtonOK(Confirmed) /\ ButtonOK(ThankYou)
  /\ \A s \in States : ButtonOK(Prompt(s)) /\ Prompt(s).kind \in Editable
  /\ \A s \in States, a \in Answers :
       ButtonOK(Form(a, s)) /\ Form(a, s).kind \in Editable
<1>1. \A s : Prompt(s).keyboard = "none"
  BY DEF Prompt, Notice
<1>2. \A s, a : Form(a, s).keyboard \in {"form_back", "none"}
  BY DEF Form
<1>3. /\ ButtonOK(Welcome) /\ ButtonOK(Confirmed) /\ ButtonOK(ThankYou)
  BY DEF Welcome, Confirmed, ThankYou, Notice, ButtonOK
<1> QED
  BY <1>1, <1>2, <1>3, MessageTypes DEF ButtonOK, Editable

(* The subscription check: the confirmation is sent by the handler that    *)
(* has removed the first button.                                           *)
LEMMA CheckBInv ==
  ASSUME BInv, IInv', NEW t \in Tasks, CheckSubscription(t)
  PROVE  BInv'
<1>0. /\ IInv /\ frame[t] \in Frame /\ PressOK(messages, frame[t])
  BY IInvFacts DEF BInv
<1> DEFINE F(pc) == [frame[t] EXCEPT !.pc = pc]
<1>1. \A pc : /\ F(pc).pc = pc /\ F(pc).chat = frame[t].chat
              /\ F(pc).click = frame[t].click
  BY <1>0 DEF Frame
<1>2. /\ At(t, "check.member") => PressOK(messages, F("check.clear"))
      /\ PressOK(messages, F("check.deny"))
      /\ PressOK(messages, F("check.answer"))
      /\ PressOK(messages, F("check.confirm"))
  BY <1>0, <1>1 DEF PressOK, ClickOK, Holding, At
<1>3. CASE CheckMember(t)
  <2>1. PICK pc \in {"check.clear", "check.deny"} : Request(t, F(pc))
    BY <1>3 DEF CheckMember
  <2>2. PressOK(messages, F(pc))
    BY <1>2, <1>3, <2>1 DEF CheckMember
  <2>3. InChat(F(pc), frame[t].chat) /\ Standing(frame[t], F(pc))
    BY <1>1 DEF InChat, Standing, OpeningAwaits, ConfirmingAwaits
  <2> HIDE DEF F
  <2> QED
    BY <2>1, <2>2, <2>3, RequestBInv
<1>4. CASE CheckDeny(t)
  <2>1. Standing(frame[t], NoFrame)
    BY NoFrameElsewhere DEF Standing, Elsewhere
  <2> QED
    BY <1>4, <2>1, NoFrameElsewhere, RequestBInv DEF CheckDeny
<1>5. CASE CheckClear(t)
  <2>1. Clear(t, frame[t].click, F("check.answer"))
    BY <1>5 DEF CheckClear
  <2>2. ClickOK(messages, frame[t], "welcome")
    BY <1>0, <1>5 DEF CheckClear, At, PressOK
  <2>3. F("check.answer").pc \notin OpeningAwaits
    BY <1>1 DEF OpeningAwaits
  <2>4. F("check.answer").chat = frame[t].chat
    BY <1>1
  <2> HIDE DEF F
  <2> QED
    BY <1>2, <2>1, <2>2, <2>3, <2>4, ClearBInv
<1>6. CASE CheckAnswer(t)
  <2>1. /\ InChat(F("check.confirm"), frame[t].chat)
        /\ Standing(frame[t], F("check.confirm"))
    BY <1>1, <1>6
    DEF CheckAnswer, At, InChat, Standing, OpeningAwaits, ConfirmingAwaits
  <2>2. Request(t, F("check.confirm"))
    BY <1>6 DEF CheckAnswer
  <2> HIDE DEF F
  <2> QED
    BY <1>2, <2>1, <2>2, RequestBInv
<1>7. CASE CheckConfirm(t)
  <2>1. Send(t, Confirmed, NoFrame) /\ frame[t].pc \in ConfirmingAwaits
    BY <1>7 DEF CheckConfirm, At, ConfirmingAwaits
  <2>2. Confirmed \in Message /\ ButtonOK(Confirmed)
    BY ButtonsSent, MessageTypes
  <2> QED
    BY <2>1, <2>2, SendEndsBInv
<1> QED
  BY <1>3, <1>4, <1>5, <1>6, <1>7 DEF CheckSubscription

(* A message is sent and its id set in the object held. *)
LEMMA SendIdBInv ==
  ASSUME BInv, IInv', NEW t \in Tasks, frame[t].pc \in Holding,
         NEW pc \in {"want.update", "resume.update"}, NEW new \in Message,
         ButtonOK(new), new.kind \in Editable,
         Send(t, new,
              [frame[t] EXCEPT
                 !.pc = pc,
                 !.obj = SetMessageId(frame[t].obj,
                                      Len(messages[frame[t].chat]) + 1)])
  PROVE  BInv'
<1> DEFINE c   == frame[t].chat
           m   == Len(messages[c]) + 1
           o   == SetMessageId(frame[t].obj, m)
           f   == [frame[t] EXCEPT !.pc = pc, !.obj = o]
           log == Append(messages[c], new)
<1>1. /\ frame[t] \in Frame /\ frame[t].obj \in Object /\ c \in Chats
      /\ messages[c] \in Seq(Message)
      /\ messages \in [Chats -> Seq(Message)]
  BY IInvFacts, FrameFields DEF BInv
<1>2. o.row.message_id = m
  BY <1>1 DEF SetMessageId, Object, Row
<1>3. m \in DOMAIN log /\ log[m] = new
  <2>1. /\ log \in Seq(Message) /\ Len(log) = m /\ log[m] = new
        /\ Len(messages[c]) \in Nat
    BY <1>1, AppendProperties, LenProperties
  <2> HIDE DEF log
  <2> QED
    BY <2>1, LenProperties
<1> HIDE DEF o, m, log
<1>4. f.pc = pc /\ f.obj = o /\ f.chat = c
  BY <1>1 DEF Frame
<1>5. Send(t, new, f)
  BY DEF o, m
<1> HIDE DEF f
<1>6. [messages EXCEPT ![c] = log][c] = log
  BY <1>1
<1>7. PressOK([messages EXCEPT ![c] = log], f)
  BY <1>2, <1>3, <1>4, <1>6 DEF PressOK, IdOK
<1>8. InChat(f, c) /\ Elsewhere(f)
  BY <1>4 DEF InChat, Elsewhere, OpeningAwaits, ConfirmingAwaits
<1>9. new.kind # "confirmed"
  BY DEF Editable
<1> QED
  BY <1>5, <1>7, <1>8, <1>9, SendBInv DEF log

(* requestFullName: the row is inserted by the handler that has removed    *)
(* the second button, once.                                                *)
LEMMA WantSaveBInv ==
  ASSUME BInv, IInv', NEW t \in Tasks, WantSave(t)
  PROVE  BInv'
<1> DEFINE c     == frame[t].chat
           table == Inserted(registrations, c)
           o     == Snapshot(table, Len(table))
           f     == [frame[t] EXCEPT !.pc = "want.prompt", !.obj = o]
           r     == [chat_id |-> c, state |-> WaitingName, message_id |-> 0,
                     answers |-> Blank]
<1>1. /\ IInv /\ frame[t] \in Frame /\ c \in Chats
      /\ registrations \in Seq(Row)
      /\ frame[t].pc = "want.save"
  BY IInvFacts, FrameFields DEF BInv, WantSave, At
<1>2. r \in Row /\ r.chat_id = c /\ r.message_id = 0
  BY <1>1, CompletedIsLast, StatesAreNaturals DEF Row, Answers, Blank
<1>3. table = Append(registrations, r)
  BY DEF Inserted
<1>4. /\ Statement(t, table, f)
         \/ /\ registrations' = table
            /\ Throw(t, CatchesDatabase)
            /\ UNCHANGED messages
  BY DEF WantSave
<1> HIDE DEF r, table
<1>5. /\ table \in Seq(Row)
      /\ Len(table) = Len(registrations) + 1
      /\ \A i \in 1..Len(registrations) : table[i] = registrations[i]
      /\ table[Len(registrations) + 1] = r
  BY <1>1, <1>2, <1>3, AppendProperties
<1>6. /\ DOMAIN registrations = 1..Len(registrations)
      /\ DOMAIN table = 1..(Len(registrations) + 1)
      /\ Len(registrations) \in Nat
  BY <1>1, <1>5, LenProperties
<1>7. /\ \A d \in Chats \ {c} :
           RowsOf(table, d) \subseteq RowsOf(registrations, d)
      /\ RowsOf(table, c)
           \subseteq RowsOf(registrations, c) \cup {Len(registrations) + 1}
  BY <1>2, <1>5, <1>6 DEF RowsOf
<1>8. RowsOK(table, messages)
  BY <1>2, <1>5, <1>6 DEF BInv, RowsOK, IdOK
<1>9. o.row.message_id = 0
  BY <1>2, <1>5 DEF Snapshot
<1> HIDE DEF o
<1>10. f.pc = "want.prompt" /\ f.obj = o /\ f.chat = c
  BY <1>1 DEF Frame
<1> HIDE DEF f
<1>11. PressOK(messages, f) /\ InChat(f, c)
  BY <1>9, <1>10 DEF PressOK, IdOK, InChat
<1>12. ASSUME NEW g, g.pc \notin OpeningAwaits
       PROVE  Progress(frame[t], g, OpeningAwaits,
                       RowsOf(registrations, c), RowsOf(table, c),
                       PressedIn(messages[c], "confirmed"),
                       PressedIn(messages[c], "confirmed"))
  BY <1>1, <1>7, <1>12 DEF Progress, OpeningAwaits
<1>13. CASE Statement(t, table, f)
  <2>1. f.pc \notin OpeningAwaits /\ f.pc \notin ConfirmingAwaits
    BY <1>10 DEF OpeningAwaits, ConfirmingAwaits
  <2>2. Progress(frame[t], f, OpeningAwaits,
                 RowsOf(registrations, c), RowsOf(table, c),
                 PressedIn(messages[c], "confirmed"),
                 PressedIn(messages[c], "confirmed"))
    BY <1>12, <2>1
  <2> QED
    BY <1>7, <1>8, <1>11, <1>13, <2>1, <2>2, StatementBInv
<1>14. CASE /\ registrations' = table
            /\ Throw(t, CatchesDatabase)
            /\ UNCHANGED messages
  <2>1. frame'[t] = NoFrame /\ OthersStay(t, frame, frame')
    BY <1>1, <1>14, ThrowEnds
  <2>2. NoFrame.pc \notin OpeningAwaits /\ NoFrame.pc \notin ConfirmingAwaits
    BY NoFrameElsewhere DEF Elsewhere
  <2>3. ChatOnly(c, messages, messages')
    BY <1>1, <1>14, ChatStays
  <2>4. /\ InChat(frame[t], c) /\ InChat(frame'[t], c)
        /\ PressOK(messages', frame'[t])
    BY <2>1, NoFrameElsewhere DEF InChat
  <2>5. Progress(frame[t], frame'[t], OpeningAwaits,
                 RowsOf(registrations, c), RowsOf(registrations', c),
                 PressedIn(messages[c], "confirmed"),
                 PressedIn(messages'[c], "confirmed"))
    BY <1>12, <1>14, <2>1, <2>2
  <2>6. Progress(frame[t], frame'[t], ConfirmingAwaits,
                 ConfirmedIn(messages[c]), ConfirmedIn(messages'[c]),
                 PressedIn(messages[c], "welcome"),
                 PressedIn(messages'[c], "welcome"))
    BY <1>14, <2>1, <2>2 DEF Progress
  <2>7. /\ RowsOK(registrations', messages')
        /\ \A d \in Chats \ {c} :
             RowsOf(registrations', d) \subseteq RowsOf(registrations, d)
    BY <1>7, <1>8, <1>14
  <2> HIDE DEF c
  <2> QED
    BY <1>1, <2>1, <2>3, <2>4, <2>5, <2>6, <2>7, StepBInv
<1> QED
  BY <1>4, <1>13, <1>14

(* "want to participate" *)
LEMMA WantBInv ==
  ASSUME BInv, IInv', NEW t \in Tasks, AnswerWantParticipateQuery(t)
  PROVE  BInv'
<1>0. /\ IInv /\ frame[t] \in Frame /\ PressOK(messages, frame[t])
  BY IInvFacts DEF BInv
<1> DEFINE F(pc) == [frame[t] EXCEPT !.pc = pc]
<1>1. \A pc : /\ F(pc).pc = pc /\ F(pc).chat = frame[t].chat
              /\ F(pc).click = frame[t].click
  BY <1>0 DEF Frame
<1>2. /\ At(t, "want.answer") => PressOK(messages, F("want.clear"))
      /\ PressOK(messages, F("want.contest"))
      /\ PressOK(messages, F("want.save"))
  BY <1>0, <1>1 DEF PressOK, ClickOK, Holding, At
<1>3. CASE WantAnswer(t)
  <2>1. /\ InChat(F("want.clear"), frame[t].chat)
        /\ Standing(frame[t], F("want.clear"))
    BY <1>1 DEF InChat, Standing, OpeningAwaits, ConfirmingAwaits
  <2>2. Request(t, F("want.clear")) /\ PressOK(messages, F("want.clear"))
    BY <1>2, <1>3 DEF WantAnswer
  <2> HIDE DEF F
  <2> QED
    BY <2>1, <2>2, RequestBInv
<1>4. CASE WantClear(t)
  <2>1. Clear(t, frame[t].click, F("want.contest"))
    BY <1>4 DEF WantClear
  <2>2. ClickOK(messages, frame[t], "confirmed")
    BY <1>0, <1>4 DEF WantClear, At, PressOK
  <2>3. F("want.contest").pc \notin ConfirmingAwaits
    BY <1>1 DEF ConfirmingAwaits
  <2>4. F("want.contest").chat = frame[t].chat
    BY <1>1
  <2> HIDE DEF F
  <2> QED
    BY <1>2, <2>1, <2>2, <2>3, <2>4, ClearBInv
<1>5. CASE WantContest(t)
  <2>1. /\ InChat(F("want.save"), frame[t].chat)
        /\ Standing(frame[t], F("want.save"))
    BY <1>1, <1>5
    DEF WantContest, At, InChat, Standing, OpeningAwaits, ConfirmingAwaits
  <2>2. Request(t, F("want.save"))
    BY <1>5 DEF WantContest
  <2> HIDE DEF F
  <2> QED
    BY <1>2, <2>1, <2>2, RequestBInv
<1>6. CASE WantPrompt(t)
  <2>1. /\ Prompt(WaitingName) \in Message /\ ButtonOK(Prompt(WaitingName))
        /\ Prompt(WaitingName).kind \in Editable
    BY ButtonsSent, MessageTypes, CompletedIsLast, StatesAreNaturals
  <2>2. frame[t].pc \in Holding
    BY <1>6 DEF WantPrompt, At, Holding
  <2>3. Send(t, Prompt(WaitingName),
             [frame[t] EXCEPT
                !.pc = "want.update",
                !.obj = SetMessageId(frame[t].obj,
                                     Len(messages[frame[t].chat]) + 1)])
    BY <1>0, <1>6 DEF WantPrompt, Frame
  <2> QED
    BY <2>1, <2>2, <2>3, SendIdBInv
<1>7. CASE WantUpdate(t)
  BY <1>7, NoFrameElsewhere, UpdateBInv DEF WantUpdate, At, Holding
<1> QED
  BY <1>3, <1>4, <1>5, <1>6, <1>7, WantSaveBInv
  DEF AnswerWantParticipateQuery

(* A coroutine that leaves showFormPrompt for the thanks, or ends. *)
LEMMA AfterFormElsewhere ==
  ASSUME BInv, NEW t \in Tasks
  PROVE  \/ AfterForm(t) = NoFrame
         \/ /\ AfterForm(t).pc = "save.thanks"
            /\ AfterForm(t).chat = frame[t].chat
<1>1. frame[t] \in Frame
  BY IInvFacts DEF BInv
<1> QED
  BY <1>1 DEF AfterForm, Frame

(* A frame that holds an object with a good id, elsewhere. *)
LEMMA HoldsId ==
  ASSUME NEW chats, NEW f, IdOK(chats, f.chat, f.obj.row.message_id),
         f.pc \notin {"want.answer", "want.clear", "check.member",
                      "check.clear"}
  PROVE  PressOK(chats, f)
BY DEF PressOK

(* A frame that holds none. *)
LEMMA HoldsNothing ==
  ASSUME NEW f, f.pc \in {"form.find", "form.prompt", "save.find",
                          "save.thanks", "start.welcome", "back.unknown",
                          "back.outdated"}
  PROVE  (\A chats : PressOK(chats, f)) /\ Elsewhere(f)
BY DEF PressOK, Holding, Elsewhere, OpeningAwaits, ConfirmingAwaits

(* Being elsewhere is no standing. *)
LEMMA ElsewhereStands ==
  ASSUME NEW f, NEW g, Elsewhere(g)
  PROVE  Standing(f, g)
BY DEF Standing, Elsewhere

(* showFormPrompt *)
LEMMA FormBInv ==
  ASSUME BInv, IInv', NEW t \in Tasks, ShowFormPrompt(t)
  PROVE  BInv'
<1>0. /\ IInv /\ frame[t] \in Frame /\ PressOK(messages, frame[t])
      /\ frame[t].obj \in Object /\ frame[t].step \in States
      /\ frame[t].chat \in Chats
  BY IInvFacts, FrameFields DEF BInv
<1> DEFINE c == frame[t].chat
<1>1. /\ \A chats : PressOK(chats, AfterForm(t))
      /\ Elsewhere(AfterForm(t)) /\ InChat(AfterForm(t), c)
  BY AfterFormElsewhere, NoFrameElsewhere, HoldsNothing DEF InChat
<1>2. CASE FormFind(t)
  <2> DEFINE o   == Snapshot(registrations, TheRow(registrations, c))
             new == SetState(o, frame[t].step)
             f   == [frame[t] EXCEPT !.pc = "form.update", !.obj = new]
  <2>1. CASE Found(registrations, c)
    <3>1. o \in Object /\ IdOK(messages, c, o.row.message_id)
      BY <2>1, FoundId
    <3>2. Statement(t, registrations, f)
      BY <1>2, <2>1 DEF FormFind, FindByChatId
    <3> HIDE DEF o
    <3>3. new.row.message_id = o.row.message_id
      <4> DEFINE s == frame[t].step
      <4>1. s \in States
        BY <1>0
      <4> HIDE DEF s
      <4>2. SetState(o, s).row.message_id = o.row.message_id
        BY <3>1, <4>1 DEF SetState, Object, Row
      <4> QED
        BY <4>2 DEF s
    <3> HIDE DEF new
    <3>4. f.pc = "form.update" /\ f.obj = new /\ f.chat = c
      BY <1>0 DEF Frame
    <3> HIDE DEF f, c
    <3>5. PressOK(messages, f)
      BY <3>1, <3>3, <3>4, HoldsId
    <3>6. InChat(f, c) /\ Standing(frame[t], f)
      BY <3>4 DEF InChat, Standing, OpeningAwaits, ConfirmingAwaits
    <3> QED
      BY <3>2, <3>5, <3>6, FindBInv DEF c
  <2>2. CASE ~Found(registrations, c)
    <3>1. Statement(t, registrations, AfterForm(t))
      BY <1>2, <2>2 DEF FormFind, FindByChatId
    <3> QED
      BY <1>1, <3>1, ElsewhereStands, FindBInv
  <2> QED
    BY <2>1, <2>2
<1>3. CASE FormUpdate(t)
  <2> DEFINE f == [frame[t] EXCEPT !.pc = "form.edit"]
  <2>1. f.pc = "form.edit" /\ f.obj = frame[t].obj /\ f.chat = c
    BY <1>0 DEF Frame
  <2>2. Update(t, f) /\ frame[t].pc = "form.update"
    BY <1>3 DEF FormUpdate, At
  <2> HIDE DEF f
  <2>3. frame[t].pc \in Holding
    BY <2>2 DEF Holding
  <2>4. PressOK(messages, f)
    BY <1>0, <2>1, <2>3, HoldsId DEF PressOK
  <2>5. InChat(f, c) /\ Elsewhere(f)
    BY <2>1 DEF InChat, Elsewhere, OpeningAwaits, ConfirmingAwaits
  <2> QED
    BY <2>2, <2>3, <2>4, <2>5, UpdateBInv
<1>4. CASE FormEdit(t)
  <2> DEFINE f   == [frame[t] EXCEPT !.pc = "form.prompt", !.obj = NoObject]
             row == frame[t].obj.row
             new == Form(row.answers, frame[t].step)
  <2>1. f.pc = "form.prompt" /\ f.chat = c
    BY <1>0 DEF Frame
  <2>2. Edit(t, row.message_id, new, f) /\ frame[t].pc = "form.edit"
    BY <1>4 DEF FormEdit, At
  <2>3. IdOK(messages, c, row.message_id)
    BY <1>0, <2>2 DEF PressOK, Holding
  <2>4. row.answers \in Answers /\ row.message_id \in Nat
    BY <1>0, ObjectFields, RowFields
  <2>5. new \in Message /\ ButtonOK(new) /\ new.kind \in Editable
    BY <1>0, <2>4, MessageTypes, ButtonsSent
  <2> HIDE DEF f, new
  <2>6. PressOK(messages, f) /\ Elsewhere(f)
    BY <2>1, HoldsNothing
  <2> QED
    BY <2>1, <2>2, <2>3, <2>4, <2>5, <2>6, EditBInv
<1>5. CASE FormPrompt(t)
  <2>1. LET new == Prompt(frame[t].step)
        IN  new \in Message /\ ButtonOK(new) /\ new.kind \in Editable
    BY <1>0, MessageTypes, ButtonsSent
  <2>2. Send(t, Prompt(frame[t].step), AfterForm(t))
    BY <1>5 DEF FormPrompt
  <2> QED
    BY <1>1, <2>1, <2>2, AfterFormElsewhere, SendEndsBInv DEF Editable
<1> QED
  BY <1>2, <1>3, <1>4, <1>5 DEF ShowFormPrompt

(* The answer handlers *)
LEMMA MessageBInv ==
  ASSUME BInv, IInv', NEW t \in Tasks, ProcessMessage(t)
  PROVE  BInv'
<1>0. /\ IInv /\ frame[t] \in Frame /\ PressOK(messages, frame[t])
      /\ FrameOK(registrations, frame[t]) /\ frame[t].step \in States
  BY IInvFacts, FrameFields DEF BInv
<1> DEFINE o == Snapshot(registrations, TheRow(registrations, frame[t].chat))
<1>1. CASE MessageFind(t)
  <2> DEFINE f == [frame[t] EXCEPT !.pc = "save.find", !.step = o.row.state]
  <2>1. f.pc = "save.find" /\ f.chat = frame[t].chat
    BY <1>0 DEF Frame
  <2>2. \E g \in {f, NoFrame} : Statement(t, registrations, g)
    BY <1>1 DEF MessageFind, FindByChatId
  <2> HIDE DEF f
  <2>3. \A g \in {f, NoFrame} :
          PressOK(messages, g) /\ Elsewhere(g) /\ InChat(g, frame[t].chat)
    BY <2>1, HoldsNothing, NoFrameElsewhere DEF InChat
  <2> QED
    BY <2>2, <2>3, ElsewhereStands, FindBInv
<1>2. CASE SaveFind(t)
  <2> DEFINE new == SavedAnswer(o, frame[t].step, frame[t].text)
             f   == [frame[t] EXCEPT !.pc = "save.update", !.obj = new]
  <2>1. CASE Found(registrations, frame[t].chat)
    <3>1. /\ o \in Object
          /\ IdOK(messages, frame[t].chat, o.row.message_id)
      BY <2>1, FoundId
    <3>2. \E g \in {f, NoFrame} : Statement(t, registrations, g)
      BY <1>2, <2>1 DEF SaveFind, FindByChatId
    <3> HIDE DEF o
    <3>3. new.row.message_id = o.row.message_id
      BY <1>0, <1>2, <3>1, SettersKeepId DEF SaveFind, At, FrameOK
    <3> HIDE DEF new
    <3>4. f.pc = "save.update" /\ f.obj = new /\ f.chat = frame[t].chat
      BY <1>0 DEF Frame
    <3> HIDE DEF f
    <3>5. PressOK(messages, f)
      BY <3>1, <3>3, <3>4, HoldsId
    <3>6. Elsewhere(f) /\ InChat(f, frame[t].chat)
      BY <3>4 DEF Elsewhere, InChat, OpeningAwaits, ConfirmingAwaits
    <3> QED
      BY <3>2, <3>5, <3>6, NoFrameElsewhere, ElsewhereStands, FindBInv
  <2>2. CASE ~Found(registrations, frame[t].chat)
    <3>1. Statement(t, registrations, NoFrame)
      BY <1>2, <2>2 DEF SaveFind, FindByChatId
    <3> QED
      BY <3>1, NoFrameElsewhere, ElsewhereStands, FindBInv
  <2> QED
    BY <2>1, <2>2
<1>3. CASE SaveUpdate(t)
  <2> DEFINE f == [frame[t] EXCEPT !.pc = "form.find",
                                   !.step = NextState(frame[t].step),
                                   !.text = NoText, !.obj = NoObject]
  <2>1. f.pc = "form.find" /\ f.chat = frame[t].chat
    BY <1>0 DEF Frame
  <2>2. Update(t, f) /\ frame[t].pc \in Holding
    BY <1>0, <1>3 DEF SaveUpdate, Frame, At, Holding
  <2> HIDE DEF f
  <2>3. PressOK(messages, f) /\ Elsewhere(f) /\ InChat(f, frame[t].chat)
    BY <2>1, HoldsNothing DEF InChat
  <2> QED
    BY <2>2, <2>3, UpdateBInv
<1>4. CASE SaveThanks(t)
  BY <1>4, ButtonsSent, MessageTypes, SendEndsBInv DEF SaveThanks
<1> QED
  BY <1>1, <1>2, <1>3, <1>4 DEF ProcessMessage

(* replyBackQuery *)
LEMMA BackBInv ==
  ASSUME BInv, IInv', NEW t \in Tasks, ReplyBackQuery(t)
  PROVE  BInv'
<1>0. /\ IInv /\ frame[t] \in Frame /\ PressOK(messages, frame[t])
      /\ frame[t].obj \in Object
  BY IInvFacts, FrameFields DEF BInv
<1>1. CASE BackFind(t)
  <2> DEFINE o  == Snapshot(registrations,
                            TheRow(registrations, frame[t].chat))
             f1 == [frame[t] EXCEPT !.pc = "back.outdated"]
             f2 == [frame[t] EXCEPT !.pc = "back.answer", !.obj = o]
             f3 == [frame[t] EXCEPT !.pc = "back.unknown"]
  <2>1. \A g \in {f1, f3} :
          PressOK(messages, g) /\ Elsewhere(g) /\ InChat(g, frame[t].chat)
    <3>1. /\ f1.pc = "back.outdated" /\ f3.pc = "back.unknown"
          /\ f1.chat = frame[t].chat /\ f3.chat = frame[t].chat
      BY <1>0 DEF Frame
    <3> HIDE DEF f1, f3
    <3> QED
      BY <3>1, HoldsNothing DEF InChat
  <2>2. CASE Found(registrations, frame[t].chat)
    <3>1. IdOK(messages, frame[t].chat, o.row.message_id)
      BY <2>2, FoundId
    <3>2. \E g \in {f1, f2} : Statement(t, registrations, g)
      BY <1>1, <2>2 DEF BackFind, FindByChatId
    <3> HIDE DEF o
    <3>3. f2.pc = "back.answer" /\ f2.obj = o /\ f2.chat = frame[t].chat
      BY <1>0 DEF Frame
    <3> HIDE DEF f1, f2, f3
    <3>4. PressOK(messages, f2) /\ Elsewhere(f2) /\ InChat(f2, frame[t].chat)
      BY <3>1, <3>3, HoldsId
      DEF Elsewhere, InChat, OpeningAwaits, ConfirmingAwaits
    <3> QED
      BY <2>1, <3>2, <3>4, ElsewhereStands, FindBInv
  <2>3. CASE ~Found(registrations, frame[t].chat)
    <3>1. Statement(t, registrations, f3)
      BY <1>1, <2>3 DEF BackFind, FindByChatId
    <3> HIDE DEF f1, f3
    <3> QED
      BY <2>1, <3>1, ElsewhereStands, FindBInv
  <2> QED
    BY <2>2, <2>3
<1>2. CASE BackRefuse(t)
  BY <1>2, NoFrameElsewhere, ElsewhereStands, RequestBInv DEF BackRefuse
<1>3. CASE BackAnswer(t)
  <2> DEFINE o   == frame[t].obj
             new == SteppedBack(o)
             f   == [frame[t] EXCEPT !.pc = "back.update",
                                     !.step = PrevState(o.row.state),
                                     !.obj = new]
  <2>1. /\ new.row.message_id = o.row.message_id
        /\ IdOK(messages, frame[t].chat, o.row.message_id)
    BY <1>0, <1>3, SettersKeepId DEF BackAnswer, At, PressOK, Holding
  <2>2. \E g \in {f, NoFrame} : Request(t, g)
    BY <1>3 DEF BackAnswer
  <2> HIDE DEF new
  <2>3. f.pc = "back.update" /\ f.obj = new /\ f.chat = frame[t].chat
    BY <1>0 DEF Frame
  <2> HIDE DEF f
  <2>4. PressOK(messages, f) /\ Elsewhere(f) /\ InChat(f, frame[t].chat)
    BY <2>1, <2>3, HoldsId
    DEF Elsewhere, InChat, OpeningAwaits, ConfirmingAwaits
  <2> QED
    BY <2>2, <2>4, NoFrameElsewhere, ElsewhereStands, RequestBInv
<1>4. CASE BackUpdate(t)
  <2> DEFINE f == [frame[t] EXCEPT !.pc = "form.find", !.obj = NoObject]
  <2>1. f.pc = "form.find" /\ f.chat = frame[t].chat
    BY <1>0 DEF Frame
  <2>2. Update(t, f) /\ frame[t].pc \in Holding
    BY <1>4 DEF BackUpdate, At, Holding
  <2> HIDE DEF f
  <2>3. PressOK(messages, f) /\ Elsewhere(f) /\ InChat(f, frame[t].chat)
    BY <2>1, HoldsNothing DEF InChat
  <2> QED
    BY <2>2, <2>3, UpdateBInv
<1> QED
  BY <1>1, <1>2, <1>3, <1>4 DEF ReplyBackQuery

(* A step in one chat that only takes keyboards away, or nothing. *)
LEMMA MovesBInv ==
  ASSUME BInv, IInv', NEW t \in Tasks, NEW c \in Chats, NEW f, Resume(t, f),
         InChat(frame[t], c), InChat(f, c), Elsewhere(f),
         PressOK(messages', f), UNCHANGED registrations,
         ChatOnly(c, messages, messages'),
         ConfirmedIn(messages'[c]) \subseteq ConfirmedIn(messages[c])
  PROVE  BInv'
<1>1. /\ IInv /\ registrations \in Seq(Row)
      /\ frame'[t] = f /\ OthersStay(t, frame, frame')
  BY IInvFacts, ResumeGoes DEF BInv
<1>2. RowsOK(registrations', messages')
  <2>1. \A i \in DOMAIN registrations : registrations[i].chat_id \in Chats
    BY <1>1, RowFields
  <2> QED
    BY <2>1, IdStays DEF BInv, RowsOK
<1>3. f.pc \notin OpeningAwaits /\ f.pc \notin ConfirmingAwaits
  BY DEF Elsewhere
<1>4. /\ Progress(frame[t], frame'[t], OpeningAwaits,
                  RowsOf(registrations, c), RowsOf(registrations', c),
                  PressedIn(messages[c], "confirmed"),
                  PressedIn(messages'[c], "confirmed"))
      /\ Progress(frame[t], frame'[t], ConfirmingAwaits,
                  ConfirmedIn(messages[c]), ConfirmedIn(messages'[c]),
                  PressedIn(messages[c], "welcome"),
                  PressedIn(messages'[c], "welcome"))
  BY <1>1, <1>3 DEF Progress
<1> QED
  BY <1>1, <1>2, <1>4, StepBInv

(* resumeRegistration, the keyboard of the previous form. *)
LEMMA ResumeClearBInv ==
  ASSUME BInv, IInv', NEW t \in Tasks, ResumeClear(t)
  PROVE  BInv'
<1> DEFINE c   == frame[t].chat
           m   == frame[t].obj.row.message_id
           old == messages[c]
           log == Cleared(old, m)
           f   == [frame[t] EXCEPT !.pc = "resume.form"]
<1>1. /\ frame[t] \in Frame /\ c \in Chats
      /\ messages \in [Chats -> Seq(Message)]
      /\ old \in Seq(Message) /\ Chatted(old, old)
      /\ frame[t].pc = "resume.clear"
      /\ PressOK(messages, frame[t])
  BY IInvFacts, FrameFields, ChatStays DEF BInv, ResumeClear, At
<1>2. f.pc = "resume.form" /\ f.obj = frame[t].obj /\ f.chat = c
  BY <1>1 DEF Frame
<1>3. Resume(t, f) /\ UNCHANGED registrations
  BY DEF ResumeClear, Goto
<1>4. \/ UNCHANGED messages
      \/ CanClear(old, m) /\ messages' = [messages EXCEPT ![c] = log]
  BY DEF ResumeClear
<1> HIDE DEF f
<1>5. PressOK(messages, f) /\ Elsewhere(f) /\ InChat(f, c)
      /\ InChat(frame[t], c)
  <2>1. IdOK(messages, c, f.obj.row.message_id)
    BY <1>1, <1>2 DEF PressOK, Holding
  <2> QED
    BY <1>2, <2>1, HoldsId
    DEF Elsewhere, InChat, OpeningAwaits, ConfirmingAwaits
<1>6. CASE UNCHANGED messages
  <2>1. ChatOnly(c, messages, messages')
    BY <1>1, <1>6, ChatStays
  <2> HIDE DEF c, m, old, log
  <2> QED
    BY <1>1, <1>3, <1>5, <1>6, <2>1, MovesBInv
<1>7. CASE CanClear(old, m) /\ messages' = [messages EXCEPT ![c] = log]
  <2>1. Chatted(old, log) /\ ConfirmedIn(log) \subseteq ConfirmedIn(old)
    BY <1>1, <1>7, ClearedChat
  <2> HIDE DEF log
  <2>2. /\ messages'[c] = log
        /\ ChatOnly(c, messages, messages')
    BY <1>1, <1>7, <2>1 DEF ChatOnly
  <2>3. PressOK(messages', f)
    BY <1>1, <1>2, <1>5, <2>2, PressStays
  <2> HIDE DEF c, m
  <2> QED
    BY <1>1, <1>3, <1>5, <2>1, <2>2, <2>3, MovesBInv
<1> QED
  BY <1>4, <1>6, <1>7

(* resumeRegistration *)
LEMMA ResumeBInv ==
  ASSUME BInv, IInv', NEW t \in Tasks, ResumeRegistration(t)
  PROVE  BInv'
<1>0. /\ IInv /\ frame[t] \in Frame /\ PressOK(messages, frame[t])
      /\ frame[t].obj.row.state \in States
      /\ frame[t].obj.row.answers \in Answers
  BY IInvFacts, FrameFields, ObjectFields, RowFields DEF BInv
<1>1. CASE ResumeThanks(t)
  BY <1>1, ButtonsSent, MessageTypes, SendEndsBInv DEF ResumeThanks
<1>2. CASE ResumeClear(t)
  BY <1>2, ResumeClearBInv
<1>3. CASE ResumeForm(t)
  <2> DEFINE row == frame[t].obj.row
             new == Form(row.answers, row.state)
  <2>1. new \in Message /\ ButtonOK(new) /\ new.kind \in Editable
    BY <1>0, MessageTypes, ButtonsSent
  <2>2. frame[t].pc \in Holding
    BY <1>3 DEF ResumeForm, At, Holding
  <2>3. Send(t, new,
             [frame[t] EXCEPT
                !.pc = "resume.update",
                !.obj = SetMessageId(frame[t].obj,
                                     Len(messages[frame[t].chat]) + 1)])
    BY <1>3 DEF ResumeForm
  <2> QED
    BY <2>1, <2>2, <2>3, SendIdBInv
<1>4. CASE ResumeUpdate(t)
  <2> DEFINE f == [frame[t] EXCEPT !.pc = "resume.prompt"]
  <2>1. /\ f.pc = "resume.prompt" /\ f.obj = frame[t].obj
        /\ f.chat = frame[t].chat
    BY <1>0 DEF Frame
  <2>2. Update(t, f) /\ frame[t].pc \in Holding
    BY <1>4 DEF ResumeUpdate, At, Holding
  <2> HIDE DEF f
  <2>3. PressOK(messages, f)
    BY <1>0, <2>1, <2>2, HoldsId DEF PressOK
  <2>4. Elsewhere(f) /\ InChat(f, frame[t].chat)
    BY <2>1 DEF Elsewhere, InChat, OpeningAwaits, ConfirmingAwaits
  <2> QED
    BY <2>2, <2>3, <2>4, UpdateBInv
<1>5. CASE ResumePrompt(t)
  <2> DEFINE new == Prompt(frame[t].obj.row.state)
  <2>1. new \in Message /\ ButtonOK(new) /\ new.kind = "prompt"
    BY <1>0, MessageTypes, ButtonsSent
  <2>2. Send(t, new, NoFrame)
    BY <1>5 DEF ResumePrompt
  <2> HIDE DEF new
  <2> QED
    BY <2>1, <2>2, SendEndsBInv
<1> QED
  BY <1>1, <1>2, <1>3, <1>4, <1>5 DEF ResumeRegistration

(* replyStartCommand *)
LEMMA StartBInv ==
  ASSUME BInv, IInv', NEW t \in Tasks, ReplyStartCommand(t)
  PROVE  BInv'
<1>0. frame[t] \in Frame
  BY IInvFacts DEF BInv
<1>1. CASE StartFind(t)
  <2> DEFINE o == Snapshot(registrations,
                           TheRow(registrations, frame[t].chat))
             f == ResumeWith(t, o)
             g == [frame[t] EXCEPT !.pc = "start.welcome"]
  <2>1. CASE Found(registrations, frame[t].chat)
    <3>1. IdOK(messages, frame[t].chat, o.row.message_id)
      BY <2>1, FoundId
    <3>2. Statement(t, registrations, f)
      BY <1>1, <2>1 DEF StartFind, FindByChatId
    <3> HIDE DEF o
    <3>3. /\ f.pc \in {"resume.thanks", "resume.clear", "resume.form"}
          /\ f.obj = o /\ f.chat = frame[t].chat
      BY <1>0 DEF ResumeWith, Frame
    <3> HIDE DEF f
    <3>4. PressOK(messages, f) /\ Elsewhere(f) /\ InChat(f, frame[t].chat)
      BY <3>1, <3>3, HoldsId
      DEF Elsewhere, InChat, OpeningAwaits, ConfirmingAwaits
    <3> QED
      BY <3>2, <3>4, ElsewhereStands, FindBInv
  <2>2. CASE ~Found(registrations, frame[t].chat)
    <3>1. Statement(t, registrations, g)
      BY <1>1, <2>2 DEF StartFind, FindByChatId
    <3>2. g.pc = "start.welcome" /\ g.chat = frame[t].chat
      BY <1>0 DEF Frame
    <3> HIDE DEF g
    <3>3. PressOK(messages, g) /\ Elsewhere(g) /\ InChat(g, frame[t].chat)
      BY <3>2, HoldsNothing DEF InChat
    <3> QED
      BY <3>1, <3>3, ElsewhereStands, FindBInv
  <2> QED
    BY <2>1, <2>2
<1>2. CASE StartWelcome(t)
  BY <1>2, ButtonsSent, MessageTypes, SendEndsBInv DEF StartWelcome
<1> QED
  BY <1>1, <1>2 DEF ReplyStartCommand

-----------------------------------------------------------------------------
(* The bot. *)

(* A handler starts at its first await, and for a button that is there. *)
LEMMA DeliverBInv ==
  ASSUME BInv, IInv', NEW t \in Tasks, NEW c \in Chats, NEW f,
         Deliver(t, c, f), f.chat = c,
         f.pc \in {"start.find", "message.find", "check.member",
                   "want.answer", "back.find"},
         f.pc = "want.answer" => ClickOK(messages, f, "confirmed"),
         f.pc = "check.member" => ClickOK(messages, f, "welcome")
  PROVE  BInv'
<1>1. /\ UNCHANGED <<registrations, messages>>
      /\ Resume(t, f) /\ InChat(frame[t], c)
  BY DEF Deliver, Spawn, At, InChat
<1>2. PressOK(messages', f) /\ Elsewhere(f) /\ InChat(f, c)
  BY <1>1
  DEF PressOK, Holding, Elsewhere, InChat, OpeningAwaits, ConfirmingAwaits
<1>3. ChatOnly(c, messages, messages')
  BY <1>1, ChatStays
<1> QED
  BY <1>1, <1>2, <1>3, MovesBInv

(* A delivered update. *)
LEMMA NewUpdateBInv ==
  ASSUME BInv, IInv', NEW t \in Tasks, NewUpdate(t)
  PROVE  BInv'
<1>1. PICK c \in Chats :
        \/ OnStart(t, c)
        \/ \E x \in Texts : OnMessage(t, c, x)
        \/ \E m \in DOMAIN messages[c] : OnCallbackQuery(t, c, m)
  BY DEF NewUpdate
<1>2. /\ "start.find" \in Quiet /\ "check.member" \in Quiet
      /\ "want.answer" \in Quiet /\ "back.find" \in Quiet
  BY DEF Quiet
<1>3. \A pc \in Quiet \cup {"message.find"} :
        /\ Handler(pc, c) \in Frame
        /\ Handler(pc, c).pc = pc /\ Handler(pc, c).chat = c
  BY HandlerFrame, NoFrameOK DEF Handler, Frame
<1>4. CASE OnStart(t, c)
  BY <1>2, <1>3, <1>4, DeliverBInv DEF OnStart
<1>5. ASSUME NEW x \in Texts, OnMessage(t, c, x) PROVE BInv'
  <2> DEFINE f == [Handler("message.find", c) EXCEPT !.text = x]
  <2>1. f.pc = "message.find" /\ f.chat = c
    BY <1>3 DEF Frame
  <2>2. Deliver(t, c, f)
    BY <1>5 DEF OnMessage
  <2> HIDE DEF f
  <2> QED
    BY <2>1, <2>2, DeliverBInv
<1>6. ASSUME NEW m \in DOMAIN messages[c], OnCallbackQuery(t, c, m)
      PROVE  BInv'
  <2> DEFINE message == messages[c][m]
             button  == message.keyboard
             pc      == FirstAwait[button]
             f       == [Handler(pc, c) EXCEPT !.click = m]
  <2>1. message \in Message /\ ButtonOK(message)
    BY IInvFacts DEF BInv
  <2>2. button # "none" /\ Deliver(t, c, f)
    BY <1>6 DEF OnCallbackQuery
  <2> HIDE DEF message
  <2>3. button \in Keyboards
    BY <2>1 DEF Message
  <2>4. \/ /\ pc = "check.member" /\ message.kind = "welcome"
        \/ /\ pc = "want.answer" /\ message.kind = "confirmed"
        \/ pc = "back.find"
    BY <2>1, <2>2, <2>3 DEF FirstAwait, Keyboards, ButtonOK
  <2> HIDE DEF pc
  <2>5. f.pc = pc /\ f.chat = c /\ f.click = m
    BY <1>2, <1>3, <2>4 DEF Frame
  <2> HIDE DEF f
  <2> QED
    BY <2>2, <2>4, <2>5, DeliverBInv DEF ClickOK, message
<1> QED
  BY <1>1, <1>4, <1>5, <1>6

(* At first there are no rows and no messages. *)
LEMMA BInvInit == BotInit => BInv
<1> SUFFICES ASSUME BotInit PROVE BInv
  OBVIOUS
<1>1. /\ registrations = <<>>
      /\ messages = [c \in Chats |-> <<>>]
      /\ frame = [t \in Tasks |-> NoFrame]
  BY DEF BotInit, Init
<1>2. IInv
  BY IInvInit
<1>3. DOMAIN registrations = {} /\ \A c \in Chats : DOMAIN messages[c] = {}
  BY <1>1
<1>4. \A c \in Chats :
        /\ Between(frame, c, OpeningAwaits) = {}
        /\ Between(frame, c, ConfirmingAwaits) = {}
  BY <1>1, NoFrameElsewhere DEF Between, Elsewhere
<1>5. \A c \in Chats :
        /\ RowsOf(registrations, c) = {} /\ ConfirmedIn(messages[c]) = {}
        /\ PressedIn(messages[c], "confirmed") = {}
        /\ PressedIn(messages[c], "welcome") = {}
  BY <1>3 DEF RowsOf, ConfirmedIn, PressedIn
<1>6. Covered({}, {}, {})
  BY FS_EmptySet DEF Covered
<1> QED
  BY <1>1, <1>2, <1>3, <1>4, <1>5, <1>6, NoFramePressOK DEF BInv, RowsOK

(* Every step keeps the count. *)
LEMMA BInvStep == BInv /\ [Next]_allVars => BInv'
<1> SUFFICES ASSUME BInv, [Next]_allVars PROVE BInv'
  OBVIOUS
<1>1. IInv'
  BY IInvStep DEF BInv
<1>2. ASSUME NEW t \in Tasks, Step(t) PROVE BInv'
  BY <1>1, <1>2, StartBInv, ResumeBInv, CheckBInv, WantBInv, MessageBInv,
     BackBInv, FormBInv DEF Step
<1>3. CASE (Crash \/ Restart) /\ UNCHANGED updates
  <2>1. \A u \in Tasks : frame'[u] \in {frame[u], NoFrame}
    BY <1>3 DEF Crash, Restart, Terminate
  <2> QED
    BY <1>1, <1>3, <2>1, StopBInv DEF Crash, Restart
<1>4. CASE UNCHANGED allVars
  BY <1>1, <1>4, StopBInv DEF allVars
<1> QED
  BY <1>1, <1>2, <1>3, <1>4, NewUpdateBInv DEF Next

(* At all times rows and confirmations, with the handlers about to add     *)
(* one, are no more than the buttons that were pressed for them.           *)
THEOREM PressesAreCounted == Spec => []BInv
BY BInvInit, BInvStep, PTL DEF Spec

(* answerWantParticipateQuery and showSubscribedUI: however many clicks on *)
(* one button are handled at once, and whatever fails, one of them goes    *)
(* on: no more rows than pressed buttons of confirmations, no more         *)
(* confirmations than pressed buttons of welcome messages.                 *)
THEOREM ButtonsOpenOneRegistration == Spec => []OneRegistrationPerButton
<1>1. BInv => OneRegistrationPerButton
  <2> SUFFICES ASSUME BInv, NEW c \in Chats
               PROVE  /\ Cardinality(RowsOf(registrations, c))
                           <= Cardinality(Pressed(c, "confirmed"))
                      /\ Cardinality(ConfirmedIn(messages[c]))
                           <= Cardinality(Pressed(c, "welcome"))
    BY DEF OneRegistrationPerButton, ConfirmedIn
  <2>1. ASSUME NEW A, NEW B, NEW P, Covered(A, B, P)
        PROVE  Cardinality(A) <= Cardinality(P)
    <3>1. /\ Cardinality(A) \in Nat /\ Cardinality(B) \in Nat
          /\ Cardinality(P) \in Nat
      BY <2>1, FS_CardinalityType DEF Covered
    <3> QED
      BY <2>1, <3>1 DEF Covered
  <2>2. \A kind : Pressed(c, kind) = PressedIn(messages[c], kind)
    BY DEF Pressed, PressedIn
  <2> QED
    BY <2>1, <2>2 DEF BInv
<1> QED
  BY <1>1, PressesAreCounted, PTL

=============================================================================
