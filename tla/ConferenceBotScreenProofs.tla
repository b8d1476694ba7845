---------------------- MODULE ConferenceBotScreenProofs ----------------------
(***************************************************************************)
(* What the chat shows, until the first failure: for users who wait for    *)
(* the bot, do not answer with the text of the placeholder, and give       *)
(* answers whose form Telegram takes (FormsFit).                           *)
(***************************************************************************)
EXTENDS ConferenceBotWriteProofs

(* What the bot is waiting for: the current question, or the thanks. *)
Question(s) == IF s = Completed THEN ThankYou ELSE Prompt(s)

Asking == {"prompt", "thanks"}

(* The last question of the chat is that of the row. *)
Asks(row, log) ==
  \E q \in DOMAIN log :
    /\ \A m \in DOMAIN log : log[m].kind \in Asking => m <= q
    /\ log[q] = Question(row.state)

(* The message of the row shows its answers. *)
Shows(row, log) ==
  /\ row.message_id \in DOMAIN log
  /\ \/ log[row.message_id] = Form(row.answers, row.state)
     \/ /\ log[row.message_id] = Prompt(WaitingName)
        /\ row.state = WaitingName /\ row.answers = Blank

(* No message but form has a back button. *)
BackOnly(log, form) ==
  \A m \in DOMAIN log \ {form} : log[m].keyboard # "form_back"

(* The questions before step s are answered, the others are not. *)
AnsweredTo(row, s) ==
  \A w \in Waiting : row.answers[FieldOf(w)] # NoText <=> w < s

(* The chat agrees with the row. *)
Base(row, log) ==
  /\ AnsweredTo(row, row.state)
  /\ Asks(row, log)
  /\ Shows(row, log)
  /\ BackOnly(log, row.message_id)

(* Awaits at which the question of the row is still to be asked, *)
Unasked ==
  {"want.prompt", "want.update", "resume.prompt", "save.thanks"}
    \cup FormAwaits

(* at which the message of the row is still to be sent or edited, *)
Turning == {"form.find", "form.update", "form.edit"}

Unshown ==
  {"want.prompt", "want.update", "resume.form", "resume.update"}
    \cup Turning

(* and the message with the back button meanwhile. *)
BackAt(row, f) ==
  IF f.pc \in {"want.prompt", "want.update", "resume.form"} THEN 0
  ELSE IF f.pc = "resume.update" THEN f.obj.row.message_id
  ELSE row.message_id

(* The message just sent, whose id is held. *)
JustSent(log, f, message) ==
  /\ f.obj.row.message_id = Len(log)
  /\ Len(log) \in DOMAIN log
  /\ log[Len(log)] = message

(* The chat while the handler is at f.pc: what it has done so far is done, *)
(* and what it is about to ask of Telegram will be accepted.               *)
ScreenOK(row, log, f) ==
  /\ AnsweredTo(row, IF f.pc \in Turning THEN f.step ELSE row.state)
  /\ f.pc \notin Unasked => Asks(row, log)
  /\ f.pc \notin Unshown => Shows(row, log)
  /\ BackOnly(log, BackAt(row, f))
  /\ f.pc \in Turning =>
       /\ row.message_id \in DOMAIN log
       /\ log[row.message_id] # Form(row.answers, f.step)
  /\ f.pc \in {"want.prompt", "want.update"} =>
       row.state = WaitingName /\ row.answers = Blank
  /\ f.pc = "want.update" => JustSent(log, f, Prompt(WaitingName))
  /\ f.pc = "resume.update" =>
       JustSent(log, f, Form(row.answers, row.state))
  /\ f.pc \in {"resume.clear", "resume.form", "resume.update",
               "resume.prompt"} => row.state # Completed
  /\ f.pc \in {"resume.thanks", "save.thanks"} => row.state = Completed
  /\ f.pc = "form.prompt" => row.state = f.step
  /\ f.pc = "back.find" => f.click = row.message_id
  /\ f.pc # "back.outdated"

(* Chat c with its rows in table, log on the screen and a handler at f. *)
ChatOK(table, log, c, f) ==
  /\ RowsOf(table, c) = {} => BackOnly(log, 0)
  /\ f.pc \in {"form.update", "form.edit", "back.outdated"} =>
       \E i : RowsOf(table, c) = {i}
  /\ \A i : RowsOf(table, c) = {i} => ScreenOK(table[i], log, f)

(* The chat without a handler at work. *)
ChatRests(table, log, c) ==
  /\ RowsOf(table, c) = {} => BackOnly(log, 0)
  /\ \A i : RowsOf(table, c) = {i} => Base(table[i], log)

ScreenInv ==
  /\ up
  /\ \A t \in Tasks :
       frame[t].pc # "idle" =>
         ChatOK(registrations, messages[frame[t].chat], frame[t].chat,
                frame[t])
  /\ \A c \in Chats :
       Active(c) = {} => ChatRests(registrations, messages[c], c)

(* Until the first failure. *)
CleanInv == faults = 0 => ScreenInv

-----------------------------------------------------------------------------
(* What the messages of the bot have under them and in them. *)
LEMMA MessageParts ==
  /\ Welcome.kind = "welcome" /\ Welcome.keyboard = "check_subscription"
  /\ Confirmed.kind = "confirmed" /\ Confirmed.keyboard = "want_participate"
  /\ \A s : /\ Question(s).kind \in Asking
            /\ Question(s).keyboard = "none"
  /\ \A s : Prompt(s).kind = "prompt" /\ Prompt(s).keyboard = "none"
  /\ ThankYou.kind = "thanks" /\ ThankYou.keyboard = "none"
  /\ \A a, s : /\ Form(a, s).kind = "form"
               /\ Form(a, s).keyboard = IF CanGoBack(s) THEN "form_back"
                                        ELSE "none"
               /\ Form(a, s).answers = FormText(a)
<1>1. \A kind, keyboard : /\ Notice(kind, keyboard).kind = kind
                          /\ Notice(kind, keyboard).keyboard = keyboard
  BY DEF Notice
<1>2. \A s : Prompt(s).kind = "prompt" /\ Prompt(s).keyboard = "none"
  BY DEF Prompt, Notice
<1>3. /\ Welcome.kind = "welcome" /\ Welcome.keyboard = "check_subscription"
      /\ Confirmed.kind = "confirmed"
      /\ Confirmed.keyboard = "want_participate"
      /\ ThankYou.kind = "thanks" /\ ThankYou.keyboard = "none"
  BY <1>1 DEF Welcome, Confirmed, ThankYou
<1>4. \A s : Question(s).kind \in Asking /\ Question(s).keyboard = "none"
  BY <1>2, <1>3 DEF Question, Asking
<1>5. \A a, s : /\ Form(a, s).kind = "form"
                /\ Form(a, s).keyboard = IF CanGoBack(s) THEN "form_back"
                                         ELSE "none"
                /\ Form(a, s).answers = FormText(a)
  BY DEF Form
<1> QED
  BY <1>2, <1>3, <1>4, <1>5

(* A log to which a message was appended. *)
Grown(log, new, next) ==
  /\ next \in Seq(Message)
  /\ Len(next) \in Nat \ {0} /\ Len(next) = Len(log) + 1
  /\ DOMAIN next = DOMAIN log \cup {Len(next)}
  /\ \A m \in DOMAIN log : m < Len(next) /\ m \in Nat \ {0}
  /\ \A m \in DOMAIN log : next[m] = log[m]
  /\ next[Len(next)] = new

(* Sending appends. *)
LEMMA AppendGrows ==
  ASSUME NEW log \in Seq(Message), NEW new \in Message,
         NEW next, next = Append(log, new)
  PROVE  Grown(log, new, next)
<1>1. /\ next \in Seq(Message)
      /\ Len(next) = Len(log) + 1
      /\ \A m \in 1..Len(log) : next[m] = log[m]
      /\ next[Len(log) + 1] = new
  BY AppendProperties
<1>2. /\ DOMAIN log = 1..Len(log) /\ Len(log) \in Nat
      /\ DOMAIN next = 1..(Len(log) + 1)
  BY <1>1, LenProperties
<1> QED
  BY <1>1, <1>2 DEF Grown

(* The question that is sent is the last one. *)
LEMMA QuestionAsked ==
  ASSUME NEW log, NEW row, NEW next, Grown(log, Question(row.state), next)
  PROVE  Asks(row, next)
<1> DEFINE q == Len(next)
<1>1. /\ q \in DOMAIN next /\ next[q] = Question(row.state)
      /\ \A m \in DOMAIN next : m <= q
  BY DEF Grown
<1> QED
  BY <1>1 DEF Asks

(* Other messages leave it the last. *)
LEMMA StillAsked ==
  ASSUME NEW log, NEW row, NEW new, NEW next, Grown(log, new, next),
         new.kind \notin Asking, Asks(row, log)
  PROVE  Asks(row, next)
<1>1. PICK q \in DOMAIN log :
        /\ \A m \in DOMAIN log : log[m].kind \in Asking => m <= q
        /\ log[q] = Question(row.state)
  BY DEF Asks
<1>2. q \in DOMAIN next /\ next[q] = Question(row.state)
  BY <1>1 DEF Grown
<1>3. \A m \in DOMAIN next : next[m].kind \in Asking => m <= q
  BY <1>1 DEF Grown
<1> QED
  BY <1>2, <1>3 DEF Asks

(* The form stays what it shows. *)
LEMMA StillShown ==
  ASSUME NEW log, NEW row, NEW new, NEW next, Grown(log, new, next),
         Shows(row, log)
  PROVE  Shows(row, next)
BY DEF Grown, Shows

(* A message without back button adds none. *)
LEMMA StillBackOnly ==
  ASSUME NEW log, NEW new, NEW next, Grown(log, new, next), NEW form,
         new.keyboard # "form_back", BackOnly(log, form)
  PROVE  BackOnly(next, form)
BY DEF Grown, BackOnly

(* A form that is sent where there was no back button has the only one. *)
LEMMA NewBackOnly ==
  ASSUME NEW log, NEW new, NEW next, Grown(log, new, next),
         BackOnly(log, 0)
  PROVE  BackOnly(next, Len(next))
BY DEF Grown, BackOnly

(* A log in which the keyboard of message k was removed. *)
Bared(log, k, next) ==
  /\ DOMAIN next = DOMAIN log
  /\ k \in DOMAIN log /\ k # 0 /\ log[k].keyboard # "none"
  /\ next[k].keyboard = "none" /\ next[k].kind = log[k].kind
  /\ \A m \in DOMAIN log \ {k} : next[m] = log[m]

(* Removing a keyboard bares a message. *)
LEMMA ClearBares ==
  ASSUME NEW log \in Seq(Message), NEW k, CanClear(log, k),
         NEW next, next = Cleared(log, k)
  PROVE  Bared(log, k, next)
<1> DEFINE new == [log[k] EXCEPT !.keyboard = "none"]
<1>1. k \in DOMAIN log /\ k # 0 /\ log[k].keyboard # "none"
  BY LenProperties DEF CanClear
<1>2. new.keyboard = "none" /\ new.kind = log[k].kind
  <2>1. log[k] \in Message
    BY <1>1
  <2> QED
    BY <2>1 DEF Message
<1>3. next = [log EXCEPT ![k] = new]
  BY DEF Cleared
<1> HIDE DEF new
<1>4. /\ DOMAIN next = DOMAIN log /\ next[k] = new
      /\ \A m \in DOMAIN log \ {k} : next[m] = log[m]
  BY <1>1, <1>3
<1> QED
  BY <1>1, <1>2, <1>4 DEF Bared

(* Questions have no keyboard to lose. *)
LEMMA BaredAsks ==
  ASSUME NEW log, NEW k, NEW next, Bared(log, k, next), NEW row,
         Asks(row, log)
  PROVE  Asks(row, next)
<1>1. PICK q \in DOMAIN log :
        /\ \A m \in DOMAIN log : log[m].kind \in Asking => m <= q
        /\ log[q] = Question(row.state)
  BY DEF Asks
<1>2. q # k
  BY <1>1, MessageParts DEF Bared
<1>3. q \in DOMAIN next /\ next[q] = Question(row.state)
  BY <1>1, <1>2 DEF Bared
<1>4. \A m \in DOMAIN next : next[m].kind = log[m].kind
  BY DEF Bared
<1> QED
  BY <1>1, <1>3, <1>4 DEF Asks, Bared

(* Other messages than the form may lose theirs. *)
LEMMA BaredShows ==
  ASSUME NEW log, NEW k, NEW next, Bared(log, k, next), NEW row,
         k # row.message_id, Shows(row, log)
  PROVE  Shows(row, next)
BY DEF Bared, Shows

(* No back button is added, and that of the form is removed with it. *)
LEMMA BaredBackOnly ==
  ASSUME NEW log, NEW k, NEW next, Bared(log, k, next), NEW form,
         BackOnly(log, form)
  PROVE  /\ BackOnly(next, form)
         /\ k = form => BackOnly(next, 0)
BY DEF Bared, BackOnly

-----------------------------------------------------------------------------
(* A form whose answers change changes its text. *)

(* The placeholder is no answer, so the text tells whether one is there. *)
LEMMA FormTells ==
  ASSUME Placeholder \notin Texts, NEW a \in Answers, NEW b \in Answers,
         NEW F \in Fields, ~(a[F] = NoText <=> b[F] = NoText),
         NEW s, NEW r
  PROVE  Form(a, s) # Form(b, r)
<1>1. a[F] \in Texts \cup {NoText} /\ b[F] \in Texts \cup {NoText}
  BY DEF Answers
<1>2. /\ FormText(a)[F] = IF a[F] = NoText THEN Placeholder ELSE a[F]
      /\ FormText(b)[F] = IF b[F] = NoText THEN Placeholder ELSE b[F]
  BY DEF FormText
<1>3. FormText(a)[F] # FormText(b)[F]
  BY <1>1, <1>2
<1>4. Form(a, s).answers = FormText(a) /\ Form(b, r).answers = FormText(b)
  BY MessageParts
<1> QED
  BY <1>3, <1>4

(* The row is at step s but for the form, which does not show it yet. *)
Turned(row, log, s) ==
  /\ AnsweredTo(row, s)
  /\ BackOnly(log, row.message_id)
  /\ row.message_id \in DOMAIN log
  /\ log[row.message_id] # Form(row.answers, s)

(* A form that showed the row before one answer came or went is outdated.  *)
LEMMA Outdated ==
  ASSUME Placeholder \notin Texts, NEW row \in Row, NEW new \in Row,
         NEW log, Shows(row, log), new.message_id = row.message_id,
         NEW F \in Fields,
         ~(row.answers[F] = NoText <=> new.answers[F] = NoText),
         NEW s
  PROVE  /\ new.message_id \in DOMAIN log
         /\ log[new.message_id] # Form(new.answers, s)
<1>1. row.answers \in Answers /\ new.answers \in Answers
  BY RowFields
<1>2. Form(row.answers, row.state) # Form(new.answers, s)
  BY <1>1, FormTells
<1>3. Prompt(WaitingName) # Form(new.answers, s)
  BY MessageParts
<1> QED
  BY <1>2, <1>3 DEF Shows

(* An answer turns the row to the next step. *)
LEMMA AnswerTurns ==
  ASSUME Placeholder \notin Texts, NEW row \in Row, NEW o \in Object,
         NEW f, Change(f, o, row), f.pc = "save.update",
         NEW log, Base(row, log)
  PROVE  Turned(o.row, log, NextState(f.step))
<1> DEFINE s == f.step
           F == FieldOf(s)
<1>1. /\ s \in Waiting /\ f.text \in Texts /\ row.state = s
      /\ o.row.answers = [row.answers EXCEPT ![F] = f.text]
      /\ o.row.message_id = row.message_id
  BY DEF Change
<1>2. /\ F \in Fields /\ o.row \in Row
      /\ row.answers \in [Fields -> Texts \cup {NoText}]
  BY FieldOfType, ObjectFields, RowFields DEF Answers
<1>3. f.text # NoText /\ s \in Nat
  BY <1>1, TextAssumption, StatesAreNaturals
<1>4. row.answers[F] = NoText
  <2>1. row.answers[FieldOf(s)] # NoText <=> s < s
    BY <1>1 DEF Base, AnsweredTo
  <2> QED
    BY <1>3, <2>1
<1>5. o.row.answers[F] # NoText
  BY <1>1, <1>2, <1>3
<1>6. AnsweredTo(o.row, NextState(s))
  <2> SUFFICES ASSUME NEW w \in Waiting
               PROVE  o.row.answers[FieldOf(w)] # NoText
                        <=> w < NextState(s)
    BY DEF AnsweredTo
  <2>1. w < NextState(s) <=> w < s \/ w = s
    BY <1>1, NextStateOrder
  <2>2. row.answers[FieldOf(w)] # NoText <=> w < s
    BY <1>1 DEF Base, AnsweredTo
  <2>3. CASE w = s
    BY <1>5, <2>1, <2>3
  <2>4. CASE w # s
    <3>1. FieldOf(w) # F /\ FieldOf(w) \in Fields
      BY <1>1, <2>4, FieldOfInjective, FieldOfType
    <3>2. o.row.answers[FieldOf(w)] = row.answers[FieldOf(w)]
      BY <1>1, <1>2, <3>1
    <3> QED
      BY <2>1, <2>2, <2>4, <3>2
  <2> QED
    BY <2>3, <2>4
<1> HIDE DEF s, F
<1>7. Shows(row, log)
  BY DEF Base
<1>8. /\ o.row.message_id \in DOMAIN log
      /\ log[o.row.message_id] # Form(o.row.answers, NextState(s))
  <2>1. PICK new, r : new = o.row /\ r = NextState(s)
    OBVIOUS
  <2>2. /\ new \in Row /\ new.message_id = row.message_id /\ F \in Fields
        /\ ~(row.answers[F] = NoText <=> new.answers[F] = NoText)
    BY <1>1, <1>2, <1>4, <1>5, <2>1
  <2>3. new.message_id \in DOMAIN log /\ log[new.message_id] # Form(new.answers, r)
    BY <1>7, <2>2, Outdated
  <2> QED
    BY <2>1, <2>3
<1>9. BackOnly(log, o.row.message_id)
  BY <1>1 DEF Base
<1> QED
  BY <1>6, <1>8, <1>9 DEF Turned, s

(* A step back turns it to the previous one. *)
LEMMA BackTurns ==
  ASSUME Placeholder \notin Texts, NEW row \in Row, NEW o \in Object,
         NEW f, Change(f, o, row), f.pc = "back.update",
         NEW log, Base(row, log)
  PROVE  Turned(o.row, log, f.step)
<1> DEFINE s == f.step
           F == FieldOf(s)
<1>1. /\ CanGoBack(row.state) /\ s = PrevState(row.state)
      /\ o.row.answers = [row.answers EXCEPT ![F] = NoText]
      /\ o.row.message_id = row.message_id
  BY DEF Change
<1>2. /\ F \in Fields /\ o.row \in Row /\ row.state \in States
      /\ row.answers \in [Fields -> Texts \cup {NoText}]
  BY FieldOfType, ObjectFields, RowFields DEF Answers
<1>3. s \in Waiting /\ s < row.state
  BY <1>1, <1>2, PrevStateStep
<1>4. row.answers[F] # NoText
  BY <1>3 DEF Base, AnsweredTo
<1>5. o.row.answers[F] = NoText
  BY <1>1, <1>2
<1>6. AnsweredTo(o.row, s)
  <2> SUFFICES ASSUME NEW w \in Waiting
               PROVE  o.row.answers[FieldOf(w)] # NoText <=> w < s
    BY DEF AnsweredTo
  <2>1. (w < row.state <=> w < s \/ w = s) /\ ~(s < s)
    BY <1>1, <1>2, PrevStateOrder
  <2>2. row.answers[FieldOf(w)] # NoText <=> w < row.state
    BY DEF Base, AnsweredTo
  <2>3. CASE w = s
    BY <1>5, <2>1, <2>3
  <2>4. CASE w # s
    <3>1. FieldOf(w) # F /\ FieldOf(w) \in Fields
      BY <1>3, <2>4, FieldOfInjective, FieldOfType
    <3>2. o.row.answers[FieldOf(w)] = row.answers[FieldOf(w)]
      BY <1>1, <1>2, <3>1
    <3> QED
      BY <2>1, <2>2, <2>4, <3>2
  <2> QED
    BY <2>3, <2>4
<1> HIDE DEF s, F
<1>7. Shows(row, log)
  BY DEF Base
<1>8. /\ o.row.message_id \in DOMAIN log
      /\ log[o.row.message_id] # Form(o.row.answers, s)
  <2>1. PICK new, r : new = o.row /\ r = s
    OBVIOUS
  <2>2. /\ new \in Row /\ new.message_id = row.message_id /\ F \in Fields
        /\ ~(row.answers[F] = NoText <=> new.answers[F] = NoText)
    BY <1>1, <1>2, <1>4, <1>5, <2>1
  <2>3. new.message_id \in DOMAIN log /\ log[new.message_id] # Form(new.answers, r)
    BY <1>7, <2>2, Outdated
  <2> QED
    BY <2>1, <2>3
<1>9. BackOnly(log, o.row.message_id)
  BY <1>1 DEF Base
<1> QED
  BY <1>6, <1>8, <1>9 DEF Turned, s

-----------------------------------------------------------------------------
(* The awaits at which the chat agrees with the row. *)

Steady ==
  ({"idle"} \cup Awaits)
    \ (Unasked \cup Unshown \cup {"back.find", "back.outdated",
                                  "resume.clear", "resume.thanks"})

(* There it is all that is asked of the chat. *)
LEMMA SteadyRests ==
  ASSUME NEW table, NEW log, NEW c, NEW f, f.pc \in Steady
  PROVE  ChatOK(table, log, c, f) <=> ChatRests(table, log, c)
<1>1. f.pc \notin Unasked \cup Unshown \cup
        {"back.find", "back.outdated", "resume.clear", "resume.thanks"}
  BY DEF Steady
<1>2. \A row : BackAt(row, f) = row.message_id
  BY <1>1 DEF BackAt, Unshown
<1>3. \A row : ScreenOK(row, log, f) <=> Base(row, log)
  BY <1>1, <1>2 DEF ScreenOK, Base, Unshown, Unasked, FormAwaits, Turning
<1>4. f.pc \notin {"form.update", "form.edit", "back.outdated"}
  BY <1>1 DEF Unshown, Turning
<1> QED
  BY <1>3, <1>4 DEF ChatOK, ChatRests

(* The end of a handler is such an await. *)
LEMMA NoFrameSteady == NoFrame.pc \in Steady
BY DEF NoFrame, Steady, Unasked, Unshown, Turning, FormAwaits

(* The awaits after which the chat still agrees, for the next step. *)
LEMMA RestsAtFind ==
  ASSUME NEW table, NEW log, NEW c, NEW f,
         f.pc \in {"back.find", "resume.clear", "resume.thanks"},
         ChatOK(table, log, c, f)
  PROVE  ChatRests(table, log, c)
<1>1. f.pc \notin Unasked \cup Unshown
  BY DEF Unasked, Unshown, Turning, FormAwaits
<1>2. \A row : BackAt(row, f) = row.message_id
  BY DEF BackAt
<1>3. \A row : ScreenOK(row, log, f) => Base(row, log)
  BY <1>1, <1>2 DEF ScreenOK, Base, Unshown
<1> QED
  BY <1>3 DEF ChatOK, ChatRests

-----------------------------------------------------------------------------
(* A step without failure of one coroutine. *)

(* A step from a good state, before the first failure and without one, in  *)
(* which no form is too long.                                              *)
Clean ==
  /\ Placeholder \notin Texts
  /\ FormsFit
  /\ FormInv /\ BInv /\ ScreenInv
  /\ faults = 0 /\ faults' = 0

(* What is known of the coroutine that takes it. *)
LEMMA CleanFacts ==
  ASSUME Clean, NEW t \in Tasks
  PROVE  /\ FormInv /\ BInv /\ IInv /\ OnePerChat
         /\ registrations \in Seq(Row)
         /\ messages \in [Chats -> Seq(Message)]
         /\ frame \in [Tasks -> Frame] /\ frame[t] \in Frame
         /\ frame[t].chat \in Chats
         /\ messages[frame[t].chat] \in Seq(Message)
         /\ frame[t].pc # "idle" =>
              ChatOK(registrations, messages[frame[t].chat], frame[t].chat,
                     frame[t])
<1>1. /\ FormInv /\ BInv /\ ScreenInv /\ IInv /\ OnePerChat
  BY DEF Clean, FormInv, WInv
<1>2. /\ registrations \in Seq(Row)
      /\ messages \in [Chats -> Seq(Message)]
      /\ frame \in [Tasks -> Frame]
  BY <1>1 DEF IInv, BotTypeOK, TypeOK
<1>3. frame[t] \in Frame /\ frame[t].chat \in Chats
  BY <1>1, FormInvFacts
<1> QED
  BY <1>1, <1>2, <1>3 DEF ScreenInv

(* The coroutine goes on in frame f, its chat shows log. *)
Moves(t, table, log, f) ==
  /\ registrations' = table
  /\ messages' = [messages EXCEPT ![frame[t].chat] = log]
  /\ frame' = [frame EXCEPT ![t] = f]
  /\ UNCHANGED up

(* Without a failure a statement does what it is to do. *)
LEMMA CleanStatement ==
  ASSUME Clean, NEW t \in Tasks, NEW table, NEW f, Statement(t, table, f)
  PROVE  Moves(t, table, messages[frame[t].chat], f)
<1>1. ~Fault
  BY DEF Clean, Fault
<1>2. messages = [messages EXCEPT ![frame[t].chat] = @]
  BY CleanFacts
<1> QED
  BY <1>1, <1>2 DEF Statement, Moves, Resume

(* So does a request that is accepted. *)
LEMMA CleanRequest ==
  ASSUME Clean, NEW t \in Tasks, NEW accepted, NEW log, NEW f,
         Api(t, accepted, log, f), accepted
  PROVE  Moves(t, registrations, log, f)
<1>1. ~Fault
  BY DEF Clean, Fault
<1> QED
  BY <1>1 DEF Api, Moves, Resume

(* Messages other than forms are short. *)
LEMMA NoticesFit ==
  ASSUME NEW new, new.kind # "form"
  PROVE  Fits(new)
BY DEF Fits

(* The keyboard of a form takes no room. *)
LEMMA FitsAtEveryStep ==
  ASSUME NEW answers, NEW s, NEW r, Fits(Form(answers, s))
  PROVE  Fits(Form(answers, r))
<1>1. /\ Form(answers, s).kind = "form" /\ Form(answers, r).kind = "form"
      /\ Form(answers, s).answers = Form(answers, r).answers
  BY MessageParts
<1> QED
  BY <1>1 DEF Fits

(* The form that a handler is about to show is that of the row. *)
LEMMA HeldFormFits ==
  ASSUME Clean, NEW t \in Tasks,
         frame[t].pc \in {"form.edit", "resume.form"}, NEW s
  PROVE  Fits(Form(frame[t].obj.row.answers, s))
<1>1. PICK o, row : o = frame[t].obj /\ row = o.row
  OBVIOUS
<1>2. FormInv /\ FormsFit
  BY DEF Clean
<1>3. o.id \in DOMAIN registrations
  BY <1>1, <1>2, FormInvFacts DEF ObjectOK, Holding
<1>4. \/ o = Snapshot(registrations, o.id)
      \/ o.row = registrations[o.id]
  BY <1>1, <1>2, FormInvFacts DEF FreshOK
<1>5. row = registrations[o.id]
  BY <1>1, <1>4 DEF Snapshot
<1>6. Fits(Form(row.answers, row.state))
  BY <1>2, <1>3, <1>5 DEF FormsFit, FormFits
<1> QED
  BY <1>1, <1>6, FitsAtEveryStep

(* One that is refused ends a handler that catches it. *)
LEMMA CleanRefusal ==
  ASSUME Clean, NEW t \in Tasks, NEW accepted, NEW log, NEW f,
         Api(t, accepted, log, f), frame[t].pc \in CatchesTelegram
  PROVE  \/ accepted /\ Moves(t, registrations, log, f)
         \/ Moves(t, registrations, messages[frame[t].chat], NoFrame)
<1>1. ~Fault
  BY DEF Clean, Fault
<1>2. messages = [messages EXCEPT ![frame[t].chat] = @]
  BY CleanFacts
<1> QED
  BY <1>1, <1>2 DEF Api, Moves, Resume, Throw, Finish

(* No other coroutine is at work in chat c. *)
Alone(t, c) ==
  /\ frame[t].pc = "idle" \/ frame[t].chat = c
  /\ \A u \in Tasks \ {t} : frame[u].pc # "idle" => frame[u].chat # c

(* What is good stays so while other chats go on. *)
LEMMA ScreenStays ==
  ASSUME NEW table, NEW new, NEW c, Untouched(table, new, c), NEW log
  PROVE  /\ \A f : ChatOK(table, log, c, f) => ChatOK(new, log, c, f)
         /\ ChatRests(table, log, c) => ChatRests(new, log, c)
<1>1. /\ RowsOf(new, c) = RowsOf(table, c)
      /\ \A i : RowsOf(table, c) = {i} => new[i] = table[i]
  BY DEF Untouched
<1> QED
  BY <1>1 DEF ChatOK, ChatRests

(* A step inside a chat that leaves it good leaves all good. *)
LEMMA GoesOn ==
  ASSUME Clean, NEW t \in Tasks, NEW c \in Chats, NEW table, NEW log, NEW f,
         registrations' = table,
         messages' = [messages EXCEPT ![c] = log],
         frame' = [frame EXCEPT ![t] = f], UNCHANGED up,
         Inside(table, c), Alone(t, c),
         f.pc = "idle" \/ f.chat = c,
         ChatOK(table, log, c, f)
  PROVE  ScreenInv'
<1>1. /\ messages'[c] = log
      /\ \A d \in Chats \ {c} : messages'[d] = messages[d]
      /\ frame'[t] = f
      /\ \A u \in Tasks \ {t} : frame'[u] = frame[u]
  BY CleanFacts
<1>2. ScreenInv
  BY DEF Clean
<1>3. \A d : d # c => Untouched(registrations, registrations', d)
  BY DEF Inside
<1>4. ASSUME NEW u \in Tasks, frame'[u].pc # "idle"
      PROVE  ChatOK(registrations', messages'[frame'[u].chat],
                    frame'[u].chat, frame'[u])
  <2>1. CASE u = t
    BY <1>1, <1>4, <2>1
  <2>2. CASE u # t
    <3>1. frame'[u] = frame[u] /\ frame[u].chat # c
      BY <1>1, <1>4, <2>2 DEF Alone
    <3>2. frame[u].chat \in Chats
      BY CleanFacts
    <3>3. ChatOK(registrations, messages[frame[u].chat], frame[u].chat,
                 frame[u])
      BY <1>2, <1>4, <3>1 DEF ScreenInv
    <3>4. Untouched(registrations, registrations', frame[u].chat)
      BY <1>3, <3>1
    <3>5. ChatOK(registrations', messages[frame[u].chat], frame[u].chat,
                 frame[u])
      BY <3>3, <3>4, ScreenStays
    <3> QED
      BY <1>1, <3>1, <3>2, <3>5
  <2> QED
    BY <2>1, <2>2
<1>5. ASSUME NEW d \in Chats, Active(d)' = {}
      PROVE  ChatRests(registrations', messages'[d], d)
  <2>1. CASE d = c
    <3>1. f.pc = "idle"
      BY <1>1, <1>5, <2>1 DEF Active
    <3>2. f.pc \in Steady
      BY <3>1 DEF Steady, Unasked, Unshown, Turning, FormAwaits
    <3> QED
      BY <1>1, <2>1, <3>2, SteadyRests
  <2>2. CASE d # c
    <3>1. Active(d) = {}
      BY <1>1, <1>5, <2>2 DEF Active, Alone
    <3>2. ChatRests(registrations, messages[d], d)
      BY <1>2, <3>1 DEF ScreenInv
    <3>3. Untouched(registrations, registrations', d)
      BY <1>3, <2>2
    <3>4. ChatRests(registrations', messages[d], d)
      BY <3>2, <3>3, ScreenStays
    <3> QED
      BY <1>1, <2>2, <3>4
  <2> QED
    BY <2>1, <2>2
<1>6. up'
  BY <1>2 DEF ScreenInv
<1> QED
  BY <1>4, <1>5, <1>6 DEF ScreenInv

(* The coroutine at work in a chat is alone in it. *)
LEMMA MoveScreen ==
  ASSUME Clean, NEW t \in Tasks, frame[t].pc # "idle",
         NEW c, c = frame[t].chat, NEW table, NEW log, NEW f,
         Moves(t, table, log, f), Inside(table, c),
         f.pc = "idle" \/ f.chat = c,
         ChatOK(table, log, c, f)
  PROVE  ScreenInv'
<1>1. c \in Chats /\ OnePerChat
  BY CleanFacts
<1>2. Alone(t, c)
  BY <1>1 DEF Alone, OnePerChat
<1>3. /\ registrations' = table
      /\ messages' = [messages EXCEPT ![c] = log]
      /\ frame' = [frame EXCEPT ![t] = f] /\ UNCHANGED up
  BY DEF Moves
<1> QED
  BY <1>1, <1>2, <1>3, GoesOn

(* The table is read only. *)
LEMMA ReadScreen ==
  ASSUME Clean, NEW t \in Tasks, frame[t].pc # "idle",
         NEW c, c = frame[t].chat, NEW log, NEW f,
         Moves(t, registrations, log, f),
         f.pc = "idle" \/ f.chat = c,
         ChatOK(registrations, log, c, f)
  PROVE  ScreenInv'
<1>1. Inside(registrations, c)
  BY DEF Inside, Untouched
<1> QED
  BY <1>1, MoveScreen

(* Between awaits at which the chat agrees with the row. *)
LEMMA RestScreen ==
  ASSUME Clean, NEW t \in Tasks, frame[t].pc # "idle",
         NEW c, c = frame[t].chat, NEW log, NEW f,
         Moves(t, registrations, log, f),
         f.pc \in Steady, f.pc = "idle" \/ f.chat = c,
         ChatRests(registrations, log, c)
  PROVE  ScreenInv'
BY SteadyRests, ReadScreen

-----------------------------------------------------------------------------
(* The handlers: the chat and the row go on together. *)

(* Notices leave the chat in agreement. *)
LEMMA RestsGrown ==
  ASSUME NEW table, NEW c, NEW log, NEW new, NEW next,
         Grown(log, new, next), new.kind \notin Asking,
         new.keyboard # "form_back", ChatRests(table, log, c)
  PROVE  ChatRests(table, next, c)
<1>1. ASSUME NEW row, Base(row, log) PROVE Base(row, next)
  BY <1>1, StillAsked, StillShown, StillBackOnly DEF Base
<1>2. BackOnly(log, 0) => BackOnly(next, 0)
  BY StillBackOnly
<1> QED
  BY <1>1, <1>2 DEF ChatRests

(* So does the removal of another keyboard than the form's. *)
LEMMA RestsBared ==
  ASSUME NEW table, NEW c, NEW log, NEW k, NEW next, Bared(log, k, next),
         \A i : RowsOf(table, c) = {i} => k # table[i].message_id,
         ChatRests(table, log, c)
  PROVE  ChatRests(table, next, c)
<1>1. ASSUME NEW row, k # row.message_id, Base(row, log)
      PROVE  Base(row, next)
  BY <1>1, BaredAsks, BaredShows, BaredBackOnly DEF Base
<1>2. BackOnly(log, 0) => BackOnly(next, 0)
  BY BaredBackOnly
<1> QED
  BY <1>1, <1>2 DEF ChatRests

(* A coroutine at a steady await finds its chat in agreement. *)
LEMMA AtRest ==
  ASSUME Clean, NEW t \in Tasks, frame[t].pc \in Steady \ {"idle"}
  PROVE  ChatRests(registrations, messages[frame[t].chat], frame[t].chat)
BY CleanFacts, SteadyRests

(* A notice is sent from and to a steady await. *)
LEMMA NoticeScreen ==
  ASSUME Clean, NEW t \in Tasks, frame[t].pc \in Steady \ {"idle"},
         NEW new \in Message, new.kind \notin Asking \cup {"form"},
         new.keyboard # "form_back", Send(t, new, NoFrame)
  PROVE  ScreenInv'
<1> DEFINE c    == frame[t].chat
           log  == messages[c]
           next == Append(log, new)
<1>1. Moves(t, registrations, next, NoFrame)
  BY NoticesFit, CleanRequest DEF Send
<1>2. log \in Seq(Message)
  BY CleanFacts
<1>3. ChatRests(registrations, log, c)
  BY AtRest
<1>4. PICK grown : grown = next
  OBVIOUS
<1> HIDE DEF log
<1>5. Grown(log, new, grown)
  BY <1>2, <1>4, AppendGrows
<1>6. ChatRests(registrations, grown, c)
  BY <1>3, <1>5, RestsGrown
<1>7. NoFrame.pc = "idle"
  BY DEF NoFrame
<1> HIDE DEF next
<1> QED
  BY <1>1, <1>4, <1>6, <1>7, NoFrameSteady, RestScreen

(* A request without effect is made from and to a steady await. *)
LEMMA RequestScreen ==
  ASSUME Clean, NEW t \in Tasks, frame[t].pc \in Steady \ {"idle"},
         NEW f, f.pc \in Steady, f.pc = "idle" \/ f.chat = frame[t].chat,
         Request(t, f)
  PROVE  ScreenInv'
<1>1. Moves(t, registrations, messages[frame[t].chat], f)
  BY CleanRequest DEF Request
<1> QED
  BY <1>1, AtRest, RestScreen

(* A lookup is made from and to a steady await. *)
LEMMA LookupScreen ==
  ASSUME Clean, NEW t \in Tasks, frame[t].pc \in Steady \ {"idle"},
         NEW f, f.pc \in Steady, f.pc = "idle" \/ f.chat = frame[t].chat,
         Statement(t, registrations, f)
  PROVE  ScreenInv'
<1>1. Moves(t, registrations, messages[frame[t].chat], f)
  BY CleanStatement
<1> QED
  BY <1>1, AtRest, RestScreen

(* The button that was pressed is not that of a form. *)
LEMMA PressedApart ==
  ASSUME Clean, NEW t \in Tasks, NEW kind \in {"welcome", "confirmed"},
         ClickOK(messages, frame[t], kind), NEW i,
         RowsOf(registrations, frame[t].chat) = {i}
  PROVE  frame[t].click # registrations[i].message_id
<1>1. /\ i \in DOMAIN registrations
      /\ registrations[i].chat_id = frame[t].chat
  BY DEF RowsOf
<1>2. IdOK(messages, frame[t].chat, registrations[i].message_id)
  BY <1>1, CleanFacts DEF BInv, RowsOK
<1>3. /\ frame[t].click \in DOMAIN messages[frame[t].chat]
      /\ messages[frame[t].chat][frame[t].click].kind = kind
  BY DEF ClickOK
<1>4. frame[t].click # 0
  BY <1>3, CleanFacts, LenProperties
<1> QED
  BY <1>2, <1>3, <1>4 DEF IdOK, Editable

(* Its keyboard is removed, once. *)
LEMMA PressScreen ==
  ASSUME Clean, NEW t \in Tasks,
         frame[t].pc \in {"check.clear", "want.clear"},
         frame[t].pc \in Steady,
         NEW f, f.pc \in Steady, f.chat = frame[t].chat,
         Clear(t, frame[t].click, f)
  PROVE  ScreenInv'
<1> DEFINE c    == frame[t].chat
           log  == messages[c]
           k    == frame[t].click
           next == Cleared(log, k)
<1>1. \/ CanClear(log, k) /\ Moves(t, registrations, next, f)
      \/ Moves(t, registrations, log, NoFrame)
  <2>1. frame[t].pc \in CatchesTelegram
    BY DEF CatchesTelegram, CheckAwaits, WantAwaits
  <2>2. Api(t, CanClear(log, k), next, f)
    BY DEF Clear
  <2> HIDE DEF next, k
  <2> QED
    BY <2>1, <2>2, CleanRefusal
<1>2. log \in Seq(Message) /\ PressOK(messages, frame[t])
  BY CleanFacts DEF BInv
<1>3. ChatRests(registrations, log, c)
  BY AtRest
<1>4. \A i : RowsOf(registrations, c) = {i}
               => k # registrations[i].message_id
  BY <1>2, PressedApart DEF PressOK
<1>5. NoFrame.pc = "idle"
  BY DEF NoFrame
<1>6. PICK bared : bared = next
  OBVIOUS
<1> HIDE DEF log, k, next
<1>7. ASSUME Moves(t, registrations, log, NoFrame) PROVE ScreenInv'
  BY <1>3, <1>5, <1>7, NoFrameSteady, RestScreen
<1>8. ASSUME CanClear(log, k), Moves(t, registrations, bared, f)
      PROVE  ScreenInv'
  <2>1. Bared(log, k, bared)
    BY <1>2, <1>6, <1>8, ClearBares DEF next
  <2>2. ChatRests(registrations, bared, c)
    BY <1>3, <1>4, <2>1, RestsBared
  <2> QED
    BY <1>8, <2>2, RestScreen
<1> QED
  BY <1>1, <1>6, <1>7, <1>8

(* A lookup after which the row decides. *)
LEMMA FindRests ==
  ASSUME NEW table, NEW log, NEW c, NEW f,
         f.pc \in {"back.find", "resume.clear", "resume.thanks"},
         ChatRests(table, log, c),
         \A i : RowsOf(table, c) = {i} =>
           /\ f.pc = "back.find" => f.click = table[i].message_id
           /\ f.pc = "resume.clear" => table[i].state # Completed
           /\ f.pc = "resume.thanks" => table[i].state = Completed
  PROVE  ChatOK(table, log, c, f)
<1>1. /\ f.pc \notin Unasked \cup Unshown
      /\ f.pc \notin Turning
      /\ f.pc \notin {"want.prompt", "want.update", "resume.update",
                      "resume.form", "resume.prompt", "save.thanks",
                      "form.prompt", "form.update", "form.edit",
                      "back.outdated"}
  BY DEF Unasked, Unshown, Turning, FormAwaits
<1>2. \A row : BackAt(row, f) = row.message_id
  BY <1>1 DEF BackAt
<1>3. ASSUME NEW i, RowsOf(table, c) = {i} PROVE ScreenOK(table[i], log, f)
  <2>1. Base(table[i], log)
    BY <1>3 DEF ChatRests
  <2> QED
    BY <1>1, <1>2, <1>3, <2>1 DEF ScreenOK, Base
<1> QED
  BY <1>1, <1>3 DEF ChatOK, ChatRests

(* /start. *)
LEMMA StartScreen ==
  ASSUME Clean, NEW t \in Tasks, ReplyStartCommand(t)
  PROVE  ScreenInv'
<1>1. frame[t] \in Frame /\ FormInv
  BY CleanFacts
<1>2. frame[t].pc \in Steady \ {"idle"}
  BY DEF ReplyStartCommand, StartFind, StartWelcome, At, Steady, Awaits,
         StartAwaits, Unasked, Unshown, Turning, FormAwaits
<1>3. CASE StartWelcome(t)
  <2>1. /\ Welcome \in Message /\ Welcome.kind \notin Asking \cup {"form"}
        /\ Welcome.keyboard # "form_back"
    BY MessageTypes, MessageParts DEF Asking
  <2> QED
    BY <1>2, <1>3, <2>1, NoticeScreen DEF StartWelcome
<1>4. CASE StartFind(t) /\ Found(registrations, frame[t].chat)
  <2> DEFINE c   == frame[t].chat
             log == messages[c]
             o   == Snapshot(registrations, TheRow(registrations, c))
             f   == ResumeWith(t, o)
  <2>1. Statement(t, registrations, f)
    BY <1>4 DEF StartFind, FindByChatId
  <2>2. Moves(t, registrations, log, f)
    BY <2>1, CleanStatement
  <2>3. o.row = registrations[o.id] /\ RowsOf(registrations, c) = {o.id}
    BY <1>1, <1>4, FoundFresh
  <2>4. ChatRests(registrations, log, c)
    BY <1>2, AtRest
  <2> HIDE DEF o, log
  <2>5. /\ f.chat = c
        /\ f.pc = IF o.row.state = Completed THEN "resume.thanks"
                  ELSE IF o.row.message_id # 0 THEN "resume.clear"
                  ELSE "resume.form"
    BY <1>1 DEF ResumeWith, Frame
  <2> HIDE DEF f
  <2>6. o.row.message_id # 0
    <3>1. o.row.message_id \in DOMAIN log
      BY <2>3, <2>4 DEF ChatRests, Base, Shows
    <3>2. log \in Seq(Message)
      BY CleanFacts DEF log
    <3> QED
      BY <3>1, <3>2, LenProperties
  <2>7. ChatOK(registrations, log, c, f)
    BY <2>3, <2>4, <2>5, <2>6, FindRests
  <2>8. frame[t].pc # "idle"
    BY <1>2
  <2> QED
    BY <2>2, <2>5, <2>7, <2>8, ReadScreen
<1>5. CASE StartFind(t) /\ ~Found(registrations, frame[t].chat)
  <2> DEFINE f == [frame[t] EXCEPT !.pc = "start.welcome"]
  <2>1. Statement(t, registrations, f)
    BY <1>5 DEF StartFind, FindByChatId
  <2>2. f.pc = "start.welcome" /\ f.chat = frame[t].chat
    BY <1>1 DEF Frame
  <2> HIDE DEF f
  <2>3. f.pc \in Steady
    BY <2>2 DEF Steady, Awaits, StartAwaits, Unasked, Unshown, Turning,
                FormAwaits
  <2> QED
    BY <1>2, <2>1, <2>2, <2>3, LookupScreen
<1> QED
  BY <1>3, <1>4, <1>5 DEF ReplyStartCommand

(* The subscription check and the steps up to the INSERT of "want to       *)
(* participate" are at steady awaits.                                      *)
LEMMA SteadyAwaits ==
  /\ CheckAwaits \subseteq Steady
  /\ WantAwaits \ {"want.prompt", "want.update"} \subseteq Steady
  /\ MessageAwaits \ {"save.thanks"} \subseteq Steady
  /\ {"back.unknown", "back.answer", "back.update"} \subseteq Steady
BY DEF Steady, Awaits, CheckAwaits, WantAwaits, MessageAwaits, BackAwaits,
       Unasked, Unshown, Turning, FormAwaits

(* The subscription check. *)
LEMMA CheckScreen ==
  ASSUME Clean, NEW t \in Tasks, CheckSubscription(t)
  PROVE  ScreenInv'
<1>1. frame[t] \in Frame
  BY CleanFacts
<1>2. frame[t].pc \in CheckAwaits /\ frame[t].pc # "idle"
  BY DEF CheckSubscription, CheckMember, CheckDeny, CheckClear, CheckAnswer,
         CheckConfirm, At, CheckAwaits
<1>3. frame[t].pc \in Steady \ {"idle"}
  BY <1>2, SteadyAwaits
<1>4. NoFrame.pc = "idle"
  BY DEF NoFrame
<1>5. ASSUME NEW pc \in CheckAwaits, NEW f, f = [frame[t] EXCEPT !.pc = pc]
      PROVE  f.pc \in Steady /\ f.chat = frame[t].chat
  BY <1>1, <1>5, SteadyAwaits DEF Frame
<1>6. CASE CheckMember(t) \/ CheckAnswer(t)
  <2>1. PICK pc \in CheckAwaits : Request(t, [frame[t] EXCEPT !.pc = pc])
    BY <1>6 DEF CheckMember, CheckAnswer, CheckAwaits
  <2> QED
    BY <1>3, <1>5, <2>1, RequestScreen
<1>7. CASE CheckDeny(t)
  BY <1>3, <1>4, <1>7, NoFrameSteady, RequestScreen DEF CheckDeny
<1>8. CASE CheckClear(t)
  <2> DEFINE f == [frame[t] EXCEPT !.pc = "check.answer"]
  <2>1. Clear(t, frame[t].click, f) /\ frame[t].pc = "check.clear"
    BY <1>8 DEF CheckClear, At
  <2>2. f.pc \in Steady /\ f.chat = frame[t].chat
    BY <1>5 DEF CheckAwaits
  <2> HIDE DEF f
  <2> QED
    BY <1>3, <2>1, <2>2, PressScreen
<1>9. CASE CheckConfirm(t)
  <2>1. /\ Confirmed \in Message /\ Confirmed.kind \notin Asking \cup {"form"}
        /\ Confirmed.keyboard # "form_back"
    BY MessageTypes, MessageParts DEF Asking
  <2> QED
    BY <1>3, <1>9, <2>1, NoticeScreen DEF CheckConfirm
<1> QED
  BY <1>6, <1>7, <1>8, <1>9 DEF CheckSubscription

(* An UPDATE changes the row from one that fits the await before it to one *)
(* that fits the await after it.                                           *)
LEMMA WriteScreen ==
  ASSUME Clean, NEW t \in Tasks, frame[t].pc \in Writing,
         NEW c, c = frame[t].chat, NEW log, log = messages[c],
         NEW o, o = frame[t].obj, NEW row, row = registrations[o.id],
         NEW to, to = o.row,
         NEW f, Update(t, f), f.pc = "idle" \/ f.chat = c,
         f.pc \notin {"form.update", "back.outdated"},
         f.pc = "form.edit" => frame[t].pc = "form.update",
         ScreenOK(row, log, frame[t]) => ScreenOK(to, log, f)
  PROVE  ScreenInv'
<1>1. PICK new : new = Updated(registrations, o)
  OBVIOUS
<1>2. /\ o.id \in DOMAIN registrations
      /\ registrations[o.id].chat_id = c
  BY CleanFacts, WritingAgrees
<1>3. /\ new[o.id] = o.row
      /\ \A d : RowsOf(new, d) = RowsOf(registrations, d)
      /\ Inside(new, c)
  BY <1>1, CleanFacts, WritesInside
<1>4. frame[t].pc # "idle"
  BY DEF Writing
<1>5. Moves(t, new, log, f)
  BY <1>1, CleanStatement DEF Update
<1>6. ChatOK(registrations, log, c, frame[t])
  BY <1>4, CleanFacts
<1>7. o.id \in RowsOf(registrations, c)
  BY <1>2 DEF RowsOf
<1>8. ASSUME NEW i, RowsOf(new, c) = {i} PROVE ScreenOK(new[i], log, f)
  <2>1. RowsOf(registrations, c) = {i} /\ i = o.id
    BY <1>3, <1>7, <1>8
  <2>2. ScreenOK(registrations[i], log, frame[t])
    BY <1>6, <2>1 DEF ChatOK
  <2> QED
    BY <1>3, <2>1, <2>2
<1>9. f.pc \in {"form.update", "form.edit", "back.outdated"}
        => \E i : RowsOf(new, c) = {i}
  BY <1>3, <1>6 DEF ChatOK
<1>10. RowsOf(new, c) # {}
  BY <1>3, <1>7
<1>11. ChatOK(new, log, c, f)
  BY <1>8, <1>9, <1>10 DEF ChatOK
<1> QED
  BY <1>3, <1>4, <1>5, <1>11, MoveScreen

(* Where there is no back button there is none but that of any message. *)
LEMMA NoneButAny ==
  ASSUME NEW log \in Seq(Message), BackOnly(log, 0), NEW form
  PROVE  BackOnly(log, form)
<1>1. 0 \notin DOMAIN log
  BY LenProperties
<1> QED
  BY <1>1 DEF BackOnly

(* The end of a handler asks of the chat that it agrees. *)
LEMMA NoFrameScreen ==
  ASSUME NEW row, NEW log, Base(row, log)
  PROVE  ScreenOK(row, log, NoFrame)
<1>1. NoFrame.pc = "idle"
  BY DEF NoFrame
<1> QED
  BY <1>1 DEF ScreenOK, Base, BackAt, Unasked, Unshown, Turning, FormAwaits

(* A row that was inserted has nothing answered. *)
LEMMA BlankAnsweredTo ==
  ASSUME NEW row, row.answers = Blank PROVE AnsweredTo(row, WaitingName)
BY FieldOfType, CompletedIsLast DEF AnsweredTo, Blank

(* The form of a new registration is its question. *)
LEMMA OpenedScreen ==
  ASSUME NEW log \in Seq(Message), NEW f, f.pc = "want.update",
         NEW row, NEW new, ScreenOK(row, log, f),
         new.state = row.state, new.answers = row.answers,
         new.message_id = f.obj.row.message_id
  PROVE  ScreenOK(new, log, NoFrame)
<1>1. /\ row.state = WaitingName /\ row.answers = Blank
      /\ BackOnly(log, 0)
      /\ JustSent(log, f, Prompt(WaitingName))
  BY DEF ScreenOK, BackAt
<1>2. AnsweredTo(new, new.state)
  BY <1>1, BlankAnsweredTo
<1>3. Asks(new, log)
  <2>1. Question(WaitingName) = Prompt(WaitingName)
    BY DEF Question, WaitingName, Completed
  <2>2. \A m \in DOMAIN log : m <= Len(log)
    BY LenProperties
  <2> QED
    BY <1>1, <2>1, <2>2 DEF Asks, JustSent
<1>4. Shows(new, log)
  BY <1>1 DEF Shows, JustSent
<1>5. BackOnly(log, new.message_id)
  BY <1>1, NoneButAny
<1> QED
  BY <1>2, <1>3, <1>4, <1>5, NoFrameScreen DEF Base

(* The INSERT of "want to participate". *)
LEMMA WantSaveScreen ==
  ASSUME Clean, NEW t \in Tasks, WantSave(t)
  PROVE  ScreenInv'
<1>1. PICK c, log, table, f :
        /\ c = frame[t].chat /\ log = messages[c]
        /\ table = Inserted(registrations, c)
        /\ f = [frame[t] EXCEPT !.pc = "want.prompt",
                                !.obj = Snapshot(table, Len(table))]
  OBVIOUS
<1>2. frame[t] \in Frame /\ c \in Chats /\ registrations \in Seq(Row)
  BY <1>1, CleanFacts
<1>3. frame[t].pc = "want.save"
  BY DEF WantSave, At
<1>4. ~Fault
  BY DEF Clean, Fault
<1>5. Moves(t, table, log, f)
  <2>1. Statement(t, table, f)
    BY <1>1, <1>4 DEF WantSave
  <2> QED
    BY <1>1, <2>1, CleanStatement
<1>6. Insertion(registrations, table, c)
  BY <1>1, <1>2, Inserts
<1>7. Inside(table, c)
  BY <1>1, <1>2, InsertLeavesOthers DEF Inside
<1>8. f.pc = "want.prompt" /\ f.chat = c
  BY <1>1, <1>2 DEF Frame
<1>9. ChatRests(registrations, log, c)
  <2>1. frame[t].pc \in Steady \ {"idle"}
    BY <1>3, SteadyAwaits DEF WantAwaits
  <2> QED
    BY <1>1, <2>1, AtRest
<1>10. ASSUME NEW i, RowsOf(table, c) = {i} PROVE ScreenOK(table[i], log, f)
  <2>1. i = Len(table) /\ Len(table) \notin DOMAIN registrations
    BY <1>6, <1>10 DEF Insertion
  <2>2. RowsOf(registrations, c) = {}
    BY <1>6, <1>10, <2>1 DEF Insertion, RowsOf
  <2>3. BackOnly(log, 0)
    BY <1>9, <2>2 DEF ChatRests
  <2>4. table[i] = [chat_id |-> c, state |-> WaitingName, message_id |-> 0,
                    answers |-> Blank]
    BY <1>6, <2>1 DEF Insertion
  <2>5. table[i].state = WaitingName /\ table[i].answers = Blank
    BY <2>4
  <2>6. AnsweredTo(table[i], WaitingName)
    BY <2>5, BlankAnsweredTo
  <2> QED
    BY <1>8, <2>3, <2>5, <2>6
    DEF ScreenOK, BackAt, Unasked, Unshown, Turning, FormAwaits
<1>11. RowsOf(table, c) # {}
  BY <1>6 DEF Insertion
<1>12. ChatOK(table, log, c, f)
  BY <1>8, <1>10, <1>11 DEF ChatOK
<1> QED
  BY <1>1, <1>3, <1>5, <1>7, <1>8, <1>12, MoveScreen

(* The first question is sent. *)
LEMMA WantPromptScreen ==
  ASSUME Clean, NEW t \in Tasks, WantPrompt(t)
  PROVE  ScreenInv'
<1>1. PICK c, log, m, f, new, next :
        /\ c = frame[t].chat /\ log = messages[c] /\ m = Len(log) + 1
        /\ f = [frame[t] EXCEPT !.pc = "want.update",
                                !.obj = SetMessageId(@, m)]
        /\ new = Prompt(WaitingName) /\ next = Append(log, new)
  OBVIOUS
<1>2. /\ frame[t] \in Frame /\ log \in Seq(Message) /\ new \in Message
      /\ frame[t].obj \in Object
  BY <1>1, CleanFacts, FormInvFacts, MessageTypes, CompletedIsLast,
     StatesAreNaturals
<1>3. frame[t].pc = "want.prompt"
  BY DEF WantPrompt, At
<1>4. Moves(t, registrations, next, f)
  <2>1. new.kind # "form"
    BY <1>1, MessageParts
  <2>2. Api(t, Fits(new), next, f)
    BY <1>1 DEF WantPrompt, Send
  <2> QED
    BY <2>1, <2>2, NoticesFit, CleanRequest
<1>5. f.pc = "want.update" /\ f.chat = c /\ f.obj = SetMessageId(frame[t].obj, m)
  BY <1>1, <1>2 DEF Frame
<1>6. f.obj.row.message_id = m
  BY <1>2, <1>5 DEF SetMessageId, Object, Row
<1>7. Grown(log, new, next)
  BY <1>1, <1>2, AppendGrows
<1>8. new.keyboard # "form_back"
  BY <1>1, MessageParts
<1>9. BackOnly(log, 0) => BackOnly(next, 0)
  BY <1>7, <1>8, StillBackOnly
<1>10. JustSent(next, f, new)
  BY <1>1, <1>6, <1>7 DEF JustSent, Grown
<1>11. ChatOK(registrations, log, c, frame[t])
  BY <1>1, <1>3, CleanFacts
<1>12. ASSUME NEW i, RowsOf(registrations, c) = {i}
       PROVE  ScreenOK(registrations[i], next, f)
  <2>1. ScreenOK(registrations[i], log, frame[t])
    BY <1>11, <1>12 DEF ChatOK
  <2>2. /\ registrations[i].state = WaitingName
        /\ registrations[i].answers = Blank /\ BackOnly(log, 0)
    BY <1>3, <2>1 DEF ScreenOK, BackAt
  <2>3. AnsweredTo(registrations[i], WaitingName)
    BY <2>2, BlankAnsweredTo
  <2> QED
    BY <1>1, <1>5, <1>9, <1>10, <2>2, <2>3
    DEF ScreenOK, BackAt, Unasked, Unshown, Turning, FormAwaits
<1>13. ChatOK(registrations, next, c, f)
  BY <1>5, <1>9, <1>11, <1>12 DEF ChatOK
<1> QED
  BY <1>1, <1>3, <1>4, <1>5, <1>13, ReadScreen

(* "Want to participate". *)
LEMMA WantScreen ==
  ASSUME Clean, NEW t \in Tasks, AnswerWantParticipateQuery(t)
  PROVE  ScreenInv'
<1>1. frame[t] \in Frame
  BY CleanFacts
<1>2. ASSUME NEW pc \in {"want.clear", "want.contest", "want.save"}, NEW f,
             f = [frame[t] EXCEPT !.pc = pc]
      PROVE  f.pc \in Steady /\ f.chat = frame[t].chat
  BY <1>1, <1>2, SteadyAwaits DEF Frame, WantAwaits
<1>3. ASSUME frame[t].pc \in {"want.answer", "want.clear", "want.contest"}
      PROVE  frame[t].pc \in Steady \ {"idle"}
  BY <1>3, SteadyAwaits DEF WantAwaits
<1>4. CASE WantAnswer(t) \/ WantContest(t)
  <2>1. PICK pc \in {"want.clear", "want.contest", "want.save"} :
          Request(t, [frame[t] EXCEPT !.pc = pc])
    BY <1>4 DEF WantAnswer, WantContest
  <2>2. frame[t].pc \in Steady \ {"idle"}
    BY <1>3, <1>4 DEF WantAnswer, WantContest, At
  <2> QED
    BY <1>2, <2>1, <2>2, RequestScreen
<1>5. CASE WantClear(t)
  <2> DEFINE f == [frame[t] EXCEPT !.pc = "want.contest"]
  <2>1. Clear(t, frame[t].click, f) /\ frame[t].pc = "want.clear"
    BY <1>5 DEF WantClear, At
  <2>2. f.pc \in Steady /\ f.chat = frame[t].chat
    BY <1>2
  <2> HIDE DEF f
  <2> QED
    BY <1>3, <2>1, <2>2, PressScreen
<1>6. CASE WantUpdate(t)
  <2>1. PICK c, log, o, row :
          /\ c = frame[t].chat /\ log = messages[c]
          /\ o = frame[t].obj /\ row = registrations[o.id]
    OBVIOUS
  <2>2. frame[t].pc = "want.update" /\ Update(t, NoFrame)
    BY <1>6 DEF WantUpdate, At
  <2>3. frame[t].pc \in Writing
    BY <2>2 DEF Writing
  <2>4. Change(frame[t], o, row) /\ log \in Seq(Message)
    BY <2>1, <2>3, CleanFacts, FreshWriting
  <2>5. o.row.state = row.state /\ o.row.answers = row.answers
    BY <2>2, <2>4 DEF Change
  <2>6. PICK new : new = o.row
    OBVIOUS
  <2>7. new.message_id = frame[t].obj.row.message_id
    BY <2>1, <2>6
  <2>8. ScreenOK(row, log, frame[t]) => ScreenOK(new, log, NoFrame)
    BY <2>2, <2>4, <2>5, <2>6, <2>7, OpenedScreen
  <2>9. NoFrame.pc = "idle"
    BY DEF NoFrame
  <2>10. NoFrame.pc \notin {"form.update", "form.edit", "back.outdated"}
    BY <2>9
  <2> QED
    BY <2>1, <2>2, <2>3, <2>6, <2>8, <2>9, <2>10, WriteScreen
<1> QED
  BY <1>4, <1>5, <1>6, WantSaveScreen, WantPromptScreen
  DEF AnswerWantParticipateQuery

(* While the form is on its way to show the row, that is all that is asked *)
(* of the chat.                                                            *)
LEMMA TurningScreen ==
  ASSUME NEW row, NEW log, NEW f, f.pc \in Turning
  PROVE  ScreenOK(row, log, f) <=> Turned(row, log, f.step)
<1>1. BackAt(row, f) = row.message_id
  BY DEF BackAt, Turning
<1> QED
  BY <1>1 DEF ScreenOK, Turned, Unasked, Unshown, Turning, FormAwaits

(* At a steady await the chat agrees with the row. *)
LEMMA SteadyScreen ==
  ASSUME NEW row, NEW log, NEW f, f.pc \in Steady
  PROVE  ScreenOK(row, log, f) => Base(row, log)
<1>1. f.pc \notin Unasked \cup Unshown
  BY DEF Steady
<1>2. BackAt(row, f) = row.message_id
  BY <1>1 DEF BackAt, Unshown
<1> QED
  BY <1>1, <1>2 DEF ScreenOK, Base, Unshown

(* The question that is sent ends the wait for it. *)
LEMMA AskedScreen ==
  ASSUME NEW row, NEW log, NEW next, Grown(log, Question(row.state), next),
         AnsweredTo(row, row.state), Shows(row, log),
         BackOnly(log, row.message_id)
  PROVE  ScreenOK(row, next, NoFrame)
<1>1. PICK new : new = Question(row.state)
  OBVIOUS
<1>2. new.keyboard # "form_back"
  BY <1>1, MessageParts
<1>3. Shows(row, next) /\ BackOnly(next, row.message_id)
  BY <1>1, <1>2, StillShown, StillBackOnly
<1> QED
  BY <1>3, QuestionAsked, NoFrameScreen DEF Base

(* It is sent as the last step of a handler. *)
LEMMA AskScreen ==
  ASSUME Clean, NEW t \in Tasks, frame[t].pc # "idle",
         frame[t].pc \notin Unshown, NEW new \in Message,
         \A i : RowsOf(registrations, frame[t].chat) = {i} =>
           /\ new = Question(registrations[i].state)
           /\ BackAt(registrations[i], frame[t])
                = registrations[i].message_id,
         new.keyboard # "form_back", new.kind # "form",
         Send(t, new, NoFrame)
  PROVE  ScreenInv'
<1>1. PICK c, log, next :
        /\ c = frame[t].chat /\ log = messages[c]
        /\ next = Append(log, new)
  OBVIOUS
<1>2. /\ log \in Seq(Message)
      /\ ChatOK(registrations, log, c, frame[t])
  BY <1>1, CleanFacts
<1>3. Moves(t, registrations, next, NoFrame)
  <2>1. Api(t, Fits(new), next, NoFrame)
    BY <1>1 DEF Send
  <2> QED
    BY <2>1, NoticesFit, CleanRequest
<1>4. Grown(log, new, next)
  BY <1>1, <1>2, AppendGrows
<1>5. frame[t].pc \notin Turning
  BY DEF Unshown
<1>6. ASSUME NEW i, RowsOf(registrations, c) = {i}
      PROVE  ScreenOK(registrations[i], next, NoFrame)
  <2>1. PICK row : row = registrations[i]
    OBVIOUS
  <2>2. ScreenOK(row, log, frame[t])
    BY <1>2, <1>6, <2>1 DEF ChatOK
  <2>3. new = Question(row.state) /\ BackAt(row, frame[t]) = row.message_id
    BY <1>1, <1>6, <2>1
  <2>4. /\ AnsweredTo(row, row.state) /\ Shows(row, log)
        /\ BackOnly(log, row.message_id)
    BY <1>5, <2>2, <2>3 DEF ScreenOK
  <2>5. Grown(log, Question(row.state), next)
    BY <1>4, <2>3
  <2> QED
    BY <2>1, <2>4, <2>5, AskedScreen
<1>7. RowsOf(registrations, c) = {} => BackOnly(next, 0)
  BY <1>2, <1>4, StillBackOnly DEF ChatOK
<1>8. NoFrame.pc = "idle"
  BY DEF NoFrame
<1>9. ChatOK(registrations, next, c, NoFrame)
  BY <1>6, <1>7, <1>8 DEF ChatOK
<1> QED
  BY <1>1, <1>3, <1>8, <1>9, ReadScreen

(* An answer. *)
LEMMA MessageScreen ==
  ASSUME Clean, NEW t \in Tasks, ProcessMessage(t)
  PROVE  ScreenInv'
<1>1. frame[t] \in Frame
  BY CleanFacts
<1>2. NoFrame.pc \in Steady /\ NoFrame.pc = "idle"
  BY NoFrameSteady DEF NoFrame
<1>3. {"message.find", "save.find", "save.update"} \subseteq Steady \ {"idle"}
  BY SteadyAwaits DEF MessageAwaits
<1>4. CASE MessageFind(t)
  <2>1. PICK f :
          /\ Statement(t, registrations, f)
          /\ \/ f = NoFrame
             \/ \E s : f = [frame[t] EXCEPT !.pc = "save.find", !.step = s]
    BY <1>4 DEF MessageFind, FindByChatId
  <2>2. f.pc \in Steady /\ (f.pc = "idle" \/ f.chat = frame[t].chat)
    BY <1>1, <1>2, <1>3, <2>1 DEF Frame
  <2>3. frame[t].pc \in Steady \ {"idle"}
    BY <1>3, <1>4 DEF MessageFind, At
  <2> QED
    BY <2>1, <2>2, <2>3, LookupScreen
<1>5. CASE SaveFind(t)
  <2>1. PICK f :
          /\ Statement(t, registrations, f)
          /\ \/ f = NoFrame
             \/ \E o : f = [frame[t] EXCEPT !.pc = "save.update", !.obj = o]
    BY <1>5 DEF SaveFind, FindByChatId
  <2>2. f.pc \in Steady /\ (f.pc = "idle" \/ f.chat = frame[t].chat)
    BY <1>1, <1>2, <1>3, <2>1 DEF Frame
  <2>3. frame[t].pc \in Steady \ {"idle"}
    BY <1>3, <1>5 DEF SaveFind, At
  <2> QED
    BY <2>1, <2>2, <2>3, LookupScreen
<1>6. CASE SaveUpdate(t)
  <2>1. PICK c, log, o, row, f :
          /\ c = frame[t].chat /\ log = messages[c]
          /\ o = frame[t].obj /\ row = registrations[o.id]
          /\ f = [frame[t] EXCEPT !.pc = "form.find", !.step = NextState(@),
                                  !.text = NoText, !.obj = NoObject]
    OBVIOUS
  <2>2. frame[t].pc = "save.update" /\ Update(t, f)
    BY <1>6, <2>1 DEF SaveUpdate, At
  <2>3. frame[t].pc \in Writing
    BY <2>2 DEF Writing
  <2>4. row \in Row /\ o \in Object /\ Change(frame[t], o, row)
    BY <2>1, <2>3, CleanFacts, FreshWriting
  <2>5. /\ f.pc = "form.find" /\ f.chat = c
        /\ f.step = NextState(frame[t].step)
    BY <1>1, <2>1 DEF Frame
  <2>6. ScreenOK(row, log, frame[t]) => ScreenOK(o.row, log, f)
    <3>1. SUFFICES ASSUME ScreenOK(row, log, frame[t])
                   PROVE  ScreenOK(o.row, log, f)
      OBVIOUS
    <3>2. Base(row, log)
      BY <1>3, <2>2, <3>1, SteadyScreen
    <3>3. Turned(o.row, log, NextState(frame[t].step))
      BY <2>2, <2>4, <3>2, AnswerTurns DEF Clean
    <3>4. f.pc \in Turning /\ Turned(o.row, log, f.step)
      BY <2>5, <3>3 DEF Turning
    <3> QED
      BY <3>4, TurningScreen
  <2>7. PICK to : to = o.row
    OBVIOUS
  <2>8. /\ f.pc = "idle" \/ f.chat = c
        /\ f.pc \notin {"form.update", "back.outdated"}
        /\ f.pc = "form.edit" => frame[t].pc = "form.update"
    BY <2>5
  <2>9. /\ c = frame[t].chat /\ log = messages[c]
        /\ o = frame[t].obj /\ row = registrations[o.id] /\ to = o.row
        /\ ScreenOK(row, log, frame[t]) => ScreenOK(to, log, f)
    BY <2>1, <2>6, <2>7
  <2> QED
    BY <2>2, <2>3, <2>8, <2>9, WriteScreen
<1>7. CASE SaveThanks(t)
  <2>1. frame[t].pc = "save.thanks" /\ Send(t, ThankYou, NoFrame)
    BY <1>7 DEF SaveThanks, At
  <2>2. /\ ThankYou \in Message /\ ThankYou.keyboard # "form_back"
        /\ ThankYou.kind # "form"
    BY MessageTypes, MessageParts
  <2>3. ASSUME NEW i, RowsOf(registrations, frame[t].chat) = {i}
        PROVE  /\ ThankYou = Question(registrations[i].state)
               /\ BackAt(registrations[i], frame[t])
                    = registrations[i].message_id
    <3>1. ScreenOK(registrations[i], messages[frame[t].chat], frame[t])
      BY <2>1, <2>3, CleanFacts DEF ChatOK
    <3> QED
      BY <2>1, <3>1 DEF ScreenOK, BackAt, Question
  <2>4. frame[t].pc \notin Unshown
    BY <2>1 DEF Unshown, Turning
  <2> QED
    BY <2>1, <2>2, <2>3, <2>4, AskScreen
<1> QED
  BY <1>4, <1>5, <1>6, <1>7 DEF ProcessMessage

(* The form whose back button was pressed is the current one, because no   *)
(* other message has such a button.                                        *)
LEMMA BackFindScreen ==
  ASSUME Clean, NEW t \in Tasks, BackFind(t)
  PROVE  ScreenInv'
<1>1. PICK c, log : c = frame[t].chat /\ log = messages[c]
  OBVIOUS
<1>2. /\ frame[t].pc = "back.find" /\ frame[t].pc # "idle"
      /\ frame[t] \in Frame /\ FormInv
  BY CleanFacts DEF BackFind, At
<1>3. ChatOK(registrations, log, c, frame[t])
  BY <1>1, <1>2, CleanFacts
<1>4. ChatRests(registrations, log, c)
  BY <1>2, <1>3, RestsAtFind
<1>5. {"back.answer", "back.unknown"} \subseteq Steady
  BY SteadyAwaits
<1>6. PICK f :
        /\ Statement(t, registrations, f)
        /\ f.pc \in {"back.answer", "back.unknown"} /\ f.chat = c
  <2>1. CASE Found(registrations, c)
    <3>1. PICK o : o = Snapshot(registrations, TheRow(registrations, c))
      OBVIOUS
    <3>2. o.row = registrations[o.id] /\ RowsOf(registrations, c) = {o.id}
      BY <1>1, <1>2, <2>1, <3>1, FoundFresh
    <3>3. ScreenOK(registrations[o.id], log, frame[t])
      BY <1>3, <3>2 DEF ChatOK
    <3>4. frame[t].click = o.row.message_id
      BY <1>2, <3>2, <3>3 DEF ScreenOK
    <3> DEFINE g == [frame[t] EXCEPT !.pc = "back.answer", !.obj = o]
    <3>5. Statement(t, registrations, g)
      BY <1>1, <2>1, <3>1, <3>4 DEF BackFind, FindByChatId
    <3>6. g.pc = "back.answer" /\ g.chat = c
      BY <1>1, <1>2 DEF Frame
    <3> HIDE DEF g
    <3> QED
      BY <3>5, <3>6
  <2>2. CASE ~Found(registrations, c)
    <3>1. Statement(t, registrations,
                    [frame[t] EXCEPT !.pc = "back.unknown"])
      BY <1>1, <2>2 DEF BackFind, FindByChatId
    <3> QED
      BY <1>1, <1>2, <3>1 DEF Frame
  <2> QED
    BY <2>1, <2>2
<1>7. Moves(t, registrations, log, f)
  BY <1>1, <1>6, CleanStatement
<1> QED
  BY <1>1, <1>2, <1>4, <1>5, <1>6, <1>7, RestScreen

(* The row is one step back. *)
LEMMA BackUpdateScreen ==
  ASSUME Clean, NEW t \in Tasks, BackUpdate(t)
  PROVE  ScreenInv'
<1>1. PICK c, log, o, row, to, f :
        /\ c = frame[t].chat /\ log = messages[c]
        /\ o = frame[t].obj /\ row = registrations[o.id] /\ to = o.row
        /\ f = [frame[t] EXCEPT !.pc = "form.find", !.obj = NoObject]
  OBVIOUS
<1>2. frame[t].pc = "back.update" /\ Update(t, f)
  BY <1>1 DEF BackUpdate, At
<1>3. frame[t].pc \in Writing
  BY <1>2 DEF Writing
<1>4. row \in Row /\ o \in Object /\ Change(frame[t], o, row)
  BY <1>1, <1>3, CleanFacts, FreshWriting
<1>5. f.pc = "form.find" /\ f.chat = c /\ f.step = frame[t].step
  <2>1. frame[t] \in Frame
    BY CleanFacts
  <2> QED
    BY <1>1, <2>1 DEF Frame
<1>6. ASSUME ScreenOK(row, log, frame[t]) PROVE ScreenOK(to, log, f)
  <2>1. frame[t].pc \in Steady
    BY <1>2, SteadyAwaits
  <2>2. Base(row, log)
    BY <1>6, <2>1, SteadyScreen
  <2>3. Turned(o.row, log, frame[t].step)
    BY <1>2, <1>4, <2>2, BackTurns DEF Clean
  <2>4. f.pc \in Turning /\ Turned(to, log, f.step)
    BY <1>1, <1>5, <2>3 DEF Turning
  <2> QED
    BY <2>4, TurningScreen
<1>7. /\ f.pc = "idle" \/ f.chat = c
      /\ f.pc \notin {"form.update", "back.outdated"}
      /\ f.pc = "form.edit" => frame[t].pc = "form.update"
  BY <1>5
<1>8. /\ c = frame[t].chat /\ log = messages[c]
      /\ o = frame[t].obj /\ row = registrations[o.id] /\ to = o.row
      /\ ScreenOK(row, log, frame[t]) => ScreenOK(to, log, f)
  BY <1>1, <1>6
<1> QED
  BY <1>2, <1>3, <1>7, <1>8, WriteScreen

(* The back button. *)
LEMMA BackScreen ==
  ASSUME Clean, NEW t \in Tasks, ReplyBackQuery(t)
  PROVE  ScreenInv'
<1>1. frame[t] \in Frame
  BY CleanFacts
<1>2. NoFrame.pc \in Steady /\ NoFrame.pc = "idle"
  BY NoFrameSteady DEF NoFrame
<1>3. {"back.unknown", "back.answer", "back.update"} \subseteq Steady
  BY SteadyAwaits
<1>4. CASE BackRefuse(t)
  <2>1. CASE At(t, "back.unknown")
    <3>1. frame[t].pc \in Steady \ {"idle"}
      BY <1>3, <2>1 DEF At
    <3> QED
      BY <1>2, <1>4, <3>1, RequestScreen DEF BackRefuse
  <2>2. CASE At(t, "back.outdated")
    <3>1. PICK c, log : c = frame[t].chat /\ log = messages[c]
      OBVIOUS
    <3>2. frame[t].pc = "back.outdated" /\ frame[t].pc # "idle"
      BY <2>2 DEF At
    <3>3. ChatOK(registrations, log, c, frame[t])
      BY <3>1, <3>2, CleanFacts
    <3> QED
      BY <3>2, <3>3 DEF ChatOK, ScreenOK
  <2> QED
    BY <1>4, <2>1, <2>2 DEF BackRefuse
<1>5. CASE BackAnswer(t)
  <2>1. PICK f :
          /\ Request(t, f)
          /\ \/ f = NoFrame
             \/ \E s, o : f = [frame[t] EXCEPT !.pc = "back.update",
                                               !.step = s, !.obj = o]
    BY <1>5 DEF BackAnswer
  <2>2. f.pc \in Steady /\ (f.pc = "idle" \/ f.chat = frame[t].chat)
    BY <1>1, <1>2, <1>3, <2>1 DEF Frame
  <2>3. frame[t].pc \in Steady \ {"idle"}
    BY <1>3, <1>5 DEF BackAnswer, At
  <2> QED
    BY <2>1, <2>2, <2>3, RequestScreen
<1> QED
  BY <1>4, <1>5, BackFindScreen, BackUpdateScreen DEF ReplyBackQuery

(* The object that a coroutine shows is the row of its chat. *)
LEMMA HeldRow ==
  ASSUME FormInv, NEW t \in Tasks,
         frame[t].pc \in {"form.edit", "resume.clear", "resume.form",
                          "resume.prompt"},
         NEW i, RowsOf(registrations, frame[t].chat) = {i}
  PROVE  frame[t].obj.row = registrations[i]
<1>1. PICK o : o = frame[t].obj
  OBVIOUS
<1>2. o.id \in DOMAIN registrations /\ registrations[o.id].chat_id = frame[t].chat
  BY <1>1, FormInvFacts DEF ObjectOK, Holding
<1>3. o.id = i
  BY <1>2 DEF RowsOf
<1>4. /\ frame[t].pc \in {"resume.clear", "resume.form"}
           => o = Snapshot(registrations, o.id)
      /\ frame[t].pc \in {"form.edit", "resume.prompt"}
           => o.row = registrations[o.id]
  BY <1>1, FormInvFacts DEF FreshOK
<1>5. Snapshot(registrations, o.id).row = registrations[o.id]
  BY DEF Snapshot
<1> QED
  BY <1>1, <1>3, <1>4, <1>5

(* No row, or several, are found. *)
LEMMA NotFoundRows ==
  ASSUME NEW table, NEW c, ~Found(table, c)
  PROVE  \A i : RowsOf(table, c) # {i}
BY FS_Singleton DEF Found

(* showFormPrompt reads the row. *)
LEMMA FormFindScreen ==
  ASSUME Clean, NEW t \in Tasks, FormFind(t)
  PROVE  ScreenInv'
<1>1. PICK c, log : c = frame[t].chat /\ log = messages[c]
  OBVIOUS
<1>2. /\ frame[t].pc = "form.find" /\ frame[t].pc # "idle"
      /\ frame[t] \in Frame /\ FormInv
  BY CleanFacts DEF FormFind, At
<1>3. ChatOK(registrations, log, c, frame[t])
  BY <1>1, <1>2, CleanFacts
<1>4. CASE Found(registrations, c)
  <2>1. PICK o : o = Snapshot(registrations, TheRow(registrations, c))
    OBVIOUS
  <2>2. RowsOf(registrations, c) = {o.id}
    BY <1>1, <1>2, <1>4, <2>1, FoundFresh
  <2> DEFINE f == [frame[t] EXCEPT !.pc = "form.update",
                                   !.obj = SetState(o, frame[t].step)]
  <2>3. Statement(t, registrations, f)
    BY <1>1, <1>4, <2>1 DEF FormFind, FindByChatId
  <2>4. f.pc = "form.update" /\ f.chat = c /\ f.step = frame[t].step
    BY <1>1, <1>2 DEF Frame
  <2> HIDE DEF f
  <2>5. Moves(t, registrations, log, f)
    BY <1>1, <2>3, CleanStatement
  <2>6. ASSUME NEW i, RowsOf(registrations, c) = {i}
        PROVE  ScreenOK(registrations[i], log, f)
    <3>1. ScreenOK(registrations[i], log, frame[t])
      BY <1>3, <2>6 DEF ChatOK
    <3>2. f.pc \in Turning /\ frame[t].pc \in Turning
      BY <1>2, <2>4 DEF Turning
    <3>3. Turned(registrations[i], log, f.step)
      BY <2>4, <3>1, <3>2, TurningScreen
    <3> QED
      BY <3>2, <3>3, TurningScreen
  <2>7. ChatOK(registrations, log, c, f)
    BY <1>3, <2>2, <2>4, <2>6 DEF ChatOK
  <2> QED
    BY <1>1, <1>2, <2>4, <2>5, <2>7, ReadScreen
<1>5. CASE ~Found(registrations, c)
  <2>1. PICK f : f = AfterForm(t)
    OBVIOUS
  <2>2. f.pc \in {"save.thanks", "idle"} /\ (f.pc = "idle" \/ f.chat = c)
    BY <1>1, <1>2, <2>1 DEF AfterForm, NoFrame, Frame
  <2>3. Statement(t, registrations, f)
    BY <1>1, <1>5, <2>1 DEF FormFind, FindByChatId
  <2>4. Moves(t, registrations, log, f)
    BY <1>1, <2>3, CleanStatement
  <2>5. ChatOK(registrations, log, c, f)
    BY <1>3, <1>5, <2>2, NotFoundRows DEF ChatOK
  <2> QED
    BY <1>1, <1>2, <2>2, <2>4, <2>5, ReadScreen
<1> QED
  BY <1>4, <1>5

(* It writes the state. *)
LEMMA FormUpdateScreen ==
  ASSUME Clean, NEW t \in Tasks, FormUpdate(t)
  PROVE  ScreenInv'
<1>1. PICK c, log, o, row, to, f :
        /\ c = frame[t].chat /\ log = messages[c]
        /\ o = frame[t].obj /\ row = registrations[o.id] /\ to = o.row
        /\ f = [frame[t] EXCEPT !.pc = "form.edit"]
  OBVIOUS
<1>2. frame[t].pc = "form.update" /\ Update(t, f)
  BY <1>1 DEF FormUpdate, At
<1>3. frame[t].pc \in Writing
  BY <1>2 DEF Writing
<1>4. to.answers = row.answers /\ to.message_id = row.message_id
  <2>1. Change(frame[t], o, row)
    BY <1>1, <1>3, CleanFacts, FreshWriting
  <2> QED
    BY <1>1, <1>2, <2>1 DEF Change
<1>5. f.pc = "form.edit" /\ f.chat = c /\ f.step = frame[t].step
  <2>1. frame[t] \in Frame
    BY CleanFacts
  <2> QED
    BY <1>1, <2>1 DEF Frame
<1>6. ASSUME ScreenOK(row, log, frame[t]) PROVE ScreenOK(to, log, f)
  <2>1. f.pc \in Turning /\ frame[t].pc \in Turning
    BY <1>2, <1>5 DEF Turning
  <2>2. Turned(row, log, f.step)
    BY <1>5, <1>6, <2>1, TurningScreen
  <2>3. Turned(to, log, f.step)
    BY <1>4, <2>2 DEF Turned, AnsweredTo
  <2> QED
    BY <2>1, <2>3, TurningScreen
<1>7. /\ f.pc = "idle" \/ f.chat = c
      /\ f.pc \notin {"form.update", "back.outdated"}
      /\ f.pc = "form.edit" => frame[t].pc = "form.update"
  BY <1>2, <1>5
<1>8. /\ c = frame[t].chat /\ log = messages[c]
      /\ o = frame[t].obj /\ row = registrations[o.id] /\ to = o.row
      /\ ScreenOK(row, log, frame[t]) => ScreenOK(to, log, f)
  BY <1>1, <1>6
<1> QED
  BY <1>2, <1>3, <1>7, <1>8, WriteScreen

(* It edits the form, which Telegram does not refuse: the text changes. *)
LEMMA FormEditScreen ==
  ASSUME Clean, NEW t \in Tasks, FormEdit(t)
  PROVE  ScreenInv'
<1>1. PICK c, log, row, m, new, next, f :
        /\ c = frame[t].chat /\ log = messages[c]
        /\ row = frame[t].obj.row /\ m = row.message_id
        /\ new = Form(row.answers, frame[t].step)
        /\ next = Edited(log, m, new)
        /\ f = [frame[t] EXCEPT !.pc = "form.prompt", !.obj = NoObject]
  OBVIOUS
<1>2. /\ frame[t].pc = "form.edit" /\ frame[t].pc # "idle"
      /\ frame[t] \in Frame /\ FormInv /\ log \in Seq(Message)
  BY <1>1, CleanFacts DEF FormEdit, At
<1>3. ChatOK(registrations, log, c, frame[t])
  BY <1>1, <1>2, CleanFacts
<1>4. PICK i : RowsOf(registrations, c) = {i}
  BY <1>2, <1>3 DEF ChatOK
<1>5. row = registrations[i] /\ frame[t].step = row.state
  <2>1. row = registrations[i]
    BY <1>1, <1>2, <1>4, HeldRow
  <2>2. /\ frame[t].obj.id \in DOMAIN registrations
        /\ registrations[frame[t].obj.id].chat_id = c
        /\ frame[t].step = registrations[frame[t].obj.id].state
    BY <1>1, <1>2, FormInvFacts DEF ObjectOK, FreshOK, Holding
  <2>3. frame[t].obj.id = i
    BY <1>4, <2>2 DEF RowsOf
  <2> QED
    BY <2>1, <2>2, <2>3
<1>6. Turned(row, log, row.state)
  <2>1. ScreenOK(row, log, frame[t])
    BY <1>3, <1>4, <1>5 DEF ChatOK
  <2>2. frame[t].pc \in Turning
    BY <1>2 DEF Turning
  <2> QED
    BY <1>5, <2>1, <2>2, TurningScreen
<1>7. m \in DOMAIN log /\ log[m] # new
  BY <1>1, <1>5, <1>6 DEF Turned
<1>8. Moves(t, registrations, next, f)
  <2>1. Fits(new)
    BY <1>1, <1>2, HeldFormFits
  <2>2. CanEdit(log, m, new)
    BY <1>7, <2>1 DEF CanEdit
  <2>3. Api(t, CanEdit(log, m, new), next, f)
    BY <1>1 DEF FormEdit, Edit
  <2> QED
    BY <2>2, <2>3, CleanRequest
<1>9. /\ DOMAIN next = DOMAIN log /\ next[m] = new
      /\ \A k \in DOMAIN log \ {m} : next[k] = log[k]
  BY <1>1, <1>7 DEF Edited
<1>10. f.pc = "form.prompt" /\ f.chat = c /\ f.step = frame[t].step
  BY <1>1, <1>2 DEF Frame
<1>11. /\ AnsweredTo(row, row.state) /\ Shows(row, next)
       /\ BackOnly(next, row.message_id)
  <2>1. m = row.message_id /\ new = Form(row.answers, row.state)
    BY <1>1, <1>5
  <2>2. AnsweredTo(row, row.state) /\ BackOnly(log, m)
    BY <1>6, <2>1 DEF Turned
  <2>3. Shows(row, next)
    BY <1>7, <1>9, <2>1 DEF Shows
  <2>4. BackOnly(next, m)
    BY <1>9, <2>2 DEF BackOnly
  <2> QED
    BY <2>1, <2>2, <2>3, <2>4
<1>12. ScreenOK(row, next, f)
  BY <1>5, <1>10, <1>11
  DEF ScreenOK, BackAt, Unasked, Unshown, Turning, FormAwaits
<1>13. ChatOK(registrations, next, c, f)
  <2>1. \A j : RowsOf(registrations, c) = {j} => j = i
    BY <1>4
  <2> QED
    BY <1>4, <1>5, <1>10, <1>12, <2>1 DEF ChatOK
<1> QED
  BY <1>1, <1>2, <1>8, <1>10, <1>13, ReadScreen

(* And asks the question. *)
LEMMA FormPromptScreen ==
  ASSUME Clean, NEW t \in Tasks, FormPrompt(t)
  PROVE  ScreenInv'
<1>1. PICK c, log, new, next, f :
        /\ c = frame[t].chat /\ log = messages[c]
        /\ new = Prompt(frame[t].step) /\ next = Append(log, new)
        /\ f = AfterForm(t)
  OBVIOUS
<1>2. /\ frame[t].pc = "form.prompt" /\ frame[t].pc # "idle"
      /\ frame[t] \in Frame /\ log \in Seq(Message)
      /\ frame[t].step \in States
  BY <1>1, CleanFacts, FormInvFacts DEF FormPrompt, At
<1>3. /\ new \in Message /\ new.keyboard # "form_back"
      /\ new.kind # "form"
  BY <1>1, <1>2, MessageTypes, MessageParts
<1>4. Send(t, new, f)
  BY <1>1 DEF FormPrompt
<1>5. ChatOK(registrations, log, c, frame[t])
  BY <1>1, <1>2, CleanFacts
<1>6. ASSUME NEW i, RowsOf(registrations, c) = {i}
      PROVE  ScreenOK(registrations[i], log, frame[t])
  BY <1>5, <1>6 DEF ChatOK
<1>7. CASE frame[t].step # Completed
  <2>1. f = NoFrame
    BY <1>1, <1>7 DEF AfterForm
  <2>2. ASSUME NEW i, RowsOf(registrations, frame[t].chat) = {i}
        PROVE  /\ new = Question(registrations[i].state)
               /\ BackAt(registrations[i], frame[t])
                    = registrations[i].message_id
    BY <1>1, <1>2, <1>6, <1>7, <2>2 DEF ScreenOK, Question, BackAt
  <2>3. frame[t].pc \notin Unshown
    BY <1>2 DEF Unshown, Turning
  <2> QED
    BY <1>2, <1>3, <1>4, <2>1, <2>2, <2>3, AskScreen
<1>8. CASE frame[t].step = Completed
  <2>1. f.pc = "save.thanks" /\ f.chat = c
    BY <1>1, <1>2, <1>8 DEF AfterForm, Frame
  <2>2. Moves(t, registrations, next, f)
    <3>1. Api(t, Fits(new), next, f)
      BY <1>1, <1>4 DEF Send
    <3> QED
      BY <1>3, <3>1, NoticesFit, CleanRequest
  <2>3. Grown(log, new, next)
    BY <1>1, <1>2, <1>3, AppendGrows
  <2>4. ASSUME NEW i, RowsOf(registrations, c) = {i}
        PROVE  ScreenOK(registrations[i], next, f)
    <3>1. PICK row : row = registrations[i]
      OBVIOUS
    <3>2. /\ row.state = Completed /\ AnsweredTo(row, row.state)
          /\ Shows(row, log) /\ BackOnly(log, row.message_id)
      BY <1>2, <1>6, <1>8, <2>4, <3>1
      DEF ScreenOK, BackAt, Unasked, Unshown, Turning, FormAwaits
    <3>3. Shows(row, next) /\ BackOnly(next, row.message_id)
      BY <1>3, <2>3, <3>2, StillShown, StillBackOnly
    <3>4. ScreenOK(row, next, f)
      BY <2>1, <3>2, <3>3
      DEF ScreenOK, BackAt, Unasked, Unshown, Turning, FormAwaits
    <3> QED
      BY <3>1, <3>4
  <2>5. RowsOf(registrations, c) = {} => BackOnly(next, 0)
    BY <1>3, <1>5, <2>3, StillBackOnly DEF ChatOK
  <2>6. ChatOK(registrations, next, c, f)
    BY <2>1, <2>4, <2>5 DEF ChatOK
  <2> QED
    BY <1>1, <1>2, <2>1, <2>2, <2>6, ReadScreen
<1> QED
  BY <1>7, <1>8

(* A form without keyboard had no back button. *)
LEMMA NoneToClear ==
  ASSUME NEW log, NEW m, m \in DOMAIN log, ~CanClear(log, m),
         BackOnly(log, m)
  PROVE  BackOnly(log, 0)
BY DEF CanClear, BackOnly

(* The previous form loses its keyboard. *)
LEMMA ResumeClearScreen ==
  ASSUME Clean, NEW t \in Tasks, ResumeClear(t)
  PROVE  ScreenInv'
<1>1. PICK c, log, m, bared, f :
        /\ c = frame[t].chat /\ log = messages[c]
        /\ m = frame[t].obj.row.message_id /\ bared = Cleared(log, m)
        /\ f = [frame[t] EXCEPT !.pc = "resume.form"]
  OBVIOUS
<1>2. /\ frame[t].pc = "resume.clear" /\ frame[t].pc # "idle"
      /\ frame[t] \in Frame /\ FormInv /\ log \in Seq(Message)
      /\ messages \in [Chats -> Seq(Message)]
  BY <1>1, CleanFacts DEF ResumeClear, At
<1>3. f.pc = "resume.form" /\ f.chat = c
  BY <1>1, <1>2 DEF Frame
<1>4. PICK next :
        /\ Moves(t, registrations, next, f)
        /\ \/ CanClear(log, m) /\ next = bared
           \/ ~CanClear(log, m) /\ next = log
  <2>1. ~Fault
    BY DEF Clean, Fault
  <2>2. messages = [messages EXCEPT ![frame[t].chat] = log]
    BY <1>1, <1>2
  <2>3. \/ CanClear(log, m) /\ Moves(t, registrations, bared, f)
        \/ ~CanClear(log, m) /\ Moves(t, registrations, log, f)
    BY <1>1, <2>1, <2>2 DEF ResumeClear, Moves, Goto, Resume
  <2> QED
    BY <2>3
<1>5. CanClear(log, m) => Bared(log, m, next)
  BY <1>1, <1>2, <1>4, ClearBares
<1>6. ChatOK(registrations, log, c, frame[t])
  BY <1>1, <1>2, CleanFacts
<1>7. ASSUME NEW i, RowsOf(registrations, c) = {i}
      PROVE  ScreenOK(registrations[i], next, f)
  <2>1. PICK row : row = registrations[i]
    OBVIOUS
  <2>2. row.message_id = m
    BY <1>1, <1>2, <1>7, <2>1, HeldRow
  <2>3. ScreenOK(row, log, frame[t])
    BY <1>6, <1>7, <2>1 DEF ChatOK
  <2>4. /\ AnsweredTo(row, row.state) /\ row.state # Completed
        /\ Asks(row, log) /\ Shows(row, log) /\ BackOnly(log, m)
    BY <1>2, <2>2, <2>3
    DEF ScreenOK, BackAt, Unasked, Unshown, Turning, FormAwaits
  <2>5. Asks(row, next)
    BY <1>4, <1>5, <2>4, BaredAsks
  <2>6. m \in DOMAIN log
    BY <2>2, <2>4 DEF Shows
  <2>7. BackOnly(next, 0)
    BY <1>4, <1>5, <2>4, <2>6, BaredBackOnly, NoneToClear
  <2>8. ScreenOK(row, next, f)
    BY <1>3, <2>4, <2>5, <2>7
    DEF ScreenOK, BackAt, Unasked, Unshown, Turning, FormAwaits
  <2> QED
    BY <2>1, <2>8
<1>8. RowsOf(registrations, c) = {} => BackOnly(next, 0)
  BY <1>4, <1>5, <1>6, BaredBackOnly DEF ChatOK
<1>9. ChatOK(registrations, next, c, f)
  BY <1>3, <1>7, <1>8 DEF ChatOK
<1> QED
  BY <1>1, <1>2, <1>3, <1>4, <1>9, ReadScreen

(* A new form is sent, *)
LEMMA ResumeFormScreen ==
  ASSUME Clean, NEW t \in Tasks, ResumeForm(t)
  PROVE  ScreenInv'
<1>1. PICK c, log, o, m, new, next, f :
        /\ c = frame[t].chat /\ log = messages[c] /\ m = Len(log) + 1
        /\ o = frame[t].obj
        /\ new = Form(o.row.answers, o.row.state)
        /\ next = Append(log, new)
        /\ f = [frame[t] EXCEPT !.pc = "resume.update",
                                !.obj = SetMessageId(o, m)]
  OBVIOUS
<1>2. /\ frame[t].pc = "resume.form" /\ frame[t].pc # "idle"
      /\ frame[t] \in Frame /\ FormInv /\ log \in Seq(Message)
      /\ o \in Object /\ o.row \in Row
  BY <1>1, CleanFacts, FormInvFacts, ObjectFields DEF ResumeForm, At
<1>3. new \in Message /\ new.kind \notin Asking
  BY <1>1, <1>2, RowFields, MessageTypes, MessageParts DEF Asking
<1>4. /\ f.pc = "resume.update" /\ f.chat = c
      /\ f.obj = SetMessageId(o, m)
  BY <1>1, <1>2 DEF Frame
<1>5. f.obj.row.message_id = m
  BY <1>2, <1>4 DEF SetMessageId, Object, Row
<1>6. Moves(t, registrations, next, f)
  <2>1. Fits(new)
    BY <1>1, <1>2, HeldFormFits
  <2>2. Api(t, Fits(new), next, f)
    BY <1>1 DEF ResumeForm, Send
  <2> QED
    BY <2>1, <2>2, CleanRequest
<1>7. Grown(log, new, next)
  BY <1>1, <1>2, <1>3, AppendGrows
<1>8. JustSent(next, f, new) /\ f.obj.row.message_id = Len(next)
  BY <1>1, <1>5, <1>7 DEF JustSent, Grown
<1>9. ChatOK(registrations, log, c, frame[t])
  BY <1>1, <1>2, CleanFacts
<1>10. ASSUME NEW i, RowsOf(registrations, c) = {i}
       PROVE  ScreenOK(registrations[i], next, f)
  <2>1. PICK row : row = registrations[i]
    OBVIOUS
  <2>2. o.row = row
    BY <1>1, <1>2, <1>10, <2>1, HeldRow
  <2>3. ScreenOK(row, log, frame[t])
    BY <1>9, <1>10, <2>1 DEF ChatOK
  <2>4. /\ AnsweredTo(row, row.state) /\ row.state # Completed
        /\ Asks(row, log) /\ BackOnly(log, 0)
    BY <1>2, <2>3 DEF ScreenOK, BackAt, Unasked, Unshown, Turning, FormAwaits
  <2>5. Asks(row, next) /\ BackOnly(next, Len(next))
    BY <1>3, <1>7, <2>4, StillAsked, NewBackOnly
  <2>6. JustSent(next, f, Form(row.answers, row.state))
    BY <1>1, <1>8, <2>2
  <2>7. BackAt(row, f) = Len(next)
    BY <1>4, <1>8 DEF BackAt
  <2>8. ScreenOK(row, next, f)
    BY <1>4, <2>4, <2>5, <2>6, <2>7
    DEF ScreenOK, Unasked, Unshown, Turning, FormAwaits
  <2> QED
    BY <2>1, <2>8
<1>11. RowsOf(registrations, c) # {}
  <2>1. o.id \in DOMAIN registrations /\ registrations[o.id].chat_id = c
    BY <1>1, <1>2, FormInvFacts DEF ObjectOK, Holding
  <2> QED
    BY <2>1 DEF RowsOf
<1>12. ChatOK(registrations, next, c, f)
  BY <1>4, <1>10, <1>11 DEF ChatOK
<1> QED
  BY <1>1, <1>2, <1>4, <1>6, <1>12, ReadScreen

(* is made that of the row, *)
LEMMA ResumeUpdateScreen ==
  ASSUME Clean, NEW t \in Tasks, ResumeUpdate(t)
  PROVE  ScreenInv'
<1>1. PICK c, log, o, row, to, f :
        /\ c = frame[t].chat /\ log = messages[c]
        /\ o = frame[t].obj /\ row = registrations[o.id] /\ to = o.row
        /\ f = [frame[t] EXCEPT !.pc = "resume.prompt"]
  OBVIOUS
<1>2. frame[t].pc = "resume.update" /\ Update(t, f)
  BY <1>1 DEF ResumeUpdate, At
<1>3. frame[t].pc \in Writing
  BY <1>2 DEF Writing
<1>4. to.answers = row.answers /\ to.state = row.state
  <2>1. Change(frame[t], o, row)
    BY <1>1, <1>3, CleanFacts, FreshWriting
  <2> QED
    BY <1>1, <1>2, <2>1 DEF Change
<1>5. f.pc = "resume.prompt" /\ f.chat = c
  <2>1. frame[t] \in Frame
    BY CleanFacts
  <2> QED
    BY <1>1, <2>1 DEF Frame
<1>6. ASSUME ScreenOK(row, log, frame[t]) PROVE ScreenOK(to, log, f)
  <2>1. /\ AnsweredTo(row, row.state) /\ row.state # Completed
        /\ BackOnly(log, to.message_id)
        /\ JustSent(log, frame[t], Form(row.answers, row.state))
    BY <1>1, <1>2, <1>6 DEF ScreenOK, BackAt, Turning
  <2>2. AnsweredTo(to, to.state) /\ to.state # Completed
    BY <1>4, <2>1 DEF AnsweredTo
  <2>3. Shows(to, log)
    BY <1>1, <1>4, <2>1 DEF Shows, JustSent
  <2> QED
    BY <1>5, <2>1, <2>2, <2>3
    DEF ScreenOK, BackAt, Unasked, Unshown, Turning, FormAwaits
<1>7. /\ f.pc = "idle" \/ f.chat = c
      /\ f.pc \notin {"form.update", "back.outdated"}
      /\ f.pc = "form.edit" => frame[t].pc = "form.update"
  BY <1>5
<1>8. /\ c = frame[t].chat /\ log = messages[c]
      /\ o = frame[t].obj /\ row = registrations[o.id] /\ to = o.row
      /\ ScreenOK(row, log, frame[t]) => ScreenOK(to, log, f)
  BY <1>1, <1>6
<1> QED
  BY <1>2, <1>3, <1>7, <1>8, WriteScreen

(* and the question is asked again; or the thanks, of a completed one. *)
LEMMA ResumeScreen ==
  ASSUME Clean, NEW t \in Tasks, ResumeRegistration(t)
  PROVE  ScreenInv'
<1>1. PICK c, log : c = frame[t].chat /\ log = messages[c]
  OBVIOUS
<1>2. ASSUME frame[t].pc # "idle", NEW i, RowsOf(registrations, c) = {i}
      PROVE  ScreenOK(registrations[i], log, frame[t])
  BY <1>1, <1>2, CleanFacts DEF ChatOK
<1>3. CASE ResumeThanks(t)
  <2>1. frame[t].pc = "resume.thanks" /\ Send(t, ThankYou, NoFrame)
    BY <1>3 DEF ResumeThanks, At
  <2>2. /\ ThankYou \in Message /\ ThankYou.keyboard # "form_back"
        /\ ThankYou.kind # "form"
    BY MessageTypes, MessageParts
  <2>3. ASSUME NEW i, RowsOf(registrations, frame[t].chat) = {i}
        PROVE  /\ ThankYou = Question(registrations[i].state)
               /\ BackAt(registrations[i], frame[t])
                    = registrations[i].message_id
    <3>1. ScreenOK(registrations[i], log, frame[t])
      BY <1>1, <1>2, <2>1, <2>3
    <3> QED
      BY <2>1, <3>1 DEF ScreenOK, BackAt, Question
  <2>4. frame[t].pc \notin Unshown
    BY <2>1 DEF Unshown, Turning
  <2> QED
    BY <2>1, <2>2, <2>3, <2>4, AskScreen
<1>4. CASE ResumePrompt(t)
  <2>1. PICK new : new = Prompt(frame[t].obj.row.state)
    OBVIOUS
  <2>2. frame[t].pc = "resume.prompt" /\ Send(t, new, NoFrame)
    BY <1>4, <2>1 DEF ResumePrompt, At
  <2>3. /\ new \in Message /\ new.keyboard # "form_back"
        /\ new.kind # "form"
    <3>1. FormInv
      BY CleanFacts
    <3>2. frame[t].obj.row.state \in States
      BY <3>1, FormInvFacts, ObjectFields, RowFields
    <3> QED
      BY <2>1, <3>2, MessageTypes, MessageParts
  <2>4. ASSUME NEW i, RowsOf(registrations, frame[t].chat) = {i}
        PROVE  /\ new = Question(registrations[i].state)
               /\ BackAt(registrations[i], frame[t])
                    = registrations[i].message_id
    <3>1. ScreenOK(registrations[i], log, frame[t])
      BY <1>1, <1>2, <2>2, <2>4
    <3>2. frame[t].obj.row = registrations[i]
      BY <2>2, <2>4, CleanFacts, HeldRow
    <3> QED
      BY <2>1, <2>2, <3>1, <3>2 DEF ScreenOK, BackAt, Question
  <2>5. frame[t].pc \notin Unshown
    BY <2>2 DEF Unshown, Turning
  <2> QED
    BY <2>2, <2>3, <2>4, <2>5, AskScreen
<1> QED
  BY <1>3, <1>4, ResumeClearScreen, ResumeFormScreen, ResumeUpdateScreen
  DEF ResumeRegistration

-----------------------------------------------------------------------------
(* Until the first failure the chats agree with the database. *)

(* The frames that updates start in. *)
LEMMA HandlerFrames ==
  ASSUME NEW c, NEW pc, NEW x, NEW m
  PROVE  /\ Handler(pc, c).pc = pc /\ Handler(pc, c).chat = c
         /\ [Handler(pc, c) EXCEPT !.text = x].pc = pc
         /\ [Handler(pc, c) EXCEPT !.text = x].chat = c
         /\ [Handler(pc, c) EXCEPT !.click = m].pc = pc
         /\ [Handler(pc, c) EXCEPT !.click = m].chat = c
         /\ [Handler(pc, c) EXCEPT !.click = m].click = m
BY NoFrameOK DEF Handler, Frame

(* A press of the back button is a press on the form: no other message has *)
(* the button.                                                             *)
LEMMA DeliveredFrame ==
  ASSUME Clean, NEW t \in Tasks, NewUpdate(t)
  PROVE  \E c \in Chats : \E f :
           /\ Deliver(t, c, f) /\ f.chat = c
           /\ \/ f.pc \in Steady
              \/ /\ f.pc = "back.find" /\ f.click \in DOMAIN messages[c]
                 /\ messages[c][f.click].keyboard = "form_back"
<1>1. PICK c \in Chats :
        \/ OnStart(t, c)
        \/ \E x \in Texts : OnMessage(t, c, x)
        \/ \E m \in DOMAIN messages[c] : OnCallbackQuery(t, c, m)
  BY DEF NewUpdate
<1>2. {"start.find", "message.find", "check.member", "want.answer"}
        \subseteq Steady
  BY DEF Steady, Awaits, StartAwaits, CheckAwaits, WantAwaits,
         MessageAwaits, Unasked, Unshown, Turning, FormAwaits
<1>3. CASE OnStart(t, c)
  <2>1. PICK f : f = Handler("start.find", c)
    OBVIOUS
  <2>2. f.pc \in Steady /\ f.chat = c
    BY <1>2, <2>1, HandlerFrames
  <2> QED
    BY <1>3, <2>1, <2>2 DEF OnStart
<1>4. CASE \E x \in Texts : OnMessage(t, c, x)
  <2>1. PICK x, f : /\ f = [Handler("message.find", c) EXCEPT !.text = x]
                    /\ Deliver(t, c, f)
    BY <1>4 DEF OnMessage
  <2>2. f.pc \in Steady /\ f.chat = c
    BY <1>2, <2>1, HandlerFrames
  <2> QED
    BY <2>1, <2>2
<1>5. CASE \E m \in DOMAIN messages[c] : OnCallbackQuery(t, c, m)
  <2>1. PICK m \in DOMAIN messages[c] : OnCallbackQuery(t, c, m)
    BY <1>5
  <2>2. PICK button, f :
          /\ button = messages[c][m].keyboard /\ button # "none"
          /\ f = [Handler(FirstAwait[button], c) EXCEPT !.click = m]
          /\ Deliver(t, c, f)
    BY <2>1 DEF OnCallbackQuery
  <2>3. button \in Keyboards
    <3>1. messages[c] \in Seq(Message)
      BY CleanFacts
    <3>2. messages[c][m] \in Message
      BY <2>1, <3>1
    <3> QED
      BY <2>2, <3>2 DEF Message
  <2>4. f.pc = FirstAwait[button] /\ f.chat = c /\ f.click = m
    BY <2>2, HandlerFrames
  <2>5. \/ f.pc \in {"check.member", "want.answer"}
        \/ f.pc = "back.find" /\ button = "form_back"
    <3>1. /\ FirstAwait["check_subscription"] = "check.member"
          /\ FirstAwait["want_participate"] = "want.answer"
          /\ FirstAwait["form_back"] = "back.find"
      BY DEF FirstAwait
    <3>2. button \in {"check_subscription", "want_participate", "form_back"}
      BY <2>2, <2>3 DEF Keyboards
    <3> QED
      BY <2>4, <3>1, <3>2
  <2> QED
    BY <1>2, <2>2, <2>4, <2>5
<1> QED
  BY <1>1, <1>3, <1>4, <1>5

(* A patient user's update finds the chat in agreement. *)
LEMMA DeliverScreen ==
  ASSUME Patient, Clean, NEW t \in Tasks, NewUpdate(t)
  PROVE  ScreenInv'
<1> PICK c \in Chats : \E f :
        /\ Deliver(t, c, f) /\ f.chat = c
        /\ \/ f.pc \in Steady
           \/ /\ f.pc = "back.find" /\ f.click \in DOMAIN messages[c]
              /\ messages[c][f.click].keyboard = "form_back"
  BY DeliveredFrame
<1>1. PICK f :
        /\ Deliver(t, c, f) /\ f.chat = c
        /\ \/ f.pc \in Steady
           \/ /\ f.pc = "back.find" /\ f.click \in DOMAIN messages[c]
              /\ messages[c][f.click].keyboard = "form_back"
  OBVIOUS
<1>2. PICK log : log = messages[c]
  OBVIOUS
<1>3. /\ frame[t].pc = "idle" /\ Active(c) = {}
      /\ frame' = [frame EXCEPT ![t] = f]
      /\ UNCHANGED <<registrations, messages, up>>
  BY <1>1 DEF Deliver, Spawn, Resume, At
<1>4. ChatRests(registrations, log, c)
  BY <1>2, <1>3 DEF Clean, ScreenInv
<1>5. messages' = [messages EXCEPT ![c] = log]
  BY <1>2, <1>3, CleanFacts
<1>6. Alone(t, c)
  BY <1>3 DEF Alone, Active
<1>7. Inside(registrations, c)
  BY DEF Inside, Untouched
<1>8. ChatOK(registrations, log, c, f)
  <2>1. CASE f.pc \in Steady
    BY <1>4, <2>1, SteadyRests
  <2>2. CASE f.pc = "back.find" /\ f.pc \notin Steady
    <3>1. ASSUME NEW i, RowsOf(registrations, c) = {i}
          PROVE  f.click = registrations[i].message_id
      BY <1>1, <1>2, <1>4, <2>2, <3>1 DEF ChatRests, Base, BackOnly
    <3> QED
      BY <1>4, <2>2, <3>1, FindRests
  <2> QED
    BY <1>1, <2>1, <2>2
<1> QED
  BY <1>1, <1>3, <1>5, <1>6, <1>7, <1>8, GoesOn

(* Failures are counted, one at a time. *)
LEMMA FaultsStep ==
  [Next]_allVars => faults' \in {faults, faults + 1}
<1>1. \A t, accepted, log, f :
        Api(t, accepted, log, f) => faults' \in {faults, faults + 1}
  BY DEF Api, Fault
<1>2. \A t, table, f :
        Statement(t, table, f) => faults' \in {faults, faults + 1}
  BY DEF Statement, Fault
<1>3. \A t, c, f : Deliver(t, c, f) => faults' = faults
  BY DEF Deliver, Spawn
<1>4. ASSUME NEW t \in Tasks, NewUpdate(t) PROVE faults' = faults
  BY <1>3, <1>4 DEF NewUpdate, OnStart, OnMessage, OnCallbackQuery
<1>5. ASSUME NEW t \in Tasks PROVE
        /\ ReplyStartCommand(t) => faults' \in {faults, faults + 1}
        /\ ResumeRegistration(t) => faults' \in {faults, faults + 1}
  BY <1>1, <1>2
  DEF ReplyStartCommand, StartFind, StartWelcome, FindByChatId, Send,
      ResumeRegistration, ResumeThanks, ResumeClear, ResumeForm,
      ResumeUpdate, ResumePrompt, Update, Fault
<1>6. ASSUME NEW t \in Tasks PROVE
        /\ CheckSubscription(t) => faults' \in {faults, faults + 1}
        /\ AnswerWantParticipateQuery(t)
             => faults' \in {faults, faults + 1}
  BY <1>1, <1>2
  DEF CheckSubscription, CheckMember, CheckDeny, CheckClear, CheckAnswer,
      CheckConfirm, AnswerWantParticipateQuery, WantAnswer, WantClear,
      WantContest, WantSave, WantPrompt, WantUpdate, Request, Clear, Send,
      Update, Fault
<1>7. ASSUME NEW t \in Tasks PROVE
        /\ ProcessMessage(t) => faults' \in {faults, faults + 1}
        /\ ReplyBackQuery(t) => faults' \in {faults, faults + 1}
        /\ ShowFormPrompt(t) => faults' \in {faults, faults + 1}
  BY <1>1, <1>2
  DEF ProcessMessage, MessageFind, SaveFind, SaveUpdate, SaveThanks,
      ReplyBackQuery, BackFind, BackRefuse, BackAnswer, BackUpdate,
      ShowFormPrompt, FormFind, FormUpdate, FormEdit, FormPrompt,
      FindByChatId, Request, Edit, Send, Update
<1>8. Crash \/ Restart => faults' \in {faults, faults + 1}
  BY DEF Crash, Restart, Fault
<1> QED
  BY <1>4, <1>5, <1>6, <1>7, <1>8 DEF Next, Step, allVars

(* A new bot has sent nothing. *)
LEMMA CleanInvInit == BotInit => CleanInv
<1> SUFFICES ASSUME BotInit PROVE ScreenInv
  BY DEF CleanInv
<1>1. /\ registrations = <<>> /\ up
      /\ \A c \in Chats : messages[c] = <<>>
      /\ \A t \in Tasks : frame[t] = NoFrame
  BY DEF BotInit, Init
<1>2. NoFrame.pc = "idle"
  BY DEF NoFrame
<1>3. \A c : RowsOf(registrations, c) = {}
  BY <1>1 DEF RowsOf
<1>4. \A c \in Chats : BackOnly(messages[c], 0)
  BY <1>1 DEF BackOnly
<1> QED
  BY <1>1, <1>2, <1>3, <1>4 DEF ScreenInv, ChatRests

(* A step before the first failure keeps the agreement, if the forms fit. *)
LEMMA CleanInvStep ==
  Patient /\ Placeholder \notin Texts /\ FormsFit /\ FormInv /\ BInv
      /\ CleanInv /\ [Next]_allVars
    => CleanInv'
<1> SUFFICES ASSUME Patient, Placeholder \notin Texts, FormsFit, FormInv,
                    BInv, CleanInv, [Next]_allVars, faults' = 0
             PROVE  ScreenInv'
  BY DEF CleanInv
<1>1. faults = 0
  <2>1. faults \in Nat
    BY FaultAssumption DEF BInv, IInv, BotTypeOK, TypeOK
  <2> QED
    BY <2>1, FaultsStep
<1>2. Clean
  BY <1>1 DEF Clean, CleanInv
<1>3. ASSUME NEW t \in Tasks, Step(t) PROVE ScreenInv'
  BY <1>2, <1>3, StartScreen, ResumeScreen, CheckScreen, WantScreen,
     MessageScreen, BackScreen, FormFindScreen, FormUpdateScreen,
     FormEditScreen, FormPromptScreen DEF Step, ShowFormPrompt
<1>4. ASSUME NEW t \in Tasks, NewUpdate(t) PROVE ScreenInv'
  BY <1>2, <1>4, DeliverScreen
<1>5. ~Crash /\ ~Restart
  BY <1>1, <1>2 DEF Crash, Restart, Fault, Clean, ScreenInv
<1>6. ASSUME UNCHANGED allVars PROVE ScreenInv'
  <2>1. ScreenInv
    BY <1>2 DEF Clean
  <2> QED
    BY <1>6, <2>1 DEF allVars, ScreenInv, Active
<1> QED
  BY <1>3, <1>4, <1>5, <1>6 DEF Next

(* Before the first failure, and as long as no form is too long, what the  *)
(* handlers of a patient user send and edit agrees with the row they       *)
(* write, at every await: Telegram refuses no message and no edit of a     *)
(* form, and the back button is under the form only.                       *)
THEOREM ScreensAgree ==
  Patient /\ Placeholder \notin Texts
    => (Spec /\ []FormsFit => []CleanInv)
<1> SUFFICES ASSUME Patient, Placeholder \notin Texts
             PROVE  Spec /\ []FormsFit => []CleanInv
  OBVIOUS
<1>1. FormsFit /\ FormInv /\ BInv /\ CleanInv /\ [Next]_allVars => CleanInv'
  BY CleanInvStep
<1>2. Spec => []FormInv
  BY PatientSnapshotsAreFresh
<1> QED
  BY <1>1, <1>2, CleanInvInit, PressesAreCounted, PTL DEF Spec

(* showFormPrompt lets the exception of an edit that Telegram refuses out  *)
(* of the handler, which ends the process.  Without failures that never    *)
(* happens before a form is too long.                                      *)
THEOREM BotStaysUp ==
  Patient /\ Placeholder \notin Texts
    => (Spec /\ [](faults = 0) => UpWhileFormsFit)
<1> SUFFICES ASSUME Patient, Placeholder \notin Texts
             PROVE  Spec /\ [](faults = 0) => UpWhileFormsFit
  OBVIOUS
<1>1. Spec /\ []FormsFit => []CleanInv
  BY ScreensAgree
<1>2. CleanInv /\ faults = 0 => up
  BY DEF CleanInv, ScreenInv
<1> QED
  BY <1>1, <1>2, PTL DEF UpWhileFormsFit

(* replyBackQuery never finds a form outdated as long as nothing has       *)
(* failed and no form has been too long, so the text that points to "the   *)
(* current one below" is not sent where there is none.                     *)
THEOREM NoFormIsOutdated ==
  Patient /\ Placeholder \notin Texts
    => (Spec /\ []FormsFit => [](faults = 0 => NoneOutdated))
<1> SUFFICES ASSUME Patient, Placeholder \notin Texts
             PROVE  Spec /\ []FormsFit => [](faults = 0 => NoneOutdated)
  OBVIOUS
<1>1. Spec /\ []FormsFit => []CleanInv
  BY ScreensAgree
<1>2. CleanInv => (faults = 0 => NoneOutdated)
  <2> SUFFICES ASSUME ScreenInv, NEW t \in Tasks, At(t, "back.outdated")
               PROVE  FALSE
    BY DEF CleanInv, NoneOutdated
  <2>1. PICK c, log : c = frame[t].chat /\ log = messages[c]
    OBVIOUS
  <2>2. ChatOK(registrations, log, c, frame[t])
    BY <2>1 DEF At, ScreenInv
  <2> QED
    BY <2>2 DEF At, ChatOK, ScreenOK
<1> QED
  BY <1>1, <1>2, PTL

(* Between updates the chat of a patient user asks the question that the   *)
(* row waits for, shows its answers and offers one way back, as long as    *)
(* nothing has failed and no form has been too long.                       *)
THEOREM ScreensMatchRows ==
  Patient /\ Placeholder \notin Texts
    => (Spec /\ []FormsFit => [](faults = 0 => ScreenMatchesRow))
<1> SUFFICES ASSUME Patient, Placeholder \notin Texts
             PROVE  Spec /\ []FormsFit => [](faults = 0 => ScreenMatchesRow)
  OBVIOUS
<1>1. Spec /\ []FormsFit => []CleanInv
  BY ScreensAgree
<1>2. IInv /\ CleanInv => (faults = 0 => ScreenMatchesRow)
  <2> SUFFICES ASSUME IInv, ScreenInv, NEW c \in Chats, Settled(c)
               PROVE  /\ AsksCurrent(c)
                      /\ ShowsAnswers(c)
                      /\ \A m \in DOMAIN messages[c]
                                    \ {RowOf(c).message_id} :
                           messages[c][m].keyboard # "form_back"
    BY DEF CleanInv, ScreenMatchesRow
  <2>1. PICK i, row, log :
          /\ i = TheRow(registrations, c) /\ row = registrations[i]
          /\ log = messages[c]
    OBVIOUS
  <2>2. Active(c) = {} /\ Found(registrations, c)
    BY DEF Settled
  <2>3. RowsOf(registrations, c) = {i}
    <3>1. registrations \in Seq(Row)
      BY IInvFacts
    <3> QED
      BY <2>1, <2>2, <3>1, FoundRow DEF RowsOf
  <2>4. Base(row, log)
    BY <2>1, <2>2, <2>3 DEF ScreenInv, ChatRests
  <2>5. RowOf(c) = row
    BY <2>1 DEF RowOf
  <2>6. AsksCurrent(c)
    <3>1. PICK q \in DOMAIN log :
            /\ \A m \in DOMAIN log : log[m].kind \in Asking => m <= q
            /\ log[q] = Question(row.state)
      BY <2>4 DEF Base, Asks
    <3>2. Questions(c) = {m \in DOMAIN log : log[m].kind \in Asking}
      BY <2>1 DEF Questions, Asking
    <3>3. q \in Questions(c) /\ \A m \in Questions(c) : m <= q
      BY <3>1, <3>2, MessageParts
    <3> QED
      BY <2>1, <2>5, <3>1, <3>3 DEF AsksCurrent, Question
  <2>7. ShowsAnswers(c)
    BY <2>1, <2>4, <2>5 DEF Base, Shows, ShowsAnswers
  <2>8. \A m \in DOMAIN messages[c] \ {RowOf(c).message_id} :
          messages[c][m].keyboard # "form_back"
    BY <2>1, <2>4, <2>5 DEF Base, BackOnly
  <2> QED
    BY <2>6, <2>7, <2>8
<1> QED
  BY <1>1, <1>2, Invariance, PTL

(* How long answers may be for the forms to fit: a quarter of the limit    *)
(* each.  The four of a form are then never too long together, whatever    *)
(* the users do and whatever fails.                                        *)
THEOREM ShortAnswersFit ==
  (\A x \in Texts : 4 * Size[x] <= MaxSize) => (Spec => []FormsFit)
<1> SUFFICES ASSUME \A x \in Texts : 4 * Size[x] <= MaxSize
             PROVE  Spec => []FormsFit
  OBVIOUS
<1>1. IInv => FormsFit
  <2> SUFFICES ASSUME IInv, NEW i \in DOMAIN registrations
               PROVE  FormFits(registrations[i])
    BY DEF FormsFit
  <2>1. PICK a, text : a = registrations[i].answers /\ text = FormText(a)
    OBVIOUS
  <2>2. a \in [Fields -> Texts \cup {NoText}]
    <3>1. registrations[i] \in Row
      BY IInvFacts
    <3> QED
      BY <2>1, <3>1, RowFields DEF Answers
  <2>3. \A F \in Fields : text[F] \in Texts \cup {Placeholder}
    BY <2>1, <2>2 DEF FormText
  <2>4. \A F \in Fields : /\ Size[text[F]] \in Nat
                          /\ 4 * Size[text[F]] <= MaxSize
    BY <2>3, SizeAssumption
  <2>5. FormSize(text) <= MaxSize
    BY <2>4, SizeAssumption DEF FormSize, Fields
  <2>6. Form(a, registrations[i].state).answers = text
    BY <2>1, MessageParts
  <2> QED
    BY <2>1, <2>5, <2>6 DEF FormFits, Fits
<1> QED
  BY <1>1, Invariance, PTL

=============================================================================
