--------------------------- MODULE Registrations ---------------------------
(***************************************************************************)
(* The table "registrations" and the generated model class that reads and  *)
(* writes it.  The table is a sequence: rows are only ever inserted, so    *)
(* the INTEGER PRIMARY KEY of a row is its position.                       *)
(*                                                                         *)
(* A model object is a snapshot of a row together with the columns that    *)
(* were set since it was read (dirtyFlag_).  UPDATE writes those columns   *)
(* only, whatever else has changed in the table since the snapshot.        *)
(*                                                                         *)
(* telegram_nickname, written at insertion and never looked at by the      *)
(* workflows, is left out.                                                 *)
(***************************************************************************)
EXTENDS RegistrationState, Sequences, FiniteSets

CONSTANTS
  Chats,   \* the Telegram chats
  Texts,   \* the non-empty texts a user may send
  NoText   \* the empty string, default of every answer column

ASSUME ChatAssumption == Chats # {}
ASSUME TextAssumption == NoText \notin Texts

Answers == [Fields -> Texts \cup {NoText}]

Blank == [f \in Fields |-> NoText]

(* One row.  message_id is 0 until the form has a message. *)
Row == [chat_id : Chats, state : States, message_id : Nat, answers : Answers]

Columns == {"state", "message_id"} \cup Fields

Object == [id : Nat, row : Row, dirty : SUBSET Columns]

-----------------------------------------------------------------------------
(* Setters: the value and its dirty flag. *)

SetState(o, s) ==
  [o EXCEPT !.row.state = s, !.dirty = @ \cup {"state"}]

(* Seeded slip: the flag is forgotten, so UPDATE leaves the column alone. *)
SetMessageIdUnmarked(o, m) == [o EXCEPT !.row.message_id = m]

SetMessageId(o, m) ==
  [o EXCEPT !.row.message_id = m, !.dirty = @ \cup {"message_id"}]

SetAnswer(o, f, x) ==
  [o EXCEPT !.row.answers[f] = x, !.dirty = @ \cup {f}]

-----------------------------------------------------------------------------
(* Object built from row i of a query result: no column is dirty. *)
Snapshot(table, i) == [id |-> i, row |-> table[i], dirty |-> {}]

RowsOf(table, c) == {i \in DOMAIN table : table[i].chat_id = c}

(* findOne: a result of zero rows and one of several rows both end in      *)
(* UnexpectedRows, which findByChatId turns into "no row".                 *)
Found(table, c) == Cardinality(RowsOf(table, c)) = 1

TheRow(table, c) == CHOOSE i \in DOMAIN table : table[i].chat_id = c

(* INSERT of a new object with chat_id and state set: the defaults of the  *)
(* schema for every other column.                                          *)
Inserted(table, c) ==
  Append(table, [chat_id |-> c, state |-> WaitingName, message_id |-> 0,
                 answers |-> Blank])

(* Seeded slip: UPDATE writes every column of the object. *)
UpdateEveryColumn(o) == Columns

(* Seeded slip: the dirty flag of "phrase" is forgotten. *)
UpdateAllButPhrase(o) == o.dirty \ {"phrase"}

(* Seeded slip: the dirty flag of "state" is forgotten. *)
UpdateAllButState(o) == o.dirty \ {"state"}

UpdateColumns(o) == o.dirty

(* UPDATE registrations SET <dirty columns> WHERE id = o.id *)
Updated(table, o) ==
  [table EXCEPT ![o.id] =
     [chat_id    |-> @.chat_id,
      state      |-> IF "state" \in UpdateColumns(o)
                       THEN o.row.state ELSE @.state,
      message_id |-> IF "message_id" \in UpdateColumns(o)
                       THEN o.row.message_id ELSE @.message_id,
      answers    |-> [f \in Fields |-> IF f \in UpdateColumns(o)
                                         THEN o.row.answers[f]
                                         ELSE @.answers[f]]]]

=============================================================================
