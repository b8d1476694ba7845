-------------------------- MODULE ExportController --------------------------
(***************************************************************************)
(* GET /export: the table as CSV, while the workflows go on writing it.    *)
(* Here a text is a sequence of characters, since what is at stake is that *)
(* a reader of the file gets the answers back.                             *)
(***************************************************************************)
EXTENDS Registrations

CONSTANTS
  Clients,     \* requests to /export
  Nicknames,   \* telegram_nickname of the rows of each chat
  MaxRows,     \* bound: registrations
  MaxWrites,   \* bound: answers written
  MaxFaults    \* bound: failed statements

ASSUME ExportAssumption ==
  /\ NoText = <<>>
  /\ Texts \subseteq Seq(STRING)
  /\ DOMAIN Nicknames = Chats
  /\ \A c \in Chats : Nicknames[c] \in Seq(STRING)
  /\ {MaxRows, MaxWrites, MaxFaults} \subseteq Nat

VARIABLES
  registrations,  \* the table
  stage,          \* where the coroutine of each request is
  response,       \* status and body of each response
  fetched,        \* history: the rows each response was made of
  up,             \* does the process run?
  writes,         \* answers written so far
  faults          \* failed statements so far

vars == <<registrations, stage, response, fetched, up, writes, faults>>

NoResponse == [status |-> 0, body |-> <<>>]

-----------------------------------------------------------------------------
(* Formatting. *)

Quote == "\""

Header == <<"Name", ",", "Company", ",", "Company Position", ",", "Phrase",
            ",", "Telegram Nickname", "\n">>

Erased == {"\n", "\t", "\r"}

(* std::erase_if *)
Kept(text) ==
  LET kept[n \in 0..Len(text)] ==
        IF n = 0 THEN <<>>
        ELSE IF text[n] \in Erased THEN kept[n - 1]
        ELSE Append(kept[n - 1], text[n])
  IN  kept[Len(text)]

Sanitized(text) ==
  LET kept == Kept(text)
  IN  [i \in DOMAIN kept |-> IF kept[i] = Quote THEN "'" ELSE kept[i]]

(* Seeded slip: quotes stay as they are. *)
EscapeKeepingQuotes(text) == <<Quote>> \o Kept(text) \o <<Quote>>

EscapeCsv(text) == <<Quote>> \o Sanitized(text) \o <<Quote>>

FieldsOf(row) ==
  <<row.answers["name"], row.answers["company"],
    row.answers["company_position"], row.answers["phrase"],
    Nicknames[row.chat_id]>>

(* csv with one more line: the escaped fields with commas between them. *)
WithLine(csv, row) ==
  LET escaped(i) == EscapeCsv(FieldsOf(row)[i])
  IN  csv \o escaped(1) \o <<",">> \o escaped(2) \o <<",">>
          \o escaped(3) \o <<",">> \o escaped(4) \o <<",">>
          \o escaped(5) \o <<"\n">>

GenerateCsv(rows) ==
  LET csv[n \in 0..Len(rows)] ==
        IF n = 0 THEN Header ELSE WithLine(csv[n - 1], rows[n])
  IN  csv[Len(rows)]

-----------------------------------------------------------------------------
(* Requests. *)

(* Seeded slip: the callback is not called when the token is wrong. *)
RequestWithoutReply(r) ==
  /\ up
  /\ stage[r] = "none"
  /\ \E next \in {"answered", "findAll"} :
       stage' = [stage EXCEPT ![r] = next]
  /\ UNCHANGED <<registrations, response, fetched, up, writes, faults>>

(* exportCsv: 403 for a wrong token, otherwise on to the table. *)
Request(r) ==
  /\ up
  /\ stage[r] = "none"
  /\ \/ /\ stage' = [stage EXCEPT ![r] = "answered"]
        /\ response' = [response EXCEPT ![r].status = 403]
     \/ /\ stage' = [stage EXCEPT ![r] = "findAll"]
        /\ UNCHANGED response
  /\ UNCHANGED <<registrations, fetched, up, writes, faults>>

Respond(r, rows) ==
  /\ stage' = [stage EXCEPT ![r] = "answered"]
  /\ response' = [response EXCEPT
       ![r] = [status |-> 200, body |-> GenerateCsv(rows)]]
  /\ fetched' = [fetched EXCEPT ![r] = rows]
  /\ UNCHANGED <<registrations, up, writes>>

(* generateCsv: the rows; the header alone after an SqlError; any other    *)
(* exception leaves exportCsv and terminates the process.                  *)
FindAll(r) ==
  /\ up
  /\ stage[r] = "findAll"
  /\ \/ Respond(r, registrations) /\ UNCHANGED faults
     \/ /\ faults < MaxFaults
        /\ faults' = faults + 1
        /\ \/ Respond(r, <<>>)
           \/ /\ up' = FALSE
              /\ UNCHANGED <<registrations, stage, response, fetched, writes>>

(* The workflows: a new registration, an answer to one. *)
Save(c) ==
  /\ up
  /\ Len(registrations) < MaxRows
  /\ registrations' = Inserted(registrations, c)
  /\ UNCHANGED <<stage, response, fetched, up, writes, faults>>

Update(i, f, x) ==
  /\ up
  /\ writes < MaxWrites
  /\ writes' = writes + 1
  /\ registrations' =
       Updated(registrations, SetAnswer(Snapshot(registrations, i), f, x))
  /\ UNCHANGED <<stage, response, fetched, up, faults>>

Init ==
  /\ registrations = <<>>
  /\ stage = [r \in Clients |-> "none"]
  /\ response = [r \in Clients |-> NoResponse]
  /\ fetched = [r \in Clients |-> <<>>]
  /\ up = TRUE
  /\ writes = 0
  /\ faults = 0

Next ==
  \/ \E r \in Clients : Request(r) \/ FindAll(r)
  \/ \E c \in Chats : Save(c)
  \/ \E i \in DOMAIN registrations, f \in Fields, x \in Texts : Update(i, f, x)

Spec == Init /\ [][Next]_vars

-----------------------------------------------------------------------------
(* A reader of CSV files (RFC 4180): fields may be in quotes, in which a   *)
(* doubled quote stands for one.                                           *)

Reader == [records |-> <<>>, record |-> <<>>, field |-> <<>>,
           in |-> "plain", wellformed |-> TRUE]

Take(s, c) == [s EXCEPT !.field = Append(@, c)]

EndField(s) ==
  [s EXCEPT !.record = Append(@, s.field), !.field = <<>>, !.in = "plain"]

EndRecord(s) ==
  LET t == EndField(s)
  IN  [t EXCEPT !.records = Append(@, t.record), !.record = <<>>]

ReadChar(s, c) ==
  CASE s.in = "quotes" /\ c # Quote -> Take(s, c)
    [] s.in = "quotes" /\ c = Quote -> [s EXCEPT !.in = "closing"]
    [] s.in = "closing" /\ c = Quote -> [Take(s, c) EXCEPT !.in = "quotes"]
    [] s.in # "quotes" /\ c = "," -> EndField(s)
    [] s.in # "quotes" /\ c = "\n" -> EndRecord(s)
    [] s.in = "plain" /\ c = Quote /\ s.field = <<>> ->
         [s EXCEPT !.in = "quotes"]
    [] s.in = "plain" /\ c # Quote /\ c \notin {",", "\n"} -> Take(s, c)
    [] OTHER -> [s EXCEPT !.wellformed = FALSE]

Read(csv) ==
  LET read[n \in 0..Len(csv)] ==
        IF n = 0 THEN Reader ELSE ReadChar(read[n - 1], csv[n])
  IN  read[Len(csv)]

(* What a reader of the file should find. *)
Records(rows) ==
  <<[i \in 1..5 |-> <<Header[2 * i - 1]>>]>>
    \o [n \in DOMAIN rows |->
          [i \in 1..5 |-> Sanitized(FieldsOf(rows[n])[i])]]

(* After csv the reader stands behind the line of the last of these rows. *)
ReadsBackAs(csv, rows) ==
  LET s == Read(csv)
  IN  /\ s.wellformed /\ s.in = "plain" /\ s.record = <<>> /\ s.field = <<>>
      /\ s.records = Records(rows)

(* The file reads back as the rows it was made of, one record for each,    *)
(* whatever characters the answers contain: commas, quotes and line breaks *)
(* in them neither move a field nor start a record.  After an SqlError     *)
(* these are no rows.                                                      *)
ExportReadsBack ==
  \A r \in Clients : response[r].status = 200 =>
    ReadsBackAs(response[r].body, fetched[r])

(* Types; a request that is over has got its response, whatever failed. *)
ExportTypeOK ==
  /\ registrations \in Seq(Row)
  /\ stage \in [Clients -> {"none", "findAll", "answered"}]
  /\ \A r \in Clients :
       response[r].status \in IF stage[r] = "answered" THEN {200, 403} ELSE {0}
  /\ up \in BOOLEAN
  /\ writes \in 0..MaxWrites
  /\ faults \in 0..MaxFaults

=============================================================================
