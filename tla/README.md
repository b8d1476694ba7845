# A TLA+ development of ConferenceBot

ConferenceBot is a Telegram bot (C++20, drogon coroutines, tgbot-cpp, SQLite).
A visitor sends /start, shows that he follows a channel, presses "want to
participate" and fills in a form of four answers: name, company, position,
phrase. The form can be stepped back until it is complete. The organisers
download the table as CSV.

The repository has no tests and no documentation besides comments, log messages
and the texts shown to users. The reference is the code.

## 1. The system

| Part | State | Operations | Talks to |
|---|---|---|---|
| Webhook endpoint (`main.cpp`) | none | acknowledge, then parse and hand the update to the handlers in a coroutine of its own | Telegram, controller |
| `main` | the objects that everything else refers to | start the listeners and the thread that registers the webhook; return after a signal | all |
| `ConferenceBotController`, `CallbackQueryRouter`, `CommandRegistry` | route tables, fixed at start-up | choose the handler of an update and start it with `async_run` | the workflows |
| `StartWorkflow` | none | resume a registration, or send the welcome | repository, Bot API |
| `CheckSubscriptionWorkflow` | none | ask for the membership, offer the registration | Bot API |
| `RegistrationWorkflow` | locals of its coroutines | open a registration, take an answer, step back, resume | repository, Bot API |
| `RegistrationState` | none | `prev`, `next`, `canGoBack`, `getState`, `prompt` | |
| `RegistrationRepository`, `Registrations` | the table in `conference.db`; row snapshots with dirty flags | `findByChatId`, `save`, `update`, `remove` | SQLite through `CoroMapper` |
| Bot API (Telegram) | what each chat shows, which buttons are there | send, edit, remove a keyboard, answer a query | |
| `WorkerPool`, `onBotPool` | task queue, threads | run a blocking request, resume the coroutine in the worker thread | HTTP client |
| `DrogonHttpClient` | connection pools, a round-robin counter | one request with a timeout; a transport error becomes a `TgException` | Telegram |
| `BotServer` | none | delete and set the webhook at start-up, in a detached thread | Bot API |
| `ExportController` | none | check the token, read the table, write CSV | repository's table |
| `ConfigProvider`, `DbClientFactory` | none | read the environment, open the database | |

What is hard about it:

- **Concurrency.** Handlers of the same chat are not serialised. Every update
  starts a coroutine; between two `co_await`s any other one may run, on 16 event
  loop threads, the database threads and the workers of the pool. There is no
  lock and no transaction: a handler reads a row, awaits something, and writes
  the columns it set into whatever the row is by then.
- **Two stores.** The row in the database and the messages in the chat are
  changed by separate calls, in an order that differs from handler to handler.
- **Failure.** A request can fail before or after Telegram carried it out; a
  statement can fail; the process can die between any two awaits. Some
  handlers catch `TgException`, one catches everything, `processMessage` and
  `replyBackQuery` catch nothing; an exception that leaves a handler reaches
  drogon's `AsyncTask`, which terminates the process.
- **Limits.** Nothing bounds an answer, and the form joins four of them into one
  message. Telegram refuses a message that is too long, when the answer is in
  the table already.
- **Threads.** Bot API requests block, so they run in a pool of threads with a
  queue and a condition variable, over a fixed number of connections. A
  coroutine is resumed in the thread that ran its request and posts the next one from
  there. The pool is static: it is stopped after `main` has returned.
- **Delivery.** An update is acknowledged before it is handled, acknowledgements
  can be lost, and the webhook of the previous run is deleted and set again while
  updates already arrive.
- **Sequences.** `chat_id` is not unique, messages with buttons remain in the
  chat, and the user may press any of them at any time.

What makes each part correct:

- form: questions are answered in order, a step back takes exactly one answer
  back, a completed form is final and has a phrase;
- table: stale snapshots do not undo the writes of others; at most one
  registration for each button; a phrase once stored is never lost;
- chat: it shows the form and the question that the row is in, and has no back
  button but that of the current form; nobody is thanked before his phrase is stored;
- process: no handler lets an exception out while Telegram takes its forms;
- groups: a registration opened where answers are not taken stays blank;
- pool: a posted request is run once, by one thread, its coroutine is resumed with
  its outcome and by nobody else; no wakeup is lost; the destructor does not hang on a sleeping
  worker;
- client: connections are used in turn, a late answer is never taken for another
  request's, every request ends;
- webhook: an update is lost only with the process, seen twice only if its
  acknowledgement was lost, and a clean start repairs a deleted webhook;
- export: the file reads back as the rows it was made of;
- progress: an answer leads to the next question, the back button back to the
  one before; after failures, /start repairs the chat.

## 2. The modules

| Module | Models |
|---|---|
| `RegistrationState` | the enum with its raw values, `next`, `prev`, `canGoBack`, which column a step fills |
| `Registrations` | table, snapshots, setters and dirty flags, INSERT, UPDATE, the lookup that finds exactly one row |
| `Telegram` | external: messages and keyboards, the texts that depend on a registration and their length, which messages and edits are refused |
| `BotRuntime` | the state variables, coroutine frames, the awaited call with its outcomes, exceptions, crash and restart |
| `RegistrationWorkflow` | the handlers of the registration, one action per awaited call |
| `StartWorkflow`, `CheckSubscriptionWorkflow` | the other two workflows |
| `ConferenceBot` | composition: updates, routing, `Next`, fairness, the properties |
| `RegistrationForm` | abstract specification of what the table promises |
| `WorkerPool` | `BotApiExecutor`: queue, condition variable, workers, awaiters, number of threads, the end of `main` and the destructor |
| `AwaitedCalls` | abstract specification of what `onBotPool` promises |
| `HttpClient` | `DrogonHttpClient`: leases, requests in line on each connection, time-outs, broken connections |
| `BotRequests` | composition of the two: what a worker runs is a request of the client; the fairness and liveness of both |
| `Webhook` | delivery of updates by Telegram, the endpoint, `BotServer::registerWebhook`, crash and start |
| `ExportController` | the request for the file, the reader of the table, escaping and layout, and a reader of the file |
| `MCConferenceBot`, `MCExportController` | finite instances |
| `RegistrationStateProofs`, `RegistrationFormProofs`, `ConferenceBotProofs`, `ConferenceBotWriteProofs`, `ConferenceBotScreenProofs`, `BotRequestsProofs`, `WebhookProofs`, `ExportControllerProofs` | theorems and proofs |

`Registrations` and `Telegram` are modules of operators on values; the
variables that hold the values belong to `BotRuntime`. The workflow modules
extend it and only add actions.

**Variables and code.** `registrations` is the table; a row's primary key is
its position, since rows are only inserted. `messages[c]` is what chat `c`
shows, a message id is a position in it. `frame[t]` is one coroutine of
`async_run`: the await it is suspended at (`pc`, written
`<function>.<call>`) and the locals that live across awaits (chat, the
message whose button was pressed, the text received, the state passed on, the model
object). `up` says whether the process runs; frames die with it, the table and
the chats do not.

**Steps.** One step is the awaited call together with the code up to the next
`co_await`. An SQL statement is atomic in SQLite and a Bot API request is atomic
at Telegram; the code between two awaits touches nothing but locals, so finer
steps would show nothing more. Before its first await a handler touches nothing
either: a frame at its first await stands as well for an update that is still on
its way, such as a press of a button that is gone when the press arrives. `save` is an INSERT and
a SELECT; the second alone may fail, which is the second disjunct of `WantSave`.

**The pool.** `tasks` is `_tasks`, a queue of coroutines, since the task of a
coroutine is determined by it. `pc` says where each thread is: a worker before the
predicate of `_cv.wait` (`check`), asleep, in the callable (`run`), in
`handle.resume()` (`resume`), between the unlock and `notify_one()` of `post`
(`notify`), or out of its loop. A critical section is one step, the notification after it
another. `coro` and `answer` are the awaiter: where its coroutine is and what it got. The
counters of the model are histories or bounds. Using the pool after its destruction is undefined
and has no step.

**The client.** `line[c]` are the requests on connection `c`, the one being
served first. A caller that gives up leaves its request there without an owner. `LeaseClient`
is all that happens under `_poolsMutex`.

**Delivery.** In `Webhook` an update is a model value and `accepted` counts the
coroutines that have been started for it and have not yet reached the handlers. In
`ConferenceBot` an update is delivered by any action of the user, any number of
times, so that what a second delivery of the same update does is among its
behaviours: the user may send the same text or press the same button again.

**The file.** In `ExportController` a text is a sequence of characters. `Read` is a reader of CSV
files written from RFC 4180 and not from the code. Erasing (`Kept`), the lines
of the file (`GenerateCsv`) and the reader go through a sequence from its start, and are written
as recursive functions on its prefixes, which can be reasoned about.

**Outcomes of an await.** `Api`: Telegram accepts and the handler goes on;
Telegram refuses and `TgException` is thrown, which is no fault and happens every time when
the edit changes nothing (`CanEdit`) or the form is too long (`Fits`, for edits and for new messages); the transport fails, with or without the
effect at Telegram, and `TgException` is thrown. `Statement`: done, or failed as
a whole with a database exception. `Throw` ends a handler whose `try` block
catches the exception and otherwise terminates the process. `resumeRegistration`
catches the failure to clear a keyboard and goes on: `ResumeClear` is its own
action for that reason.

**Abstractions.** A text is a model value with a length, `Size`. Of Telegram's limit of 4096
characters `MaxSize` is what is left for the four entries of a form; the form without answers
fits (`SizeAssumption`), and so do all other messages, whose texts are constant. A message is its kind, the step it
asks for or the answers it shows, and its keyboard. Messages that nothing refers
to later (contest description, photos, query answers) are not kept in
the chat, so the two requests that send the description and the photos are one step.
Logging, names, HTML, the nickname column are left out. `getState` cannot
throw: no handler writes a raw value outside the enum (that is part of
`BotTypeOK`).

**External behaviour relied on.** `CoroMapper::findOne` throws `UnexpectedRows`
for no row and for several rows; `CoroMapper::update` writes the dirty columns by primary
key; `AsyncTask` terminates on an escaping exception; `async_run` keeps the
lambda alive as long as the coroutine. Telegram refuses an edit of a message that does not
exist, an edit that changes nothing, the removal of a keyboard that
is gone included, and a message that is too long, sent or edited. It can also refuse
for reasons that the model does not have (the user has blocked the bot, too many requests, a
query that is too old); these are among the failures without effect, and count as faults. One call of `TgBot::Api` is one request of the client. drogon's `HttpClient`
sends the requests of a connection one after the other and calls back from its loop;
`app().run()` returns after a signal. Telegram keeps an update until it is acknowledged.

**Assumptions about users.** Users do not delete messages of the bot (an
edit would then be refused, with the consequences of any refusal).

## 3. Runs

Handlers of different chats share neither rows nor messages, and the only
shared resource left is the pool of coroutines, so most configurations have one private
chat; `overlap_start` has a group besides. Bounds: `MaxUpdates` (updates
delivered), `MaxFaults` (failed calls and crashes together), `Tasks` (coroutines in
flight), `MaxCalls` (requests posted), `MaxRows` and `MaxWrites` (of the
exported table). Deadlock checking is off in all runs: once the bounds are used up the
system rightly stops.

| Run | Bounds | Shows |
|---|---|---|
| `overlap_start` | a private chat and a group, 2 coroutines, 6 updates, 1 fault, impatient | types; each button opens at most one registration, even when pressed twice at once; a registration in a group stays blank |
| `overlap_form` | 2 coroutines, 4 updates, 1 fault, impatient, form opened | completed forms have a phrase; thanks come after the phrase; phrases stay; stale snapshots roll nothing back that they did not set |
| `patient_faults` | 1 coroutine, 8 updates, 2 faults, fair | the table refines `RegistrationForm`, no question is skipped, a completed registration is never changed, nothing is announced as completed before it is; after the last fault /start repairs the chat; texts: the placeholder "[Waiting]" and a long one |
| `patient_clean` | 1 coroutine, 9 updates, a short and a long text, no faults, fair | chat and row agree, only an overlong form ends the process, no form in use is called outdated, an answer that fits leads to the next question, the back button takes any answer back |
| `requests` | 2 workers, 1 other thread, 2 coroutines, 3 calls, 2 connections, counter of 2 values, fair | the pool refines `AwaitedCalls`, no wakeup is lost, one thread per coroutine; calls return, the destructor does; turns are even, answers go to their requests |
| `saturated` | 2 workers, 1 other thread, 3 coroutines, 4 calls, 1 connection, fair | with all workers busy the queue grows and every call still returns |
| `webhook` | 3 updates, one of them malformed, 3 faults, fair | updates are lost only in a crash, repeated only after a lost acknowledgement; a clean start delivers |
| `export` | 1 request, 2 rows, 2 answers out of 7 texts of the characters that matter, 1 fault | the file reads back as its rows |

In `requests` two workers and two coroutines are the least with which a notification can reach the
wrong worker, a worker can sleep while another posts, and a request can wait behind
another on the same connection; with three calls the counter has wrapped and a
coroutine posts again from the worker that resumed it. Two coroutines never fill two workers,
which is what `saturated` is for: the third request waits in the queue while both workers wait on the one
connection, and with a fourth call the first coroutine to be resumed posts behind it. In the code the counter has
2^64 values and a pool 32 connections, which divides it; `ClientAssumption` asks for no
more than that and a host to talk to. Turns are even for a client with one host, as the bot's is: several hosts
share the counter, and then a host may miss a connection. In `webhook`
three faults are a failed request, a lost acknowledgement and a crash in one behaviour.
The texts of `export` are a comma, quotes, line breaks and other erased characters,
alone and next to letters.

An *impatient* user acts while handlers of his earlier updates are still
running. A *patient* one waits (`Patient`), which makes handlers of one chat
sequential; he may still press any button left in the chat and send any
text. Two coroutines are enough for the hazards of section 1: each of them is about one handler
overtaking another. Six updates reach two confirmations and two clicks on each kind of button; seven
complete a form, so the runs of a patient user have one or two to spare for
steps back, for /start in the middle and for a second /start before the registration.
`overlap_form` starts from `OpenedInit`, a
chat whose user has given a name, and spends its updates on the form. The state is one
that `BotInit` reaches with four updates and no failure. One text suffices where no
property compares answers with one another. A long text has the length 3, all others 1. In
`patient_clean` `MaxSize` is 5, so that one long answer is too many, whichever question it is given to:
the fourth update from the start can be one, and five more come after it. In `patient_faults` it is 6, and a
form holds one long answer and not two.

Two kinds of answers make Telegram refuse the edit of a form, which nothing catches, so that the
process ends after the answer has been stored:

- The literal placeholder "[Waiting]" leaves the text of the form as it was, and where the
  keyboard stays the same, too, the edit changes nothing. `patient_faults` has it among its
  texts; the answer is kept and /start recovers after a restart.
- An answer that makes the form too long. The row is then in the next step and
  the chat still asks the previous question. Unless it was the first answer, the user can step back with the
  button of the form as it was before (`BackTakesAnswerBack`): its edit is refused again, since that form
  shows just the answers that are left, but the row has been written by then and
  agrees with the chat. /start does not help: it removes the keyboard of the old form, its new one is
  refused and the exception caught, and from then on the chat has neither
  question nor form nor button, however often /start is repeated. The user can still answer unasked,
  and each such answer ends the process, until the phrase completes the form. `StartRecovers`,
  `ScreenMatchesRow` and `AnswerAdvances` leave this case out, row by row (`FormFits`).

`StartRecovers`, `AnswerAdvances` and `BackTakesAnswerBack` are about runs with one chat. Handlers
of several chats share the process, so that the overlong form of one chat can end it
while a handler of another is under way.

**Fairness.** `FairSpec` has weak fairness of every coroutine's step: the pools
and event loops keep resuming coroutines, a request ends within the client's timeout
and a statement with a result or an error. Nothing is assumed of users, nor
that anybody restarts a dead process: `StartRecovers` holds without it
since it asks about a /start that has arrived when no fault is left to happen.

`FairRequestsSpec` has weak fairness of the workers, of a `post` that has to notify,
of the destructor once it has begun, and of a request's time-out as long as `main` runs. Nothing is
assumed of the host: `EveryCallReturns` holds because the timer fires also
for a request that waits behind others. After `main` has returned, `~DrogonHttpClient` has
stopped the loop that serves the timers, so from then on a request need not end, and a
worker in one is joined for ever. That is why `DestructorReturns` and
`QueueIsDrained` leave this one case out, and it is a hazard of the code. This composition is also
what justifies the assumption of `FairSpec` that a request ends.
`FairSpec` of `Webhook` has Telegram posting what is pending, the endpoint running,
and `registerWebhook` going on; nobody has to restart the process.

**What the code says of itself and does not keep.** Four runs are expected to
end in a counterexample.

- `claim_outdated`: the notice "this form is outdated, use the current one
  below" is given for the newest form, in the time between sending the form and storing
  its message id. Without overlap, failures and overlong forms no form in use is called outdated
  (`NoneOutdated`).
- `claim_contained`: failures of handling an update are said to be logged; the
  `try` blocks of `main.cpp` and of the routers end at the first suspension of
  a handler. Two overlapping updates lead to an edit that Telegram refuses, and the
  process terminates.
- `claim_welcome`: "No existing registration" is reported for a chat that has
  two. A patient user gets there by confirming twice before he registers.
  From then on the bot finds neither row.
- `claim_completed`: "Registration COMPLETED" is reported, and the user thanked,
  while a step back of an overtaken handler has moved the row out of
  Completed. What survives is in `overlap_form`: the phrase is stored and stays. With a patient
  user the report is true, whatever fails (`patient_faults`, `CompletedIsNotAnnouncedEarly`).

Each property of the passing runs is violated when a slip that a programmer could make
is seeded into one definition; the slips stand before the definitions
they change and are marked "Seeded slip". They are listed in `PROJECT.json`.

## 4. Proofs

All theorems hold for every value of the constants that satisfies the
named assumptions: a non-empty set of chats, an empty string that is neither a text
nor the placeholder, a length for every text and a limit that the empty form respects, natural numbers as bounds (any of them), and, for the export,
texts that are sequences of characters. The number of
coroutines, chats, texts and private chats is arbitrary. Users are patient or not,
unless a theorem has `Patient` as its hypothesis. The theorems about the pool, its
client and the webhook hold for any non-empty finite set of workers, any other threads,
hosts, coroutines and updates.

`RegistrationStateProofs` has the facts about `next`, `prev` and `canGoBack`
that the others cite.

`RegistrationFormProofs`: `FormsAreFilled` (types and `FilledUpToState`,
inductive together) and `CompletedFormsAreFinal`. The runs check the two properties of the bot itself
(`AnsweredUpToState`, `CompletionIsFinal`), and `ConferenceBotWriteProofs` proves them of it.

`ConferenceBotProofs` proves `BotTypeOK`, `CompletedHasPhrase`,
`ThankedOnlyAfterSaved` and `PhraseIsKept` from one inductive invariant

    IInv == BotTypeOK /\ CompletedHasPhrase /\ ThankedOnlyAfterSaved
              /\ \A t \in Tasks : FrameOK(t)

The table properties are not inductive alone, because the next write comes from a
frame. `FrameOK` says what a suspended handler may be about to write: an object
has the id of a row of its chat; an object that sets the state to Completed is
completing a row that gets a phrase in the same UPDATE or already has one; an object
that sets the phrase sets it to a text; a frame on its way to thank the user belongs to a chat
with a phrase. It stays true while others write because phrases are never
taken back: the relation `Grows` between tables (rows keep their ids and chats, phrases
stay) holds of every step, is what `PhraseIsKept` follows from, and
preserves `FrameOK` of every frame that does not move. The lemmas `StatementInv` and
`ApiInv` reduce an action to its own frame and its own write; one lemma per
action supplies these two facts.

`ConferenceBotWriteProofs` proves `StaleSnapshotsDoNotRollBack` and
`GroupsAreNotAnswered`. An UPDATE writes the columns that the object has marked, so the
invariant `WInv` adds to `IInv` what a suspended handler can have marked, by its await:
nothing, only `message_id`, or anything but `message_id` (`MarksOK`); no handler marks
both kinds. For a chat that is not private it says how far a coroutine can have come (`GroupOK`):
it takes no answer and shows no form after one, and the objects it holds wait
for the name, so that there is no step back from them. Each write then keeps the rows
of groups as they are.

The second half of `ConferenceBotWriteProofs` is about patient users: `RegistrationsAreForms`, that
the table implements `RegistrationForm`, and with it `AnsweredUpToState`, whatever fails and
whenever the process dies. Without `Patient` neither is true: two handlers of the
same chat can read one row, and the second writes a state that skips or repeats a question
(that is why `overlap_form` does not list them). The invariant `FormInv` says that
a chat has at most one coroutine, and that the object which it holds is the row as it is, up to the one
change that the coroutine is about to write: a question answered, a step taken back, a message id.
Each write is then one step of one form, or none:

| write | step of `RegistrationForm` |
|---|---|
| `INSERT` of `want.save` | `Open` |
| `save.update` | `Answer`, or `Complete` for the phrase |
| `back.update` | `GoBack` |
| `form.update`, the state of the question that is shown next | `Advance`; after a step back or the phrase none, the row is there already |
| the writes of message ids | none |

A request, a failure, a crash and a restart change no row. That no failure in between leaves a
question out is the order of the writes in `processMessage`: the answer first, the next state
with or after it.

No step of a form changes a completed one, so `CompletedRegistrationsAreFinal` (`CompletionIsFinal`)
follows. This is not the shape of the chat: a crash between the completing UPDATE and the
edit of the form leaves the form with its back button, a click on it is on the current
form, and only `canGoBack` refuses it.

The same invariant bounds what `claim_completed` shows. `CompletedIsNotAnnouncedEarly` proves
`AnnouncedCompletedIsCompleted` for patient users, faults and crashes included: no write
above takes a completed row back (`CompletionsStay`), and a coroutine on its way to the last
message (`Announcing`) has got there by the UPDATE of the phrase, never by a step
back, so its chat has a completed row. This also covers the path on which
`showFormPrompt` finds no single row any more and the thanks are sent all the same.

The last part of `ConferenceBotProofs` proves `OneRegistrationPerButton`. The property compares two
cardinalities, and a step that raises the left one does not raise the right one: the button
was removed some awaits before the row is inserted. The invariant `BInv` therefore
counts the handlers on their way as well: rows and handlers between `WantClear` and
`WantSave` together are no more than the confirmations without a button, and the same for
confirmations, handlers between `CheckClear` and `CheckConfirm`, and welcome
messages. Removing a button adds a handler and a pressed message, inserting turns a handler into
a row, a failure or a crash only takes handlers away. Needed besides: the message of
a click is of the right kind, and no handler edits a message of these two
kinds, which is why `BInv` says of every message id in rows and objects that it belongs
to a question or a form. The lemmas `ApiBInv`, `StatementBInv` and `StopBInv` reduce
an action to its own frame, chat and count.

`ConferenceBotScreenProofs` relates the two stores. Its theorems are about patient users, and about
behaviours in which no form is too long (`[]FormsFit`), up to the first failure (`faults = 0`, which
is part of the behaviour and no bound). Both are needed: a refused edit, like a
failed one, leaves chat and row apart. `ShortAnswersFit` says when the first is granted: whenever any
four answers fit into a form together. Then `ScreensMatchRows` proves `ScreenMatchesRow`;
`NoFormIsOutdated` proves `NoneOutdated`; and `BotStaysUp` proves `UpWhileFormsFit`, that without
failures only an overlong form ends the process. The three depend on one another, so the invariant
`CleanInv` (`ScreensAgree`) has them together, `FormsFit` among its premises.
Between updates the chat shows the row. During one, `CleanInv` says for
every await how far the screen and the row have come: which question was asked last, which
answers the form shows, which of them the row has, and where the back button is. The argument for
`BotStaysUp`: the row that a handler looks for exists and is the only one of its chat
(a registration is only inserted by a handler that took the button away, and
`BInv` of `ConferenceBotProofs` bounds these; a click on a button that is gone starts
nothing); and Telegram refuses an edit only if the message is missing, the form too long or nothing
would change. The form that a handler sends or edits in is that of a row as it is
(`HeldFormFits`), which fits; and every edit adds an answer to a form's text, takes one away, or changes
its keyboard. The last is why `Placeholder \notin Texts` is a hypothesis: the code does not
exclude such an answer, and section 3 has what happens then.

`BotRequestsProofs` proves `PoolTypeOK`, `OneThreadPerCoroutine` and
`WakeupForEachRequest`, and `PoolImplementsCalls`: the pool implements `AwaitedCalls`.
`WorkersExist` shows that the number of threads read from the environment
satisfies the assumption. The invariant about wakeups counts: the queue is no
longer than the threads that still have to notify and the workers about to look at the queue
together, as long as anybody sleeps. A `post` adds one to both sides; a worker
that takes a task, one from both; a worker falls asleep only on an empty queue; and
a notification moves its thread's share to the worker it wakes. The refinement maps
`served` to the coroutines in the hands of running workers; that a `Take` is a
`Serve` needs `OneThreadPerCoroutine` (two workers never hold the same coroutine, so
fewer calls run than there are workers when one of them is idle).

The same module has the composition of pool and client. `RequestsUseThePool`: with the client
hidden, each of its steps is a step of the pool or leaves the pool alone, so the theorems about
the pool hold of it (`RequestsKeepThePromises`). `ConnectionsTakeTurns` is
`LeasesAreBalanced` for any number of connections and one host: the counter modulo
the number of connections is where the round stands, and the connections before it
have been leased once more than the others. It uses that the size of the counter is a multiple
of the number of connections (`ClientAssumption`); otherwise a round is cut short
where the counter wraps.

`AnswersReachTheirRequests` is `ClientTypeOK`. Its invariant says of each worker which places in the
lines are its own: exactly one, on the connection it leased, while it waits, and none at any other
time (`OwnsPlace`). An answer at the front of a line moves every other place up, a caller that
gives up leaves a place that is nobody's, a broken connection takes them all, and each of
these events takes the worker out of the wait in the same step. So when the worker makes
its next request, on whatever connection, no answer to the earlier one can be taken for it.

`WebhookProofs` proves `WebhookTypeOK`, `AgainOnlyIfAckLost` and `LostOnlyInCrash`. The
invariant `Delivered` counts deliveries: an update has been accepted as often as its
acknowledgement was lost, plus once if Telegram has forgotten it.

`ExportControllerProofs` proves both properties of the export, and that they hold for
reasons that do not depend on the table: `EveryTableReadsBack` is about any sequence of
rows, with any characters in their texts, and `FilesReadBack` (`ExportReadsBack`)
follows from it, since every response with status 200 is the file of some rows
(`XInv`). The proof is an induction over the rows, inside one over the characters of a
field. The library's induction theorems take an operator, which the provers cannot
instantiate, so `SetInduction` derives induction over a *set* of numbers from the fact that
`<` is well-founded on `Nat`; `RecursionExists` and `RecursionUnique` derive from it that
the recursive functions of the model exist and are determined by their equations. `Reads(s, csv, t)`
says that csv takes the reader from s to t. It composes along concatenation, so that a file
is read the way it was put together:

| text | the reader |
|---|---|
| a character | `ReadInside`, `ReadOpening`, `ReadClosing`, `ReadComma`, `ReadLineBreak`, `ReadPlain` |
| an escaped text | from the start of a field to behind it (`ReadsEscaped`), as it has no quotes left (`SanitizedIsUnquoted`) |
| a line | from the start of a record to the next (`ReadsLine`), one record of five fields |
| the header | its own record, read without quotes (`ReadsHeader`) |
| the file | the records of the rows, in their order (`ReadsFile`) |

`EscapingLosesLittle` says what the file cannot tell: quotes become apostrophes, tabs and line breaks
are gone, and a text that has none of these is exported as it is.

Model-checked only: liveness, which the prover does not handle (`AnswerAdvances`, `BackTakesAnswerBack`, `StartRecovers`,
`EveryCallReturns`, `DestructorReturns`, `QueueIsDrained`, `StartDelivers`).

## 5. Not modelled, and the plan

- `RegistrationRepository::remove` has no callers. It deletes by primary key with a chat id; in
  the model rows are never removed.
- Undefined behaviour after `main` has returned: requests that begin then use a Bot
  and a client that are destroyed. The model only lets them take for ever.
- A request that was given up may still be carried out by Telegram later. In
  `BotRuntime` a failed request has had its effect or never has it;
  effects that come later are the next thing to add there, with the proofs
  about messages.
- Several requests per call: if the Bot API library repeats a failed request by
  itself, a message can be sent twice. That is not visible in this repository.

Next: late effects of requests in `BotRuntime`, and which of the theorems about the table survive
them.

Left out for good: configuration, logging, the generated JSON conversions
(no callers), the contents of texts and keyboards' labels, HTTP bodies.
