------------------------------ MODULE Telegram ------------------------------
(***************************************************************************)
(* The part of the Telegram Bot API that the workflows depend on: a chat   *)
(* is the sequence of the messages the bot has sent to it, a message id is *)
(* a position in it.  Messages nothing refers to later (the description of *)
(* the contest and its photos) are left out.                               *)
(***************************************************************************)
EXTENDS Registrations

CONSTANTS
  Placeholder,  \* what a form shows for an empty answer
  Size,         \* how long a text is
  MaxSize       \* how long the four entries of a form may be together:
                \* Telegram's limit of 4096 characters, less the template

ASSUME PlaceholderAssumption == Placeholder # NoText

(* The form without answers fits; nothing bounds an answer.                *)
ASSUME SizeAssumption ==
  /\ Size \in [Texts \cup {Placeholder} -> Nat]
  /\ MaxSize \in Nat
  /\ 4 * Size[Placeholder] <= MaxSize

Kinds == {"welcome", "confirmed", "prompt", "form", "thanks"}

Keyboards == {"none", "check_subscription", "want_participate", "form_back"}

(* What a message shows: prompt texts depend on the step, form texts on    *)
(* the answers, the other texts are constant.                              *)
Message == [kind : Kinds, step : States, keyboard : Keyboards,
            answers : [Fields -> Texts \cup {NoText, Placeholder}]]

Notice(kind, keyboard) ==
  [kind |-> kind, step |-> WaitingName, answers |-> Blank,
   keyboard |-> keyboard]

(* sendPhoto of replyStartCommand *)
Welcome == Notice("welcome", "check_subscription")

(* sendMessage of showSubscribedUI *)
Confirmed == Notice("confirmed", "want_participate")

(* ThankYouMessageText *)
ThankYou == Notice("thanks", "none")

(* prompt() *)
Prompt(s) == [Notice("prompt", "none") EXCEPT !.step = s]

(* buildFormText(): a user may answer with the text of the placeholder.    *)
FormText(answers) ==
  [f \in Fields |-> IF answers[f] = NoText THEN Placeholder ELSE answers[f]]

(* The form with the keyboard that belongs to the step. *)
Form(answers, s) ==
  [kind |-> "form", step |-> WaitingName, answers |-> FormText(answers),
   keyboard |-> IF CanGoBack(s) THEN "form_back" ELSE "none"]

-----------------------------------------------------------------------------
(* Telegram refuses a message that is too long, sent or edited.  The text  *)
(* of a form grows with its answers, all others are constant and short.    *)

FormSize(text) ==
  Size[text["name"]] + Size[text["company"]]
    + Size[text["company_position"]] + Size[text["phrase"]]

Fits(new) == new.kind = "form" => FormSize(new.answers) <= MaxSize

(* Telegram refuses to edit a message that does not exist, and an edit     *)
(* that changes neither the text nor the keyboard ("message is not         *)
(* modified").                                                             *)

CanEdit(log, m, new) == m \in DOMAIN log /\ log[m] # new /\ Fits(new)

Edited(log, m, new) == [log EXCEPT ![m] = new]

(* editMessageReplyMarkup without a keyboard *)
CanClear(log, m) == m \in DOMAIN log /\ log[m].keyboard # "none"

Cleared(log, m) == [log EXCEPT ![m].keyboard = "none"]

=============================================================================
