-------------------------- MODULE RegistrationForm --------------------------
(***************************************************************************)
(* What the bot promises about a registration: a form that is filled in    *)
(* one step after the other, that can be stepped back while it is being    *)
(* filled in, and that is final once it is completed.                      *)
(***************************************************************************)
EXTENDS RegistrationState, Sequences

CONSTANTS Texts,    \* the answers users give
          NoText    \* the absence of an answer, none of them

VARIABLE forms   \* the forms opened so far, oldest first

Blank == [f \in Fields |-> NoText]

FormType == [state : States, answers : [Fields -> Texts \cup {NoText}]]

TypeOK == forms \in Seq(FormType)

Init == forms = <<>>

Open == forms' = Append(forms, [state |-> WaitingName, answers |-> Blank])

(* Form i moves to state s with the given answers. *)
Become(i, s, answers) ==
  forms' = [forms EXCEPT ![i] = [state |-> s, answers |-> answers]]

With(i, s, x) == [forms[i].answers EXCEPT ![FieldOf(s)] = x]

(* The answer to the current question is recorded, or recorded anew. *)
Answer(i, x) ==
  LET s == forms[i].state
  IN  /\ s \in Waiting \ {WaitingPhrase}
      /\ Become(i, s, With(i, s, x))

(* The next question is asked only once the current one is answered. *)
Advance(i) ==
  LET s == forms[i].state
  IN  /\ s \in Waiting \ {WaitingPhrase}
      /\ forms[i].answers[FieldOf(s)] # NoText
      /\ Become(i, NextState(s), forms[i].answers)

(* The last answer completes the form in the same step. *)
Complete(i, x) ==
  /\ forms[i].state = WaitingPhrase
  /\ Become(i, Completed, With(i, WaitingPhrase, x))

GoBack(i) ==
  LET s == PrevState(forms[i].state)
  IN  /\ CanGoBack(forms[i].state)
      /\ Become(i, s, With(i, s, NoText))

Next ==
  \/ Open
  \/ \E i \in DOMAIN forms :
       \/ Advance(i) \/ GoBack(i)
       \/ \E x \in Texts : Answer(i, x) \/ Complete(i, x)

Spec == Init /\ [][Next]_forms

-----------------------------------------------------------------------------
(* Every question before the current one is answered; a completed form has *)
(* no hole.                                                                *)
FilledUpToState ==
  \A i \in DOMAIN forms : \A s \in Waiting :
    s < forms[i].state => forms[i].answers[FieldOf(s)] # NoText

(* A completed form is never changed again, nor is any form discarded. *)
CompletedIsFinal ==
  [][\A i \in DOMAIN forms :
       /\ i \in DOMAIN forms'
       /\ forms[i].state = Completed => forms'[i] = forms[i]]_forms

=============================================================================
