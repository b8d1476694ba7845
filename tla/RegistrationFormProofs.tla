----------------------- MODULE RegistrationFormProofs -----------------------
(* RegistrationForm, for any set of texts and any number of forms. *)
EXTENDS RegistrationForm, RegistrationStateProofs, SequenceTheorems

Filled(form) ==
  \A s \in Waiting : s < form.state => form.answers[FieldOf(s)] # NoText

(* The state and the answers of a form have their types.                   *)
LEMMA FormOK ==
  ASSUME TypeOK, NEW i \in DOMAIN forms
  PROVE  /\ forms[i].state \in States
         /\ forms[i].answers \in [Fields -> Texts \cup {NoText}]
<1>1. forms[i] \in FormType
  BY DEF TypeOK
<1> QED
  BY <1>1 DEF FormType

(* A recorded answer is a text or its absence. *)
LEMMA WithType ==
  ASSUME TypeOK, NEW i \in DOMAIN forms, NEW s \in States,
         NEW x \in Texts \cup {NoText}
  PROVE  /\ With(i, s, x) \in [Fields -> Texts \cup {NoText}]
         /\ \A f \in Fields :
              With(i, s, x)[f] = IF f = FieldOf(s) THEN x
                                 ELSE forms[i].answers[f]
<1>1. forms[i] \in FormType
  BY DEF TypeOK
<1>2. FieldOf(s) \in Fields
  BY FieldOfType
<1> QED
  BY <1>1, <1>2 DEF With, FormType

(* One form changes, the others stay. *)
LEMMA BecomeForms ==
  ASSUME TypeOK, NEW i \in DOMAIN forms, NEW s \in States,
         NEW answers \in [Fields -> Texts \cup {NoText}],
         Become(i, s, answers)
  PROVE  /\ TypeOK'
         /\ DOMAIN forms' = DOMAIN forms
         /\ forms'[i] = [state |-> s, answers |-> answers]
         /\ \A j \in DOMAIN forms \ {i} : forms'[j] = forms[j]
<1> DEFINE form == [state |-> s, answers |-> answers]
<1>1. form \in FormType
  BY DEF FormType
<1>2. forms' = [forms EXCEPT ![i] = form] /\ i \in 1..Len(forms)
  BY LenProperties DEF Become, TypeOK
<1>3. TypeOK'
  BY <1>1, <1>2, ExceptSeq DEF TypeOK
<1> QED
  BY <1>2, <1>3

(* Opening a form adds a blank one and changes no other.                   *)
LEMMA OpenForms ==
  ASSUME TypeOK, Open
  PROVE  /\ TypeOK'
         /\ DOMAIN forms \subseteq DOMAIN forms'
         /\ \A j \in DOMAIN forms : forms'[j] = forms[j]
         /\ \A j \in DOMAIN forms' \ DOMAIN forms :
              forms'[j] = [state |-> WaitingName, answers |-> Blank]
<1> DEFINE form == [state |-> WaitingName, answers |-> Blank]
<1>1. form \in FormType
  BY CompletedIsLast, StatesAreNaturals DEF FormType, Blank
<1>2. forms' = Append(forms, form)
  BY DEF Open
<1> QED
  BY <1>1, <1>2, AppendProperties, LenProperties DEF TypeOK

(* What a step does to form i: the new state and answers are those of a    *)
(* form, no question before the new state is left without an answer, and a *)
(* completed form takes no step.                                           *)
FilledStep(i) ==
  /\ forms[i].state # Completed
  /\ \E s \in States, answers \in [Fields -> Texts \cup {NoText}] :
       /\ Become(i, s, answers)
       /\ Filled(forms[i]) => Filled([state |-> s, answers |-> answers])

(* Recording an answer keeps the form filled up to its state.              *)
LEMMA AnswerStep ==
  ASSUME TypeOK, NEW i \in DOMAIN forms, NEW x \in Texts, NoText \notin Texts,
         Answer(i, x)
  PROVE  FilledStep(i)
<1> DEFINE s == forms[i].state
           answers == With(i, s, x)
<1>1. s \in Waiting /\ s \in States /\ s # Completed
  BY StatesAreNaturals, CompletedIsLast DEF Answer
<1>2. /\ answers \in [Fields -> Texts \cup {NoText}]
      /\ \A f \in Fields : answers[f] = IF f = FieldOf(s) THEN x
                                        ELSE forms[i].answers[f]
  BY <1>1, WithType
<1>3. x # NoText
  OBVIOUS
<1>4. Filled(forms[i]) => Filled([state |-> s, answers |-> answers])
  BY <1>2, <1>3, FieldOfType DEF Filled
<1> HIDE DEF answers, s
<1> QED
  BY <1>1, <1>2, <1>4 DEF FilledStep, Answer, s, answers

(* Asking the next question keeps the form filled: it was answered.        *)
LEMMA AdvanceStep ==
  ASSUME TypeOK, NEW i \in DOMAIN forms, Advance(i)
  PROVE  FilledStep(i)
<1> DEFINE s == forms[i].state
           answers == forms[i].answers
<1>1. s \in Waiting /\ s # Completed
  BY StatesAreNaturals, CompletedIsLast DEF Advance
<1>2. answers \in [Fields -> Texts \cup {NoText}]
  BY FormOK
<1>3. answers[FieldOf(s)] # NoText
  BY DEF Advance
<1>4. /\ NextState(s) \in States
      /\ \A r \in Waiting : r < NextState(s) => r < s \/ r = s
  BY <1>1, NextStateStep
<1>5. Filled(forms[i]) => Filled([state |-> NextState(s), answers |-> answers])
  BY <1>3, <1>4 DEF Filled
<1>6. Become(i, NextState(s), answers)
  BY DEF Advance
<1> HIDE DEF answers, s
<1> QED
  BY <1>1, <1>2, <1>4, <1>5, <1>6 DEF FilledStep, s

(* The last answer leaves no hole in the form.                             *)
LEMMA CompleteStep ==
  ASSUME TypeOK, NEW i \in DOMAIN forms, NEW x \in Texts, NoText \notin Texts,
         Complete(i, x)
  PROVE  FilledStep(i)
<1> DEFINE answers == With(i, WaitingPhrase, x)
<1>1. forms[i].state = WaitingPhrase /\ Become(i, Completed, answers)
  BY DEF Complete
<1>2. /\ answers \in [Fields -> Texts \cup {NoText}]
      /\ \A f \in Fields : answers[f] = IF f = FieldOf(WaitingPhrase) THEN x
                                        ELSE forms[i].answers[f]
  BY WithType, CompletedIsLast, StatesAreNaturals
<1>3. x # NoText
  OBVIOUS
<1>4. NextState(WaitingPhrase) = Completed
  BY DEF NextState, WaitingName, WaitingCompanyName, WaitingCompanyPosition,
         WaitingPhrase
<1>5. \A r \in Waiting : r < Completed => r < WaitingPhrase \/ r = WaitingPhrase
  BY <1>4, NextStateStep, CompletedIsLast
<1>6. Filled(forms[i]) => Filled([state |-> Completed, answers |-> answers])
  BY <1>1, <1>2, <1>3, <1>5, FieldOfType DEF Filled
<1> HIDE DEF answers
<1> QED
  BY <1>1, <1>2, <1>6, CompletedIsLast DEF FilledStep

(* The answer taken back is that of the question asked again.              *)
LEMMA GoBackStep ==
  ASSUME TypeOK, NEW i \in DOMAIN forms, GoBack(i)
  PROVE  FilledStep(i)
<1> DEFINE now == forms[i].state
           s   == PrevState(now)
           answers == With(i, s, NoText)
<1>1. now \in States /\ CanGoBack(now) /\ Become(i, s, answers)
  BY FormOK DEF GoBack
<1>2. now # Completed
  BY <1>1 DEF CanGoBack
<1>3. s \in Waiting /\ s \in States /\ s < now
  BY <1>1, PrevStateStep, StatesAreNaturals
<1>4. /\ answers \in [Fields -> Texts \cup {NoText}]
      /\ \A f \in Fields : answers[f] = IF f = FieldOf(s) THEN NoText
                                        ELSE forms[i].answers[f]
  BY <1>3, WithType
<1>5. ASSUME Filled(forms[i]), NEW r \in Waiting, r < s
      PROVE  answers[FieldOf(r)] # NoText
  <2>1. r \in Nat /\ s \in Nat /\ now \in Nat
    BY <1>1, <1>3, StatesAreNaturals
  <2>2. r # s /\ r < now
    BY <1>3, <1>5, <2>1
  <2>3. FieldOf(r) # FieldOf(s)
    BY <1>3, <2>2, FieldOfInjective
  <2> QED
    BY <1>4, <1>5, <2>2, <2>3, FieldOfType DEF Filled
<1>6. Filled(forms[i]) => Filled([state |-> s, answers |-> answers])
  BY <1>5 DEF Filled
<1> HIDE DEF answers, s
<1> QED
  BY <1>1, <1>2, <1>3, <1>4, <1>6 DEF FilledStep, now

(* A step opens a form or takes one uncompleted form to its next state.    *)
LEMMA NextStep ==
  ASSUME TypeOK, NoText \notin Texts, Next
  PROVE  Open \/ \E i \in DOMAIN forms : FilledStep(i)
BY AnswerStep, AdvanceStep, CompleteStep, GoBackStep DEF Next

(* Every step keeps the types and the filled forms.                        *)
LEMMA InductiveStep ==
  ASSUME TypeOK, FilledUpToState, NoText \notin Texts, [Next]_forms
  PROVE  TypeOK' /\ FilledUpToState'
<1>1. FilledUpToState <=> \A i \in DOMAIN forms : Filled(forms[i])
  BY DEF FilledUpToState, Filled
<1>2. FilledUpToState' <=> \A i \in DOMAIN forms' : Filled(forms'[i])
  BY DEF FilledUpToState, Filled
<1>3. CASE Open
  <2>1. Filled([state |-> WaitingName, answers |-> Blank])
    BY CompletedIsLast DEF Filled
  <2> QED
    BY <1>1, <1>2, <1>3, <2>1, OpenForms
<1>4. CASE \E i \in DOMAIN forms : FilledStep(i)
  <2>1. PICK i \in DOMAIN forms : FilledStep(i)
    BY <1>4
  <2>2. PICK s \in States, answers \in [Fields -> Texts \cup {NoText}] :
          /\ Become(i, s, answers)
          /\ Filled(forms[i]) => Filled([state |-> s, answers |-> answers])
    BY <2>1 DEF FilledStep
  <2>3. /\ TypeOK'
        /\ DOMAIN forms' = DOMAIN forms
        /\ forms'[i] = [state |-> s, answers |-> answers]
        /\ \A j \in DOMAIN forms \ {i} : forms'[j] = forms[j]
    BY <2>2, BecomeForms
  <2> QED
    BY <1>1, <1>2, <2>2, <2>3
<1>5. CASE UNCHANGED forms
  BY <1>5 DEF TypeOK, FilledUpToState
<1> QED
  BY <1>3, <1>4, <1>5, NextStep

(* No form is open at first.                                               *)
LEMMA InductiveInit == Init => TypeOK /\ FilledUpToState
<1> SUFFICES ASSUME Init PROVE TypeOK /\ FilledUpToState
  OBVIOUS
<1>1. forms = <<>>
  BY DEF Init
<1> QED
  BY <1>1, EmptySeq DEF TypeOK, FilledUpToState

(* Every question before the current one is answered, and a completed form *)
(* has no hole: what RegistrationWorkflow promises of each registration.   *)
THEOREM FormsAreFilled ==
  NoText \notin Texts => (Spec => [](TypeOK /\ FilledUpToState))
<1> SUFFICES ASSUME NoText \notin Texts
             PROVE  Spec => [](TypeOK /\ FilledUpToState)
  OBVIOUS
<1>1. (TypeOK /\ FilledUpToState) /\ [Next]_forms
        => (TypeOK /\ FilledUpToState)'
  BY InductiveStep
<1> QED
  BY <1>1, InductiveInit, PTL DEF Spec

(* No step reopens, rewrites or discards a completed registration.         *)
THEOREM CompletedFormsAreFinal ==
  NoText \notin Texts => (Spec => CompletedIsFinal)
<1> SUFFICES ASSUME NoText \notin Texts PROVE Spec => CompletedIsFinal
  OBVIOUS
<1> DEFINE Final == \A i \in DOMAIN forms :
                      /\ i \in DOMAIN forms'
                      /\ forms[i].state = Completed => forms'[i] = forms[i]
<1>1. ASSUME TypeOK, Next PROVE Final
  <2>1. CASE Open
    BY <1>1, <2>1, OpenForms
  <2>2. ASSUME NEW i \in DOMAIN forms, FilledStep(i) PROVE Final
    <3>1. PICK s \in States, answers \in [Fields -> Texts \cup {NoText}] :
            Become(i, s, answers)
      BY <2>2 DEF FilledStep
    <3>2. /\ DOMAIN forms' = DOMAIN forms
          /\ \A j \in DOMAIN forms \ {i} : forms'[j] = forms[j]
      BY <1>1, <3>1, BecomeForms
    <3> QED
      BY <2>2, <3>2 DEF FilledStep
  <2> QED
    BY <1>1, <2>1, <2>2, NextStep
<1>2. TypeOK /\ [Next]_forms => [Final]_forms
  BY <1>1
<1>3. Spec => []TypeOK
  BY FormsAreFilled, PTL
<1> QED
  BY <1>2, <1>3, PTL DEF Spec, CompletedIsFinal

=============================================================================
