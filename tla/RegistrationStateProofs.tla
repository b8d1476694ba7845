----------------------- MODULE RegistrationStateProofs -----------------------
(* Facts about the constexpr helpers of RegistrationState. *)
EXTENDS RegistrationState, TLAPS

(* Every step writes one of the four answer columns. *)
LEMMA FieldOfType ==
  ASSUME NEW s PROVE FieldOf(s) \in Fields
BY DEF FieldOf, Fields

(* Different questions are answered in different columns. *)
LEMMA FieldOfInjective ==
  ASSUME NEW s \in Waiting, NEW r \in Waiting, FieldOf(s) = FieldOf(r)
  PROVE  s = r
BY DEF FieldOf, Waiting, WaitingName, WaitingCompanyName,
       WaitingCompanyPosition, WaitingPhrase

(* Only the question for the phrase is answered in the column "phrase". *)
LEMMA FieldOfPhrase ==
  ASSUME NEW s \in Waiting \ {WaitingPhrase} PROVE FieldOf(s) # "phrase"
BY DEF FieldOf, Waiting, WaitingName, WaitingCompanyName,
       WaitingCompanyPosition, WaitingPhrase

(* The step after a waiting one comes right after it. *)
LEMMA NextStateStep ==
  ASSUME NEW s \in Waiting
  PROVE  /\ NextState(s) \in States
         /\ \A r \in Waiting : r < NextState(s) => r < s \/ r = s
BY DEF NextState, States, Waiting, WaitingName, WaitingCompanyName,
       WaitingCompanyPosition, WaitingPhrase, Completed

(* Only the last question leads to Completed. *)
LEMMA NextStateCompleted ==
  ASSUME NEW s \in States, NextState(s) = Completed
  PROVE  FieldOf(s) = "phrase"
BY DEF FieldOf, NextState, States, Waiting, WaitingName, WaitingCompanyName,
       WaitingCompanyPosition, WaitingPhrase, Completed

(* A step back leads to an earlier question, never to the last one. *)
LEMMA PrevStateStep ==
  ASSUME NEW s \in States, CanGoBack(s)
  PROVE  /\ PrevState(s) \in Waiting \ {WaitingPhrase}
         /\ PrevState(s) < s
BY DEF PrevState, CanGoBack, States, Waiting, WaitingName,
       WaitingCompanyName, WaitingCompanyPosition, WaitingPhrase, Completed

(* Steps are ordered by their raw values. *)
LEMMA StatesAreNaturals == States \subseteq Nat /\ Waiting \subseteq States
BY DEF States, Waiting, WaitingName, WaitingCompanyName,
       WaitingCompanyPosition, WaitingPhrase, Completed

(* Completed is no waiting step, and WaitingName is the first one.         *)
LEMMA CompletedIsLast ==
  /\ Completed \in States \ Waiting
  /\ WaitingName \in Waiting /\ WaitingPhrase \in Waiting
  /\ \A s \in Waiting : ~(s < WaitingName)
BY DEF States, Waiting, WaitingName, WaitingCompanyName,
       WaitingCompanyPosition, WaitingPhrase, Completed

(* The steps before the next one are those before a step and the step. *)
LEMMA NextStateOrder ==
  ASSUME NEW s \in Waiting, NEW w \in Waiting
  PROVE  w < NextState(s) <=> w < s \/ w = s
BY DEF NextState, Waiting, WaitingName, WaitingCompanyName,
       WaitingCompanyPosition, WaitingPhrase, Completed

(* The steps before a step are those before the previous one and that. *)
LEMMA PrevStateOrder ==
  ASSUME NEW s \in States, CanGoBack(s), NEW w \in Waiting
  PROVE  /\ w < s <=> w < PrevState(s) \/ w = PrevState(s)
         /\ ~(PrevState(s) < PrevState(s))
BY DEF PrevState, CanGoBack, States, Waiting, WaitingName,
       WaitingCompanyName, WaitingCompanyPosition, WaitingPhrase, Completed

=============================================================================
