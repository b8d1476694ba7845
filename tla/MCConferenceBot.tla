--------------------------- MODULE MCConferenceBot ---------------------------
(* Finite instances of ConferenceBot. *)
EXTENDS ConferenceBot, TLC

CONSTANT LongTexts   \* texts three times as long as the others

MCSize ==
  [x \in Texts \cup {Placeholder} |-> IF x \in LongTexts THEN 3 ELSE 1]

(* Coroutine frames are interchangeable. *)
TaskSymmetry == Permutations(Tasks)

(* A chat whose user has been through /start, the check and "want to       *)
(* participate", and has given a name: a state BotInit reaches after four  *)
(* updates without failures.  The runs about the form start here and spend *)
(* their updates on the form.                                              *)
NameGiven(x) == [Blank EXCEPT !["name"] = x]

OpenedTable(c, x) ==
  <<[chat_id |-> c, state |-> WaitingCompanyName, message_id |-> 3,
     answers |-> NameGiven(x)]>>

OpenedChat(x) ==
  <<[Welcome EXCEPT !.keyboard = "none"],
    [Confirmed EXCEPT !.keyboard = "none"],
    Form(NameGiven(x), WaitingCompanyName), Prompt(WaitingCompanyName)>>

OpenedInit ==
  /\ \E c \in PrivateChats, x \in Texts :
       /\ registrations = OpenedTable(c, x)
       /\ messages = [d \in Chats |-> IF d = c THEN OpenedChat(x) ELSE <<>>]
  /\ frame = [t \in Tasks |-> NoFrame]
  /\ up = TRUE
  /\ faults = 0
  /\ updates = 0

OpenedSpec == OpenedInit /\ [][Next]_allVars

=============================================================================
