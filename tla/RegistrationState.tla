------------------------- MODULE RegistrationState -------------------------
(***************************************************************************)
(* The steps of the contest registration form, with the raw values the     *)
(* database column "state" holds, and the constexpr helpers on them.       *)
(***************************************************************************)
EXTENDS Naturals

WaitingName            == 0
WaitingCompanyName     == 10
WaitingCompanyPosition == 20
WaitingPhrase          == 30
Completed              == 40

Waiting == {WaitingName, WaitingCompanyName, WaitingCompanyPosition,
            WaitingPhrase}

States == Waiting \cup {Completed}

(* The answer columns of a registration. *)
Fields == {"name", "company", "company_position", "phrase"}

(* The column that the answer given in a waiting step is written to. *)
FieldOf(s) ==
  CASE s = WaitingName            -> "name"
    [] s = WaitingCompanyName     -> "company"
    [] s = WaitingCompanyPosition -> "company_position"
    [] OTHER                      -> "phrase"

(* next() *)
NextState(s) ==
  CASE s = WaitingName            -> WaitingCompanyName
    [] s = WaitingCompanyName     -> WaitingCompanyPosition
    [] s = WaitingCompanyPosition -> WaitingPhrase
    [] OTHER                      -> Completed

(* Seeded slip: raw values are taken to be consecutive. *)
PrevByOne(s) == s - 1

(* prev() *)
PrevState(s) ==
  CASE s = WaitingCompanyPosition -> WaitingCompanyName
    [] s = WaitingPhrase          -> WaitingCompanyPosition
    [] s = Completed              -> WaitingPhrase
    [] OTHER                      -> WaitingName

(* Seeded slip: only the first step is excluded, as in prev(). *)
CanGoBackUnlessFirst(s) == s # WaitingName

(* canGoBack() *)
CanGoBack(s) == s \notin {WaitingName, Completed}

=============================================================================
