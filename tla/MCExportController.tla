------------------------- MODULE MCExportController -------------------------
(* Finite instance of ExportController: texts with the characters that     *)
(* matter, alone and next to others.                                       *)
EXTENDS ExportController


Empty == <<>>

SomeTexts ==
  {<<"a">>, <<",">>, <<Quote>>, <<"\n", "a">>, <<"a", Quote, ",">>,
   <<Quote, Quote>>, <<"\r", "\t">>}

SomeNicknames == [c \in Chats |-> <<"n">>]

=============================================================================
