CONSTANTS
  Chats = {c1}
  Texts <- SomeTexts
  NoText <- Empty
  Nicknames <- SomeNicknames
  Clients = {r1}
  MaxRows = 2
  MaxWrites = 2
  MaxFaults = 1
SPECIFICATION Spec
INVARIANT ExportTypeOK
INVARIANT ExportReadsBack
CHECK_DEADLOCK FALSE
