CONSTANTS
  Chats = {c1}
  PrivateChats = {c1}
  Texts = {long, Placeholder}
  NoText = NoText
  Placeholder = Placeholder
  LongTexts = {long}
  Size <- MCSize
  MaxSize = 6
  Tasks = {t1}
  Patient = TRUE
  MaxUpdates = 8
  MaxFaults = 2
SPECIFICATION FairSpec
INVARIANT AnsweredUpToState
PROPERTY RegistrationsAreForms
PROPERTY CompletionIsFinal
PROPERTY AnnouncedCompletedIsCompleted
PROPERTY StartRecovers
CHECK_DEADLOCK FALSE
