CONSTANTS
  Chats = {c1}
  PrivateChats = {c1}
  Texts = {x}
  NoText = NoText
  Placeholder = Placeholder
  LongTexts = {}
  Size <- MCSize
  MaxSize = 6
  Tasks = {t1}
  Patient = TRUE
  MaxUpdates = 7
  MaxFaults = 0
SPECIFICATION Spec
INVARIANT WelcomedOnlyWithoutRegistration
CHECK_DEADLOCK FALSE
