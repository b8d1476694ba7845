CONSTANTS
  Chats = {c1}
  PrivateChats = {c1}
  Texts = {x}
  NoText = NoText
  Placeholder = Placeholder
  LongTexts = {}
  Size <- MCSize
  MaxSize = 6
  Tasks = {t1, t2}
  Patient = FALSE
  MaxUpdates = 4
  MaxFaults = 0
SPECIFICATION OpenedSpec
SYMMETRY TaskSymmetry
PROPERTY AnnouncedCompletedIsCompleted
CHECK_DEADLOCK FALSE
