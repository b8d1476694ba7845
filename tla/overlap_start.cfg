CONSTANTS
  Chats = {c1, g1}
  PrivateChats = {c1}
  Texts = {x}
  NoText = NoText
  Placeholder = Placeholder
  LongTexts = {}
  Size <- MCSize
  MaxSize = 6
  Tasks = {t1, t2}
  Patient = FALSE
  MaxUpdates = 6
  MaxFaults = 1
SPECIFICATION Spec
SYMMETRY TaskSymmetry
INVARIANT BotTypeOK
INVARIANT OneRegistrationPerButton
INVARIANT GroupsAreNotAnswered
CHECK_DEADLOCK FALSE
