CONSTANTS
  Chats = {c1}
  PrivateChats = {c1}
  Texts = {x, long}
  NoText = NoText
  Placeholder = Placeholder
  LongTexts = {long}
  Size <- MCSize
  MaxSize = 5
  Tasks = {t1}
  Patient = TRUE
  MaxUpdates = 9
  MaxFaults = 0
SPECIFICATION FairSpec
INVARIANT ScreenMatchesRow
INVARIANT NoneOutdated
PROPERTY UpWhileFormsFit
PROPERTY AnswerAdvances
PROPERTY BackTakesAnswerBack
CHECK_DEADLOCK FALSE
