CONSTANTS
  Chats = {c1}
  PrivateChats = {c1}
  Texts = {x}
  NoText = NoText
  Placeholder = Placeholder
  LongTexts = {}
  Size <- MCSize
  MaxSize = 6
  Tasks = {t1, t2}
  Patient = FALSE
  MaxUpdates = 4
  MaxFaults = 1
SPECIFICATION OpenedSpec
SYMMETRY TaskSymmetry
INVARIANT CompletedHasPhrase
INVARIANT ThankedOnlyAfterSaved
PROPERTY PhraseIsKept
PROPERTY StaleSnapshotsDoNotRollBack
CHECK_DEADLOCK FALSE
