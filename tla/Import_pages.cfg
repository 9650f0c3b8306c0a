CONSTANTS
  a = a
  b = b
  m1 = m1
  m2 = m2
  Tabs <- TwoTabs
  Magnets <- TwoMagnets
  Names <- SomeNames
  NoText = "none"
  LineFits <- ShortLine
  TextsFit <- ShortTexts
  TitleFits <- ShortTitle
  Slug <- LikeX
  FormIds <- TwoFormIds
  Topics <- AnyTopics
  MaxTries <- AnyTries
  MayFail = TRUE
SPECIFICATION Spec
INVARIANTS ImportType  ImportedWhole
CHECK_DEADLOCK FALSE
