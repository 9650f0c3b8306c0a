CONSTANTS
  a = a
  b = b
  m1 = m1
  m2 = m2
  Tabs <- OneTab
  Magnets <- TwoMagnets
  Names <- SomeNames
  NoText = "none"
  LineFits <- ShortLine
  TextsFit <- ShortTexts
  TitleFits <- ShortTitle
  Slug <- LikeX
  FormIds <- TwoFormIds
  Topics <- BookTopics
  MaxTries <- Once
  MayFail = FALSE
SPECIFICATION Spec
INVARIANT BookMade
CHECK_DEADLOCK FALSE
