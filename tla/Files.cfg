CONSTANTS
  Nil = Nil
  Rank <- MCRank
  DefaultRoot <- Root
  NoText = NoText
  MaxInt = 7
  MaxInteger = 99
  RootNames <- MCRootNames
  MemberOffsets = {"Class::member"}
  CurrentPath = "here"
  GroupName <- MCGroupName
  XmlFiles <- MCXmlFiles
  SxfmFiles <- MCSxfmFiles
  Models <- MCModels
  StepTexts <- MCStepTexts
  Unread = {0, 1000}
SPECIFICATION FilesSpec
INVARIANTS
  DepthFirstIsSorted SavedModelsReadBack ClaimsAreKept IndentationIsTheTree IdentifiersBecomeNames
  StepFunctionsReadBack
CHECK_DEADLOCK FALSE
