CONSTANTS
  Nil = Nil
  Names <- MCNames
  NumericNames <- MCNumeric
  Numbers <- MCNumbers
  MaxInteger = 20
  Visit <- VisitConstraint
  FeaturesOf <- Mentioned
  ValuesOf <- NumericValues
  NumberText <- Z3Text
  TrueIn <- IsTrueIn
  DeclaredValues <- ValuesDeclared
  Requests <- MCRequests
  ClientMenu <- MCClientMenu
  MaxClientCalls = 4
SPECIFICATION FactorySpec
INVARIANTS
  OptionsFollowTheTree HandsOutTheValid NoConfigurationTwice AnswersBeforeTheSearch
PROPERTIES
  ImplementsEnumeration
