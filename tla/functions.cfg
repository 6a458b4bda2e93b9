CONSTANTS
  Signers = {k1, k2}
  NoValue = NoValue
  MaxText = 4
  MaxObject = 3
  Names <- MCNames
  Units <- MCUnits
  ArrayIndex <- MCArrayIndex
  Objects <- MCObjects
  Imports <- MCImports
  extractHost <- MCHosts
  Requests <- MCRequests
  ToolLists <- MCToolLists
  Queries <- MCQueries
  Servers <- MCServers
SPECIFICATION MCSpec
CHECK_DEADLOCK FALSE
INVARIANT SanitizersAgree
INVARIANT SignedDocumentsTravel
INVARIANT CardsMeanTheirDocuments
INVARIANT OperatorStaysInCharge
INVARIANT RiskSurvivesRenaming
INVARIANT ComplexityExact
INVARIANT BestMatchesFirst
INVARIANT SuiteVerdictIsRight
