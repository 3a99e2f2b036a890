SPECIFICATION Spec
CONSTANTS
  BudgetRange <- MCBudgetRange
  ProbeLimit = 64
  AddressLimit = 16
  RedirectLimit = 10
  BodyLimit = 1048576
  Numerals <- MCNumerals
  HeaderLimit = 512
  Requests <- MCRequests
  Answers <- MCAnswers
  HttpResponses <- MCHttpResponses
  ProxyHost <- MCProxyHost
  ProxyPort <- MCProxyPort
  MaxMillis = 150000
INVARIANTS
  TypeOK
  AdmittedIsReachable
  NothingReachableDenied
  BypassAsAsked
  OnlyAskedIsShown
