SPECIFICATION FairSpec
CONSTANTS
  Addresses <- TwoAddresses
  Public = {2}
  Hosts <- MCHosts
  Subdomains <- MCSubdomains
  Inputs <- PolicyInputs
  Environments <- PolicyEnvironments
  Responses <- PolicyResponses
  ConnectCap = 1
  TlsCap = 2
  HttpCap = 2
  BudgetRange = {1, 2, 3}
  ProbeLimit = 8
  AddressLimit = 3
  RedirectLimit = 2
  BodyLimit = 2
  MaxNow = 2
INVARIANTS
  PinnedToThisHop
  EndpointProvenFirst
  RedirectsAccounted
  PlanKept
PROPERTIES
  Terminates
