SPECIFICATION Spec
CONSTANTS
  Addresses <- MCAddresses
  Public <- MCPublic
  Hosts <- MCHosts
  Subdomains <- MCSubdomains
  Inputs <- DirectInputs
  Environments <- DirectEnvironments
  Responses <- DirectResponses
  ConnectCap = 1
  TlsCap = 2
  HttpCap = 2
  BudgetRange = {1, 2, 3}
  ProbeLimit = 8
  AddressLimit = 3
  RedirectLimit = 2
  BodyLimit = 2
  MaxNow = 3
INVARIANT
  EveryActionListed
