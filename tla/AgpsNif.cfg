SPECIFICATION FairSpec
CONSTANTS
  c1 = c1
  c2 = c2
  Clients <- TwoClients
  MaxCalls = 4
  MaxRestarts = 1
INVARIANTS SubscribersMatch ClientsTold GrantBacked
PROPERTIES Answered NifGivenUp
