CONSTANTS
  MaxRequests = 4
  Matching = {1, 3, 4}
SPECIFICATION FairSpec
INVARIANTS
  InOrderUnlessFiltered
PROPERTIES
  EveryRequestReported
  EndsWhenTold
