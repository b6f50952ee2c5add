CONSTANTS
  Resolvers = {r1, r2, r3}
  Releases = {a, b}
  Corrupt = Corrupt
  None = None
SPECIFICATION FairSpec
INVARIANTS
  ReturnedIsVerified
PROPERTIES
  ValidForGood
  ValidCacheServes
