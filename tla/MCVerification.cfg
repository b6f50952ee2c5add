CONSTANTS
  Lower <- MCLower
  Related <- MCRelated
  Strip <- MCStrip
  Values <- MCValues
  Depth <- MCDepth
  Leaves <- MCLeaves
  Predicates <- MCPredicates
  Height <- MCHeight
  Matches <- MCMatches
  Requests <- MCRequests
  Matchers <- MCMatchers
  Times = {0, 1, 2}
  MaxJournal = 2
SPECIFICATION Spec
INVARIANTS
  VerdictIsTheCount
  NonMatchIsExplained
  ClosestIsBest
  DeepEqualsIsExact
CHECK_DEADLOCK FALSE
