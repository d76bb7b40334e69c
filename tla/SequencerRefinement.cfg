CONSTANTS
  k1 = k1
  k2 = k2
  v1 = v1
  v2 = v2
  Keys = {k1, k2}
  Vals = {v1, v2}
  None = None
  Nil = Nil
  Subs = {c1}
  Updates <- MCUpdates
  MaxMuts = 3
  PageLimit = 2
  MaxForced = 1
  MaxFailures = 1
  MaxCrashes = 1
  ChanCap = 1
SPECIFICATION Spec
PROPERTY AbsSpec
INVARIANT TypeOK
INVARIANT MutationsAppliedOnce
INVARIANT MapHashChain
INVARIANT LogRevisionsIncrease
INVARIANT SummaryMatchesRevision
