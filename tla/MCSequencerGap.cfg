CONSTANTS
  k1 = k1
  k2 = k2
  v1 = v1
  v2 = v2
  Keys = {k1, k2}
  Vals = {v1, v2}
  None = None
  Nil = Nil
  Subs = {c1}
  Updates <- MCUpdates
  MaxMuts = 2
  PageLimit = 2
  MaxForced = 1
  MaxFailures = 0
  MaxCrashes = 0
  ChanCap = 1
SPECIFICATION Spec
PROPERTY SubscriberSeesEveryRevision
