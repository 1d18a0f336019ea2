SPECIFICATION FairSpec
CONSTANTS
  i1 = i1
  i2 = i2
  q1 = q1
  p1 = p1
  p2 = p2
  own = own
  other = other
  t1 = t1
  None = None
  Instances <- TwoInstances
  Requests <- OneRequest
  Plugins <- TwoPlugins
  Repos <- TwoRepos
  FirstParty <- OneFirstParty
  OtherRefs = {}
  Tags <- OneTag
  MaxFaults = 1
  MaxEdits = 1
  MaxActive = 2
INVARIANT AnnouncedOnce
INVARIANT NoAbandonedLock
INVARIANT OneScheduledRun
INVARIANT OnePluginPerRepository
PROPERTY DeletedStaysDeleted
PROPERTY ReleaseImported
CHECK_DEADLOCK FALSE
