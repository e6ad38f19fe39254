\* A late watcher, and a faulty one that switches its subscription.
SPECIFICATION Spec
CONSTANTS
  f1 = f1
  f2 = f2
  f3 = f3
  k1 = k1
  k2 = k2
  v1 = v1
  v2 = v2
  v3 = v3
  Watchers = {w1, w2}
  Switchers = {w2}
  Late = {w1}
  Faulty = {w2}
  Filters = {p}
  None = None
  All = All
  Bare = {f3}
  MaxCopies = 2
  Formats <- MCFormats
  Klasses <- MCKlasses
  Views <- MCViews
  KlassOf <- MCKlassOf
  FormatsOf <- MCFormatsOf
  Entries <- MCEntries
INVARIANTS
  TypeOK
  ActiveAccounting
  WatchedViewsActive
  RemovalNeverRaises
  KeeperHearsOnce
PROPERTY
  Promise
CHECK_DEADLOCK FALSE
