\* No watcher subscribes while subscribed: exact lists and the strict promise.
SPECIFICATION Spec
CONSTANTS
  f1 = f1
  f2 = f2
  f3 = f3
  k1 = k1
  k2 = k2
  v1 = v1
  v2 = v2
  v3 = v3
  Watchers = {w1, w2, w3}
  Switchers = {}
  Late = {w1}
  Faulty = {}
  Filters = {p}
  None = None
  All = All
  Bare = {}
  MaxCopies = 3
  Formats <- MCFormats
  Klasses <- MCKlasses
  Views <- MCViews
  KlassOf <- MCKlassOf
  FormatsOf <- MCFormatsOf
  Entries <- MCEntries
INVARIANTS
  ActiveExact
  KeepersExact
PROPERTY
  StrictPromise
