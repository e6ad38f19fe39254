\* Two viewers of a view each hear it twice.
SPECIFICATION Spec
CONSTANTS
  f1 = f1
  f2 = f2
  f3 = f3
  k1 = k1
  k2 = k2
  v1 = v1
  v2 = v2
  v3 = v3
  Watchers = {w1, w2}
  Switchers = {}
  Late = {}
  Faulty = {}
  Filters = {p}
  None = None
  All = All
  Bare = {}
  MaxCopies = 2
  Formats <- MCFormats
  Klasses <- MCKlasses
  Views <- MCViews
  KlassOf <- MCKlassOf
  FormatsOf <- MCFormatsOf
  Entries <- MCEntries
INVARIANTS
  HeardOnce
