\* Tidy and sloppy scripts, over one directory or several, in any order.
SPECIFICATION Spec
CONSTANTS
  g1 = g1
  g2 = g2
  f1 = f1
  f2 = f2
  k1 = k1
  k2 = k2
  v1 = v1
  v2 = v2
  v3 = v3
  Groups <- MCGroups
  Ports <- MCPorts
  Formats <- MCFormats
  Klasses <- MCKlasses
  Views <- MCViews
  Files <- MCFiles
  Script <- MCScript
  Layouts <- MCLayouts
  Busy = {3}
INVARIANTS
  TypeOK
  Topology
  Fed
  RemovesRegistered
  LayeredStarts
  LoadedExactly
CHECK_DEADLOCK FALSE
