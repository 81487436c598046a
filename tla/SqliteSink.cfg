SPECIFICATION Spec
CONSTANTS
  SpanIds = {s1, s2}
  Names = {n1, n2}
  Width = 8
  Attributes <- MCAttributes
  AttrLists <- MCAttrLists
  Statuses = {"ok", "error"}
  MaxAttrs = 2
  none = none
SYMMETRY Symmetry
INVARIANTS
  TypeOK
  NamesJoin
  NameCacheSound
  NoSelfConflict
  QuietMeansComplete
PROPERTIES
  ImplementsTraceFile
CHECK_DEADLOCK FALSE
