SPECIFICATION Spec
CONSTANTS
  Live = {"overview"}
  Metadata = {"ports"}
  Urls = {u1}
  MaxChanges = 2
  MaxSession = 2
CHECK_DEADLOCK FALSE
INVARIANTS
  MetadataAsked
PROPERTIES
  RefreshedCurrent
  LoadingEnds
