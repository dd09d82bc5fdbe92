CONSTANTS
  tool = tool
  exporter = exporter
  one = one
  Tools <- OneTool
  Poller = exporter
  Slots = 2
  MaxMishaps = 1
  MaxDropped = 1
  Collector <- WatchedCollectors
  Items <- OneItem
  MaxEvents = 1
SPECIFICATION ExporterFairSpec
INVARIANTS ExporterTypeOK SlotsAccounted PerCallReleases UpShowsDevice
PROPERTIES UsesSessionsRightly FailureShows ComesBack
CHECK_DEADLOCK FALSE
