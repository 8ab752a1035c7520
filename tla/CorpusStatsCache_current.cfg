SPECIFICATION StatsSpec
CONSTANTS
  Searches = {s1, s2}
  NoSearch = NoSearch
  REFRESH_INTERVAL = 2
  MaxChunks = 1
  MaxScans = 2
  MaxTime = 4
INVARIANTS
  StatsAreCurrent
