SPECIFICATION QueriesSpec
CONSTANTS
  Threads = {"t1", "t2", "t3"}
  WordsOf <- MCWordsOf
  Words = {"reset", "refused", "oom", "memory", "dns", "storage", "404", "error"}
  DayLen = 1
  CascadeWindow = 1
  MaxMembers = 5
  MaxEvents = 6
  MaxTime = 3
  TopK = {1, 3}
INVARIANT CascadesAreReal
INVARIANT DeclineIsReal
INVARIANT ForecastFollows
INVARIANT KnownErrorGetsRunbook
CHECK_DEADLOCK FALSE
