SPECIFICATION FairSpec
CONSTANTS
  Errors = {e1, e2}
  Info = Info
  MaxBuffer = 2
  TTL = 2
  MaxLines = 6
INVARIANT CapturesAreDisjoint
PROPERTY OncePerWindow
PROPERTY EveryTaskEnds
