SPECIFICATION FairSpec
CONSTANTS
  a1 = a1
  same = same
  Workers = {w1, w2}
  Alerts = {a1}
  Fingerprint <- MCFingerprint
  Requests = {1, 2, 3}
  Window = 2
  MaxInFlight = 2
  Faults = {"die", "redis", "audit"}
  None = None
INVARIANT OneTaskPerIdAndWorker
INVARIANT CountNeverOver
INVARIANT DuplicateHasOwner
PROPERTY DroppedIffInWindow
PROPERTY QueuedAlertStarts
