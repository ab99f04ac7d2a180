\* Two loads share one worker, one of them always queued behind the other.
SPECIFICATION Spec
CONSTANTS
  MaxId = 2
  Seqs = {}
  Workers = {w1}
  NoWorker = NoWorker
  HasDeadline = TRUE
  MaxEvents = 1
PROPERTIES
  EveryLoadResolves
  CrashIsReported
