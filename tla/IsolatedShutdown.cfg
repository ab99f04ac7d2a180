\* One load at a time with all its frames, an idle worker to be joined too.
SPECIFICATION FiniteConstructorsSpec
CONSTANTS
  MaxId = 1
  Seqs = {s1}
  Workers = {w1, w2}
  NoWorker = NoWorker
  HasDeadline = FALSE
  MaxEvents = 1
PROPERTIES
  ImplementsContract
  ShutdownFinishes
