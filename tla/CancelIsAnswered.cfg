SPECIFICATION Spec
CONSTANTS
  MaxId = 1
  Seqs = {s1}
  Workers = {w1}
  NoWorker = NoWorker
  HasDeadline = FALSE
  MaxEvents = 2
PROPERTY
  CancelIsAnswered
