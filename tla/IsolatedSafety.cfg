\* Two loads, two workers: the threads of the manager in every order.
SPECIFICATION Spec
CONSTANTS
  MaxId = 2
  Seqs = {s1}
  Workers = {w1, w2}
  NoWorker = NoWorker
  HasDeadline = TRUE
  MaxEvents = 1
SYMMETRY WorkerSymmetry
INVARIANTS
  TypeOK
  NoUntrackedChild
  ResendIsSafe
  ChildrenOwnTheirPids
  OneStory
  NoLeak
  CleanExit
