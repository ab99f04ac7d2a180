\* A claim the code does not keep: TLC finds a counterexample.
SPECIFICATION Spec
CONSTANTS
  Seqs = {s1}
  Senders = {w1}
  OtherFrames = {}
  Room = 2
  Dispositions = {TRUE}
  Nobody = Nobody
PROPERTY
  UnknownIsFinal
