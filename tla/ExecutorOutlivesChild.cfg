\* A claim the code does not keep: TLC finds a counterexample.
SPECIFICATION Spec
CONSTANTS
  MaxId = 1
  Modes = {"cloneVm"}
  MaxPolls = 2
  NoFrame = NoFrame
INVARIANT
  ExecutorOutlivesChild
