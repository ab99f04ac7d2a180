\* Two components, under either manager, every frame once.
SPECIFICATION Spec
CONSTANTS
  MaxId = 2
  Modes = {"observable", "cloneVm"}
  MaxPolls = 2
  NoFrame = NoFrame
INVARIANTS
  TypeOK
  HandlersRunOnALiveObject
  StackOutlivesChild
  ExecutorOutlivesChildUnlessGivenUp
  SupervisorKnows
PROPERTIES
  QuietAnswersAreTrue
  FramesAreAnswered
  StopsEnd
  ChildrenLeaveInTheEnd
