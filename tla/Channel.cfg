\* Three threads share the descriptor, which has room for half a frame; a foreign
\* hello or an oversized frame may come; the supervisor may stop reading, and
\* SIGPIPE may be ignored or not.
SPECIFICATION Spec
CONSTANTS
  Seqs = {s1}
  Senders = {w1}
  OtherFrames = {"oldHello", "oversize"}
  Room = 1
  Dispositions = {TRUE, FALSE}
  Nobody = Nobody
INVARIANTS
  TypeOK
  FramesWhole
  NoUseAfterClose
  HeldInOrder
  OnePlace
PROPERTIES
  ImplementsContract
  StopFinishes
  EveryRequestIsServed
