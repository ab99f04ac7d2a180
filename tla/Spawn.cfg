\* Two spawns in memory for one, with and without the gate, a deadline for
\* constructors, and zombies.
SPECIFICATION Spec
CONSTANTS
  Spawns = {c1, c2}
  Container = Container
  Total = 1
  MaxPolls = 2
  Floors = {0, 1}
  Deadlines = {TRUE, FALSE}
  Reapings = {TRUE, FALSE}
INVARIANTS
  TypeOK
  NoOrphan
PROPERTIES
  OrphansExit
  GateIsPassed
  DeathIsNoticed
  ImplementsContract
