\* A claim the code does not keep: TLC finds a counterexample.
SPECIFICATION Spec
CONSTANTS
  Spawns = {c1, c2}
  Container = Container
  Total = 2
  Floors = {1}
  MaxPolls = 1
  Deadlines = {FALSE}
  Reapings = {FALSE}
PROPERTY
  GivesUpOnTheDead
