SPECIFICATION Spec
CONSTANTS
  c1 = c1
  c2 = c2
  Classes = {c1, c2}
  MaxObjects = 5
  Chunk = 2
INVARIANTS
  AllObjects
  SoundPointers
  ReleasesAll
CHECK_DEADLOCK FALSE
