SPECIFICATION Spec
CONSTANTS
  Proc = {p1, p2}
  Pid = {i1, i2}
  Path = {scores}
  Version = {v1, v2}
  Payload = {a, b}
  None = None
INVARIANTS
  FilesAreWhole
  TmpIsMine
  ReadsAreSound
PROPERTIES
  AtomicWrites
