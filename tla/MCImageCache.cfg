SPECIFICATION Spec
CONSTANTS
  s1 = s1
  s2 = s2
  u1 = u1
  u2 = u2
  small = small
  large = large
  Absent = Absent
  Torn = Torn
  Services = {s1, s2}
  Urls = {u1, u2}
  Images = {small, large}
  Size <- MCSize
  MemoryMax <- MCMemoryMax
  DiskMax = 2
  MaxFaults = 1
INVARIANTS TypeOK MemoryBudget DiskBudget WholeUnlessDamaged UndisturbedGet
CONSTRAINT MemoryAlone
SYMMETRY UrlSymmetry
