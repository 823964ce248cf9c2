SPECIFICATION Spec
CONSTANTS
  s1 = s1
  s2 = s2
  Songs = {s1, s2}
  MaxLength = 2
  HashMult = 2
  MaxVersion = 4
  MaxPriority = 0
  Broken = {FALSE}
  Loaded <- TwoSongs
  Commands = {"play", "random", "rangeid"}
PROPERTY RangeSparesCurrent
CHECK_DEADLOCK FALSE
