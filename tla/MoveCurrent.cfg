SPECIFICATION Spec
CONSTANTS
  s1 = s1
  s2 = s2
  Songs = {s1, s2}
  MaxLength = 3
  HashMult = 2
  MaxVersion = 2
  MaxPriority = 0
  Broken = {FALSE}
  Loaded <- ThreeSongs
  Commands = {"play", "moverange"}
INVARIANT CurrentIsPlayed
CHECK_DEADLOCK FALSE
