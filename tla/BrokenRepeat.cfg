SPECIFICATION FairSpec
CONSTANTS
  s1 = s1
  s2 = s2
  Songs = {s1, s2}
  MaxLength = 2
  HashMult = 2
  MaxVersion = 2
  MaxPriority = 0
  Broken = {TRUE}
  Loaded <- TwoSongs
  Commands = {"play", "repeat"}
PROPERTY BrokenQueueStops
CHECK_DEADLOCK FALSE
