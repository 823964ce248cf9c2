SPECIFICATION Spec
CONSTANTS
  s1 = s1
  s2 = s2
  Songs = {s1, s2}
  MaxLength = 3
  HashMult = 2
  MaxVersion = 2
  MaxPriority = 0
  Broken = {FALSE}
  Loaded <- ThreeSongs
  Commands = {"play", "stop", "pause", "next", "previous",
              "clearerror", "repeat", "single", "random", "tag"}
INVARIANTS TypeOK NoFault CurrentIsPlayed QueuedIsNext StopIsNoticed NotPlayingIsStopped
CHECK_DEADLOCK FALSE
