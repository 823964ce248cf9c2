SPECIFICATION Spec
CONSTANTS
  s1 = s1
  s2 = s1
  Songs = {s1}
  MaxLength = 3
  HashMult = 2
  MaxVersion = 2
  MaxPriority = 1
  Broken = {FALSE}
  Loaded <- OneSong
  Commands = {"play", "next", "random", "add", "load", "prio"}
INVARIANTS NoFault CurrentIsPlayed QueuedIsNext
PROPERTY AddedToRemaining
CHECK_DEADLOCK FALSE
