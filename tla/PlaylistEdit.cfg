SPECIFICATION Spec
CONSTANTS
  s1 = s1
  s2 = s2
  Songs = {s1, s2}
  MaxLength = 3
  HashMult = 2
  MaxVersion = 2
  MaxPriority = 0
  Broken = {FALSE}
  Loaded <- ThreeSongs
  Commands = {"play", "random", "clear", "delete", "swap", "move", "moverelative", "shuffle",
              "deleterange", "stale"}
INVARIANTS NoFault CurrentIsPlayed QueuedIsNext NotPlayingIsStopped StopIsNoticed
CHECK_DEADLOCK FALSE
