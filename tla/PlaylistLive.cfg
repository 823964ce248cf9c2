SPECIFICATION LiveSpec
CONSTANTS
  s1 = s1
  s2 = s2
  Songs = {s1, s2}
  MaxLength = 3
  HashMult = 2
  MaxVersion = 2
  MaxPriority = 0
  Broken = {FALSE, TRUE}
  Loaded <- ThreeSongs
  Commands = {"play", "repeat", "single", "random", "consume"}
PROPERTIES PlaybackEnds NoSongSkipped
CHECK_DEADLOCK FALSE
