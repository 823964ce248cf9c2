CONSTANTS
  Songs = {s1}
  MaxLength = 2
  HashMult = 2
  MaxVersion = 5
  MaxPriority = 1
SPECIFICATION ClientSpec
INVARIANTS PlChangesExact
