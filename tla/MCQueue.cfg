CONSTANTS
  Songs = {s1}
  MaxLength = 3
  HashMult = 2
  MaxVersion = 2
  MaxPriority = 1
SPECIFICATION Spec
INVARIANTS TypeOK OrderIsPermutation NormalOrder IdTableInverse FreeId
PROPERTY PriorityKeepsSorted
