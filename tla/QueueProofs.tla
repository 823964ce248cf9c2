---------------------------- MODULE QueueProofs ----------------------------
(***************************************************************************)
(* The queue's three ways of addressing a song stay consistent under every *)
(* edit, for every capacity, set of songs and range of priorities.         *)
(*                                                                         *)
(* The inductive invariant is stated of a record q, so that each operator  *)
(* of module Queue has a lemma of its own, and the actions of QueueMachine *)
(* follow from the lemmas of the operators they are made of.               *)
(***************************************************************************)
EXTENDS QueueMachine, FiniteSetTheorems, WellFoundedInduction, TLAPS

Fields == {"length", "items", "order", "data", "next", "version", "repeat",
           "single", "consume", "random"}

\* q is a record with the fields of struct Queue.
IsQueue(q) == DOMAIN q = Fields /\ q = [f \in Fields |-> q[f]]

Typed(q) ==
    /\ IsQueue(q)
    /\ q.length \in 0 .. MaxLength
    /\ q.items \in [Positions(q) -> Item]
    /\ q.order \in [Positions(q) -> Positions(q)]
    /\ q.data \in [AllIds -> -1 .. MaxLength - 1]
    /\ q.next \in Ids
    /\ q.version \in 1 .. MaxVersion - 1
    /\ q.random \in BOOLEAN

\* The order list is a permutation, and the identity outside random mode.
Ordered(q) ==
    /\ \A i, j \in Positions(q) : q.order[i] = q.order[j] => i = j
    /\ ~q.random => \A i \in Positions(q) : q.order[i] = i

\* The id table is the inverse of the ids of the items.
Indexed(q) ==
    /\ \A p \in Positions(q) : q.data[q.items[p].id] = p
    /\ \A id \in AllIds : q.data[id] >= 0 => /\ q.data[id] \in Positions(q)
                                             /\ q.items[q.data[id]].id = id

Consistent(q) == Typed(q) /\ Ordered(q) /\ Indexed(q)

-----------------------------------------------------------------------------
(* Facts about the constants and about permutations *)

LEMMA ConstantTypes ==
    /\ MaxLength \in Nat /\ MaxLength > 0
    /\ TableSize \in Nat /\ TableSize > MaxLength
    /\ Ids = 1 .. TableSize - 1
    /\ AllIds = 0 .. TableSize - 1
    /\ MaxVersion \in Nat /\ MaxVersion > 1
    /\ MaxPriority \in Nat
<1>1. MaxLength \in Nat /\ MaxLength > 0 /\ HashMult \in Nat /\ HashMult >= 2
  BY QueueAssumption
<1>2. MaxLength * HashMult \in Nat /\ MaxLength * HashMult > MaxLength
  <2>1. MaxLength * HashMult >= MaxLength * 2
    BY <1>1
  <2>2. QED  BY <1>1, <2>1
<1>3. QED  BY <1>2, QueueAssumption DEF TableSize, Ids, AllIds

\* An injection of a finite set into itself reaches every element.
LEMMA InjectionIsOnto ==
    ASSUME NEW S, IsFiniteSet(S), NEW f \in [S -> S],
           \A i, j \in S : f[i] = f[j] => i = j,
           NEW p \in S
    PROVE  \E i \in S : f[i] = p
<1>1. f \in Injection(S, S)
  BY DEF Injection, IsInjective
<1>2. f \in Surjection(S, S)
  BY <1>1, FS_Injection
<1>3. QED  BY <1>2 DEF Surjection

\* A loop that counts up from a start stops at the first number it looks for.
LEMMA LeastNatural ==
    ASSUME NEW S \in SUBSET Nat, S # {}
    PROVE  \E n \in S : \A m \in S : n <= m
<1> DEFINE R == OpToRel(<, Nat)
<1>1. IsWellFoundedOn(R, Nat)
  BY NatLessThanWellFounded
<1>2. \A n, m \in Nat : n < m => <<n, m>> \in R
  BY DEF OpToRel
<1> HIDE DEF R
<1>3. PICK n \in S : \A m \in S : <<m, n>> \notin R
  BY <1>1, WFMin
<1>4. \A m \in S : m \in Nat
  OBVIOUS
<1>5. \A m \in S : ~(m < n)
  BY <1>2, <1>3, <1>4
<1>6. \A m \in S : n <= m
  BY <1>4, <1>5
<1>7. QED  BY <1>6

LEMMA PositionsType ==
    ASSUME NEW q, Typed(q)
    PROVE  /\ q.length \in Nat /\ q.length <= MaxLength
           /\ Positions(q) \in SUBSET (0 .. MaxLength - 1)
           /\ IsFiniteSet(Positions(q))
<1>1. q.length \in Nat /\ q.length <= MaxLength /\ q.length - 1 \in Int
  BY ConstantTypes DEF Typed
<1>2. IsFiniteSet(0 .. q.length - 1)
  BY <1>1, 0 \in Int, FS_Interval
<1>3. QED  BY <1>1, <1>2, ConstantTypes DEF Positions

\* PositionToOrder() terminates, and inverts OrderToPosition().
LEMMA PositionToOrderInverts ==
    ASSUME NEW q, Typed(q), Ordered(q), NEW p \in Positions(q)
    PROVE  /\ PositionToOrder(q, p) \in Positions(q)
           /\ q.order[PositionToOrder(q, p)] = p
<1>1. IsFiniteSet(Positions(q)) /\ q.length \in Nat
  BY PositionsType
<1>2. PICK i \in Positions(q) : q.order[i] = p
  <2> DEFINE f == q.order
  <2>1. f \in [Positions(q) -> Positions(q)]
        /\ \A i, j \in Positions(q) : f[i] = f[j] => i = j
    BY DEF Typed, Ordered
  <2> HIDE DEF f
  <2>2. \E i \in Positions(q) : f[i] = p
    BY <1>1, <2>1, InjectionIsOnto
  <2>3. QED  BY <2>2 DEF f
<1>3. \A j \in 0 .. i - 1 : q.order[j] # p
  BY <1>1, <1>2 DEF Ordered, Positions
<1>4. QED  BY <1>2, <1>3 DEF PositionToOrder

-----------------------------------------------------------------------------
(* Rewriting items in place *)

LEMMA StampType ==
    ASSUME NEW q, Typed(q), NEW item \in Item
    PROVE  Stamp(q, item) \in Item /\ Stamp(q, item).id = item.id
BY ConstantTypes DEF Typed, Stamp, Item

\* Moving the items of W around keeps the id table exact.
LEMMA MoveItemsConsistent ==
    ASSUME NEW q, Consistent(q), NEW W \in SUBSET Positions(q),
           NEW src \in [W -> W],
           \A a, b \in W : src[a] = src[b] => a = b,
           \A b \in W : \E a \in W : src[a] = b
    PROVE  Consistent(MoveItems(q, src))
<1> DEFINE items == [p \in Positions(q) |-> IF p \in W
                                            THEN Stamp(q, q.items[src[p]])
                                            ELSE q.items[p]]
           data == MoveIds(q.data, items, W)
           r == [q EXCEPT !.items = items, !.data = data]
<1>1. MoveItems(q, src) = r
  BY DEF MoveItems
<1>3. items \in [Positions(q) -> Item]
      /\ \A p \in Positions(q) : items[p].id = IF p \in W THEN q.items[src[p]].id
                                                          ELSE q.items[p].id
  BY StampType DEF Consistent, Typed
<1>4. ASSUME NEW id \in AllIds, NEW p \in W, items[p].id = id
      PROVE  data[id] = p
  <2>0. \A a, b \in Positions(q) : q.items[a].id = q.items[b].id => a = b
    BY DEF Consistent, Indexed
  <2>1. \A o \in W : items[o].id = id => o = p
    <3> HIDE DEF items
    <3>1. QED  BY <1>3, <1>4, <2>0
  <2>2. QED  BY <1>4, <2>1 DEF MoveIds
<1>5. ASSUME NEW id \in AllIds, \A p \in W : items[p].id # id
      PROVE  data[id] = q.data[id]
  BY <1>5 DEF MoveIds
<1>a. DOMAIN data = AllIds /\ data = [id \in AllIds |-> data[id]]
  BY DEF MoveIds
<1> HIDE DEF items, data
<1>2. IsQueue(r) /\ r.items = items /\ r.data = data /\ r.length = q.length
      /\ r.order = q.order /\ r.next = q.next /\ r.version = q.version
      /\ r.random = q.random
  BY DEF Consistent, Typed, IsQueue, Fields
<1>6. Positions(r) = Positions(q)
  BY <1>2 DEF Positions
<1>7. data \in [AllIds -> -1 .. MaxLength - 1]
  <2>1. \A id \in AllIds : data[id] \in -1 .. MaxLength - 1
    <3> SUFFICES ASSUME NEW id \in AllIds PROVE data[id] \in -1 .. MaxLength - 1
      OBVIOUS
    <3>1. CASE \E p \in W : items[p].id = id
      <4>1. PICK p \in W : items[p].id = id
        BY <3>1
      <4>2. data[id] = p
        BY <4>1, <1>4
      <4>3. p \in 0 .. MaxLength - 1
        BY PositionsType DEF Consistent
      <4>4. QED  BY <4>2, <4>3, ConstantTypes
    <3>2. CASE \A p \in W : items[p].id # id
      BY <3>2, <1>5 DEF Consistent, Typed
    <3>3. QED  BY <3>1, <3>2
  <2>2. QED  BY <2>1, <1>a
<1>8. Typed(r)
  BY <1>2, <1>3, <1>6, <1>7 DEF Consistent, Typed
<1>9. Ordered(r)
  BY <1>2, <1>6 DEF Consistent, Ordered
<1>10. ASSUME NEW p \in Positions(q)
       PROVE  data[items[p].id] = p
  <2>1. items[p].id \in AllIds
    BY <1>3 DEF Item, Ids
  <2>2. CASE p \in W
    BY <2>1, <2>2, <1>4
  <2>3. CASE p \notin W
    <3>1. \A o \in W : items[o].id # items[p].id
      BY <1>3, <2>3 DEF Consistent, Indexed
    <3>2. QED  BY <2>1, <2>3, <3>1, <1>3, <1>5 DEF Consistent, Indexed
  <2>4. QED  BY <2>2, <2>3
<1>11. ASSUME NEW id \in AllIds, data[id] >= 0
       PROVE  data[id] \in Positions(q) /\ items[data[id]].id = id
  <2>1. CASE \E p \in W : items[p].id = id
    BY <2>1, <1>4
  <2>2. CASE \A p \in W : items[p].id # id
    <3>1. data[id] = q.data[id]
      BY <2>2, <1>5
    <3>2. q.data[id] \in Positions(q) /\ q.items[q.data[id]].id = id
      BY <3>1, <1>11 DEF Consistent, Indexed
    <3>3. q.data[id] \notin W
      <4>1. SUFFICES ASSUME q.data[id] \in W PROVE FALSE
        OBVIOUS
      <4>2. PICK a \in W : src[a] = q.data[id]
        BY <4>1
      <4>3. items[a].id = id
        BY <4>2, <3>2, <1>3
      <4>4. QED  BY <4>3, <2>2
    <3>4. QED  BY <3>1, <3>2, <3>3, <1>3
  <2>3. QED  BY <2>1, <2>2
<1>12. Indexed(r)
  BY <1>2, <1>6, <1>10, <1>11 DEF Indexed
<1>13. QED  BY <1>1, <1>8, <1>9, <1>12 DEF Consistent

\* Giving the queue another order list.
LEMMA OrderConsistent ==
    ASSUME NEW q, Consistent(q), NEW o \in [Positions(q) -> Positions(q)],
           \A i, j \in Positions(q) : o[i] = o[j] => i = j,
           q.random \/ \A i \in Positions(q) : o[i] = i
    PROVE  Consistent([q EXCEPT !.order = o])
<1> DEFINE r == [q EXCEPT !.order = o]
<1>1. IsQueue(r) /\ r.items = q.items /\ r.data = q.data /\ r.length = q.length
      /\ r.order = o /\ r.next = q.next /\ r.version = q.version
      /\ r.random = q.random
  BY DEF Consistent, Typed, IsQueue, Fields
<1>2. Positions(r) = Positions(q)
  BY <1>1 DEF Positions
<1>3. Typed(r)
  BY <1>1, <1>2 DEF Consistent, Typed
<1>4. Ordered(r)
  BY <1>1, <1>2 DEF Consistent, Ordered, Typed
<1>5. Indexed(r)
  BY <1>1, <1>2 DEF Consistent, Indexed
<1>6. QED  BY <1>3, <1>4, <1>5 DEF Consistent

\* Rewriting items without moving them.
LEMMA EditConsistent ==
    ASSUME NEW q, Consistent(q), NEW items \in [Positions(q) -> Item],
           \A p \in Positions(q) : items[p].id = q.items[p].id
    PROVE  /\ Consistent([q EXCEPT !.items = items])
           /\ \A v \in 1 .. MaxVersion - 1 :
                Consistent([q EXCEPT !.items = items, !.version = v])
<1>1. \A v \in 1 .. MaxVersion - 1 :
        Consistent([q EXCEPT !.items = items, !.version = v])
  <2> SUFFICES ASSUME NEW v \in 1 .. MaxVersion - 1
               PROVE  Consistent([q EXCEPT !.items = items, !.version = v])
    OBVIOUS
  <2> DEFINE r == [q EXCEPT !.items = items, !.version = v]
  <2>1. IsQueue(r) /\ r.items = items /\ r.data = q.data /\ r.length = q.length
        /\ r.order = q.order /\ r.next = q.next /\ r.version = v
        /\ r.random = q.random
    BY DEF Consistent, Typed, IsQueue, Fields
  <2>2. Positions(r) = Positions(q)
    BY <2>1 DEF Positions
  <2>3. Typed(r)
    BY <2>1, <2>2 DEF Consistent, Typed
  <2>4. Ordered(r)
    BY <2>1, <2>2 DEF Consistent, Ordered
  <2>5. Indexed(r)
    BY <2>1, <2>2 DEF Consistent, Indexed
  <2>6. QED  BY <2>3, <2>4, <2>5 DEF Consistent
<1>2. q.version \in 1 .. MaxVersion - 1
      /\ [q EXCEPT !.items = items, !.version = q.version]
           = [q EXCEPT !.items = items]
  BY DEF Consistent, Typed, IsQueue, Fields
<1>3. QED  BY <1>1, <1>2

-----------------------------------------------------------------------------
(* The operators that edit the list of songs *)

LEMMA SwapPositionsConsistent ==
    ASSUME NEW q, Consistent(q), NEW a \in Positions(q), NEW b \in Positions(q)
    PROVE  Consistent(SwapPositions(q, a, b))
<1> DEFINE W == {a, b}
           src == [p \in W |-> IF p = a THEN b ELSE a]
<1>1. W \in SUBSET Positions(q) /\ src \in [W -> W]
  OBVIOUS
<1>2. \A c, d \in W : src[c] = src[d] => c = d
  OBVIOUS
<1>3. \A d \in W : \E c \in W : src[c] = d
  <2>1. src[a] = b /\ src[b] = a
    OBVIOUS
  <2>2. QED  BY <2>1
<1> HIDE DEF W, src
<1>4. Consistent(MoveItems(q, src))
  BY <1>1, <1>2, <1>3, MoveItemsConsistent
<1>5. QED  BY <1>4 DEF SwapPositions, W, src

LEMMA ShuffleRangeConsistent ==
    ASSUME NEW q, Consistent(q), NEW start \in Nat, NEW end \in Nat,
           end <= q.length, NEW r \in ShuffleRange(q, start, end)
    PROVE  Consistent(r)
<1> DEFINE W == start .. end - 1
<1>1. PICK src \in [W -> W] :
        (\A a, b \in W : src[a] = src[b] => a = b) /\ r = MoveItems(q, src)
  BY DEF ShuffleRange
<1>2. W \in SUBSET Positions(q)
  BY PositionsType DEF Consistent, Positions
<1>3. IsFiniteSet(W)
  BY <1>2, PositionsType, FS_Subset DEF Consistent
<1> HIDE DEF W
<1>4. \A b \in W : \E a \in W : src[a] = b
  BY <1>1, <1>3, InjectionIsOnto
<1>5. QED  BY <1>1, <1>2, <1>4, MoveItemsConsistent

\* MovedTo() permutes the positions below n and its window, and the move in
\* the other direction undoes it.
MovePermutes(n, start, end, to) ==
    /\ \A p \in 0 .. n - 1 : MovedTo(start, end, to, p) \in 0 .. n - 1
    /\ \A o, p \in 0 .. n - 1 :
         MovedTo(start, end, to, o) = MovedTo(start, end, to, p) => o = p
    /\ \A p \in MoveWindow(start, end, to) :
         MovedTo(start, end, to, p) \in MoveWindow(start, end, to)
    /\ \A p \in 0 .. n - 1 :
         MovedTo(to, to + end - start, start, MovedTo(start, end, to, p)) = p
    /\ MoveWindow(start, end, to) \in SUBSET (0 .. n - 1)
    /\ MoveWindow(to, to + end - start, start) = MoveWindow(start, end, to)

LEMMA MovedToPermutes ==
    ASSUME NEW n \in Nat, NEW start \in Nat, NEW end \in Nat, NEW to \in Nat,
           start < end, end <= n, to + end - start <= n
    PROVE  MovePermutes(n, start, end, to)
<1>1. \A p \in 0 .. n - 1 : MovedTo(start, end, to, p) \in 0 .. n - 1
  BY DEF MovedTo
<1>2. \A o, p \in 0 .. n - 1 :
        MovedTo(start, end, to, o) = MovedTo(start, end, to, p) => o = p
  BY DEF MovedTo
<1>3. \A p \in MoveWindow(start, end, to) :
        MovedTo(start, end, to, p) \in MoveWindow(start, end, to)
  BY DEF MovedTo, MoveWindow
<1>4. \A p \in 0 .. n - 1 :
        MovedTo(to, to + end - start, start, MovedTo(start, end, to, p)) = p
  BY DEF MovedTo
<1>5. MoveWindow(start, end, to) \in SUBSET (0 .. n - 1)
  BY DEF MoveWindow
<1>6. MoveWindow(to, to + end - start, start) = MoveWindow(start, end, to)
  BY DEF MoveWindow
<1>7. QED  BY <1>1, <1>2, <1>3, <1>4, <1>5, <1>6 DEF MovePermutes

LEMMA MoveItemsKeeps ==
    ASSUME NEW q, Consistent(q), NEW src
    PROVE  LET r == MoveItems(q, src)
           IN /\ r.length = q.length /\ r.order = q.order
              /\ r.random = q.random /\ Positions(r) = Positions(q)
BY DEF MoveItems, Consistent, Typed, IsQueue, Fields, Positions

LEMMA MoveRangeConsistent ==
    ASSUME NEW q, Consistent(q),
           NEW start \in Nat, NEW end \in Nat, NEW to \in Nat,
           start < end, end <= q.length, to + end - start <= q.length
    PROVE  Consistent(MoveRange(q, start, end, to))
<1> DEFINE W == MoveWindow(start, end, to)
           back == to + end - start
           src == [p \in W |-> MovedTo(to, back, start, p)]
           r == MoveItems(q, src)
           o == [i \in Positions(q) |-> MovedTo(start, end, to, q.order[i])]
<1>1. PICK n \in Nat : n = q.length /\ Positions(q) = 0 .. n - 1
  BY PositionsType DEF Consistent, Positions
<1>2. end <= n /\ to + end - start <= n /\ back \in Nat /\ to < back
      /\ back <= n /\ start + back - to <= n
  BY <1>1
<1>3. /\ \A p \in 0 .. n - 1 : MovedTo(start, end, to, p) \in 0 .. n - 1
      /\ \A a, b \in 0 .. n - 1 :
           MovedTo(start, end, to, a) = MovedTo(start, end, to, b) => a = b
      /\ \A p \in W : MovedTo(start, end, to, p) \in W
      /\ \A p \in 0 .. n - 1 :
           MovedTo(to, back, start, MovedTo(start, end, to, p)) = p
      /\ W \in SUBSET (0 .. n - 1)
      /\ MoveWindow(to, back, start) = W
  <2>1. MovePermutes(n, start, end, to)
    BY <1>2, MovedToPermutes
  <2>2. QED  BY <2>1 DEF MovePermutes
<1> HIDE DEF W, back
<1>5. /\ \A a, b \in 0 .. n - 1 :
           MovedTo(to, back, start, a) = MovedTo(to, back, start, b) => a = b
      /\ \A p \in W : MovedTo(to, back, start, p) \in W
  <2>1. MovePermutes(n, to, back, start)
    BY <1>2, MovedToPermutes
  <2>2. QED  BY <1>3, <2>1 DEF MovePermutes
<1>6. src \in [W -> W]
      /\ (\A a, b \in W : src[a] = src[b] => a = b)
      /\ (\A b \in W : \E a \in W : src[a] = b)
  <2>1. \A b \in W : src[MovedTo(start, end, to, b)] = b
    BY <1>3
  <2>2. QED  BY <1>3, <1>5, <2>1
<1> HIDE DEF src
<1>7. Consistent(r) /\ r.random = q.random /\ Positions(r) = Positions(q)
  BY <1>1, <1>3, <1>6, MoveItemsConsistent, MoveItemsKeeps
<1>8. CASE q.random
  <2>0. q.order \in [Positions(q) -> Positions(q)]
        /\ \A i, j \in Positions(q) : q.order[i] = q.order[j] => i = j
    BY DEF Consistent, Typed, Ordered
  <2>1. o \in [Positions(q) -> Positions(q)]
        /\ \A i, j \in Positions(q) : o[i] = o[j] => i = j
    BY <1>1, <1>3, <2>0
  <2> HIDE DEF o, r
  <2>2. Consistent([r EXCEPT !.order = o])
    BY <1>7, <1>8, <2>1, OrderConsistent
  <2>3. QED  BY <1>8, <2>2 DEF MoveRange, o, r, src, W, back
<1>9. CASE ~q.random
  BY <1>7, <1>9 DEF MoveRange, src, W, back
<1>10. QED  BY <1>8, <1>9

LEMMA IncrementVersionConsistent ==
    ASSUME NEW q, Consistent(q)
    PROVE  Consistent(IncrementVersion(q))
<1>1. CASE q.version + 1 >= MaxVersion
  <2> DEFINE items == [p \in Positions(q) |-> [q.items[p] EXCEPT !.version = 0]]
  <2>1. items \in [Positions(q) -> Item]
        /\ \A p \in Positions(q) : items[p].id = q.items[p].id
    BY DEF Consistent, Typed, Item
  <2> HIDE DEF items
  <2>2. 1 \in 1 .. MaxVersion - 1
    BY ConstantTypes
  <2>3. Consistent([q EXCEPT !.items = items, !.version = 1])
    BY <2>1, <2>2, EditConsistent
  <2>4. QED  BY <1>1, <2>3 DEF IncrementVersion, items
<1>2. CASE ~(q.version + 1 >= MaxVersion)
  <2>1. q.items \in [Positions(q) -> Item]
    BY DEF Consistent, Typed
  <2>2. q.version + 1 \in 1 .. MaxVersion - 1
    <3>1. q.version \in 1 .. MaxVersion - 1
      BY DEF Consistent, Typed
    <3>2. QED  BY <1>2, <3>1, ConstantTypes
  <2>3. Consistent([q EXCEPT !.items = q.items, !.version = q.version + 1])
    BY <2>1, <2>2, EditConsistent
  <2>4. [q EXCEPT !.items = q.items, !.version = q.version + 1]
          = [q EXCEPT !.version = q.version + 1]
    BY DEF Consistent, Typed, IsQueue, Fields
  <2>5. QED  BY <1>2, <2>3, <2>4 DEF IncrementVersion
<1>3. QED  BY <1>1, <1>2

LEMMA ClearConsistent ==
    ASSUME NEW q, Consistent(q)
    PROVE  Consistent(ClearQueue(q))
<1> DEFINE data == [id \in AllIds |->
                      IF \E p \in Positions(q) : q.items[p].id = id
                      THEN -1 ELSE q.data[id]]
           r == ClearQueue(q)
<1>1. \A id \in AllIds : data[id] = -1
  <2> SUFFICES ASSUME NEW id \in AllIds PROVE data[id] = -1
    OBVIOUS
  <2>1. CASE q.data[id] >= 0
    <3>1. q.data[id] \in Positions(q) /\ q.items[q.data[id]].id = id
      BY <2>1 DEF Consistent, Indexed
    <3>2. QED  BY <3>1
  <2>2. CASE q.data[id] = -1
    BY <2>2
  <2>3. QED  BY <2>1, <2>2, ConstantTypes DEF Consistent, Typed
<1>2. data \in [AllIds -> -1 .. MaxLength - 1]
  BY <1>1, ConstantTypes
<1>3. r.data = data /\ IsQueue(r) /\ r.length = 0 /\ r.next = q.next
      /\ r.version = q.version /\ r.random = q.random
      /\ r.items = [p \in 0 .. -1 |-> 0] /\ r.order = [i \in 0 .. -1 |-> 0]
  BY DEF ClearQueue, Consistent, Typed, IsQueue, Fields
<1> HIDE DEF data, r
<1>4. Positions(r) = {} /\ Positions(r) = 0 .. -1
  BY <1>3 DEF Positions
<1>a. r.items \in [Positions(r) -> Item]
      /\ r.order \in [Positions(r) -> Positions(r)]
      /\ r.length \in 0 .. MaxLength
  BY <1>3, <1>4, ConstantTypes
<1>b. r.next \in Ids /\ r.version \in 1 .. MaxVersion - 1 /\ r.random \in BOOLEAN
  BY <1>3 DEF Consistent, Typed
<1>5. Typed(r)
  BY <1>2, <1>3, <1>a, <1>b DEF Typed
<1>6. Ordered(r) /\ Indexed(r)
  BY <1>1, <1>3, <1>4 DEF Ordered, Indexed
<1>7. QED  BY <1>5, <1>6 DEF Consistent, r

LEMMA AppendConsistent ==
    ASSUME NEW q, Consistent(q), q.length < MaxLength,
           NEW song \in Songs, NEW priority \in Priorities,
           NEW r \in AppendItem(q, song, priority)
    PROVE  Consistent(r) /\ r.length = q.length + 1 /\ r.random = q.random
<1> DEFINE n == q.length
<1>1. PICK id \in Ids :
        /\ q.data[id] < 0
        /\ r = [q EXCEPT
                 !.length = n + 1,
                 !.items = [p \in 0 .. n |->
                     IF p < n THEN q.items[p]
                     ELSE [song |-> song, id |-> id, version |-> q.version,
                           priority |-> priority]],
                 !.order = [i \in 0 .. n |-> IF i < n THEN q.order[i] ELSE n],
                 !.data = [q.data EXCEPT ![id] = n],
                 !.next = NextAfter(id)]
  BY DEF AppendItem, GenerateId
<1>2. n \in Nat /\ n <= MaxLength - 1 /\ Positions(q) = 0 .. n - 1
  BY PositionsType, ConstantTypes DEF Consistent, Positions
<1> DEFINE new == [song |-> song, id |-> id, version |-> q.version,
                   priority |-> priority]
           items == [p \in 0 .. n |-> IF p < n THEN q.items[p] ELSE new]
           order == [i \in 0 .. n |-> IF i < n THEN q.order[i] ELSE n]
           data == [q.data EXCEPT ![id] = n]
<1>3. new \in Item /\ new.id = id
  BY ConstantTypes DEF Item, Consistent, Typed
<1>4. NextAfter(id) \in Ids
  BY ConstantTypes DEF NextAfter
<1>5. IsQueue(r) /\ r.length = n + 1 /\ r.items = items /\ r.order = order
      /\ r.data = data /\ r.next = NextAfter(id) /\ r.version = q.version
      /\ r.random = q.random
  BY <1>1 DEF Consistent, Typed, IsQueue, Fields
<1> HIDE DEF new
<1>6. Positions(r) = 0 .. n
  BY <1>2, <1>5 DEF Positions
<1>7. items \in [0 .. n -> Item] /\ order \in [0 .. n -> 0 .. n]
  <2>1. q.items \in [0 .. n - 1 -> Item] /\ q.order \in [0 .. n - 1 -> 0 .. n - 1]
    BY <1>2 DEF Consistent, Typed
  <2>2. QED  BY <1>2, <1>3, <2>1
<1>8. data \in [AllIds -> -1 .. MaxLength - 1]
      /\ data[id] = n /\ \A x \in AllIds \ {id} : data[x] = q.data[x]
  <2>1. q.data \in [AllIds -> -1 .. MaxLength - 1] /\ id \in AllIds
    BY DEF Consistent, Typed, Ids
  <2>2. n \in -1 .. MaxLength - 1
    BY <1>2, ConstantTypes
  <2> HIDE DEF n
  <2>3. QED  BY <2>1, <2>2
<1>9. Typed(r)
  <2>1. r.length \in 0 .. MaxLength
    BY <1>2, <1>5, ConstantTypes
  <2>2. QED  BY <1>4, <1>5, <1>6, <1>7, <1>8, <2>1 DEF Consistent, Typed
<1>10. Ordered(r)
  <2>1. \A i, j \in 0 .. n - 1 : q.order[i] \in 0 .. n - 1
                               /\ (q.order[i] = q.order[j] => i = j)
    BY <1>2 DEF Consistent, Typed, Ordered
  <2>2. \A i, j \in 0 .. n : order[i] = order[j] => i = j
    BY <1>2, <2>1
  <2>3. ~q.random => \A i \in 0 .. n : order[i] = i
    BY <1>2 DEF Consistent, Ordered
  <2>4. QED  BY <1>5, <1>6, <2>2, <2>3 DEF Ordered
<1>11. \A p \in 0 .. n - 1 : q.items[p].id \in AllIds \ {id}
                            /\ q.data[q.items[p].id] = p
  BY <1>1, <1>2 DEF Consistent, Typed, Indexed, Item, Ids
<1>12. \A p \in 0 .. n : data[items[p].id] = p
  BY <1>2, <1>3, <1>8, <1>11
<1>13. \A x \in AllIds : data[x] >= 0 => data[x] \in 0 .. n /\ items[data[x]].id = x
  <2> SUFFICES ASSUME NEW x \in AllIds, data[x] >= 0
               PROVE  data[x] \in 0 .. n /\ items[data[x]].id = x
    OBVIOUS
  <2>1. CASE x = id
    BY <2>1, <1>2, <1>3, <1>8
  <2>2. CASE x # id
    <3>1. data[x] = q.data[x] /\ q.data[x] \in 0 .. n - 1
          /\ q.items[q.data[x]].id = x
      BY <2>2, <1>2, <1>8 DEF Consistent, Indexed
    <3>2. QED  BY <1>2, <3>1
  <2>3. QED  BY <2>1, <2>2
<1>14. Indexed(r)
  <2> HIDE DEF items, data
  <2>1. QED  BY <1>5, <1>6, <1>12, <1>13 DEF Indexed
<1>15. QED  BY <1>5, <1>9, <1>10, <1>14 DEF Consistent

\* DeletePosition() closes the gaps in both arrays and in the id table.
LEMMA DeleteConsistent ==
    ASSUME NEW q, Consistent(q), NEW position \in Positions(q)
    PROVE  Consistent(DeletePosition(q, position))
<1>1. PICK n \in Nat : n = q.length - 1 /\ Positions(q) = 0 .. n
                      /\ n < MaxLength
  BY PositionsType, ConstantTypes DEF Consistent, Positions
<1> DEFINE gone == q.items[position].id
           W == position .. n - 1
           items == [p \in 0 .. n - 1 |-> IF p < position THEN q.items[p]
                                          ELSE Stamp(q, q.items[p + 1])]
           erased == [q.data EXCEPT ![gone] = -1]
           data == MoveIds(erased, items, W)
           order == PositionToOrder(q, position)
           shifted == [i \in 0 .. n - 1 |-> IF i < order THEN q.order[i]
                                            ELSE q.order[i + 1]]
           down == [i \in 0 .. n - 1 |-> IF shifted[i] > position
                                         THEN shifted[i] - 1 ELSE shifted[i]]
           r == DeletePosition(q, position)
<1>2. r = [q EXCEPT !.length = n, !.items = items, !.data = data,
                    !.order = down]
  BY <1>1 DEF DeletePosition, PositionToId
<1>3. order \in 0 .. n /\ q.order[order] = position
  BY <1>1, PositionToOrderInverts DEF Consistent
<1>4. items \in [0 .. n - 1 -> Item]
      /\ \A p \in 0 .. n - 1 :
           items[p].id = IF p < position THEN q.items[p].id ELSE q.items[p + 1].id
  <2>1. q.items \in [0 .. n -> Item] /\ position \in 0 .. n
    BY <1>1 DEF Consistent, Typed
  <2>2. \A p \in 0 .. n - 1 : p \in 0 .. n /\ p + 1 \in 0 .. n
    BY <1>1
  <2>3. \A p \in 0 .. n : /\ Stamp(q, q.items[p]) \in Item
                          /\ Stamp(q, q.items[p]).id = q.items[p].id
    BY <2>1, StampType DEF Consistent
  <2>4. QED  BY <2>1, <2>2, <2>3
<1>5. \A p, o \in 0 .. n : /\ q.items[p].id \in AllIds
                           /\ q.data[q.items[p].id] = p
                           /\ (q.items[p].id = q.items[o].id => p = o)
  <2>1. \A p \in 0 .. n : q.items[p].id \in AllIds
    BY <1>1 DEF Consistent, Typed, Item, Ids
  <2>2. \A p \in 0 .. n : q.data[q.items[p].id] = p
    BY <1>1 DEF Consistent, Indexed
  <2>3. QED  BY <2>1, <2>2
<1>6. gone \in AllIds /\ q.data \in [AllIds -> -1 .. MaxLength - 1]
      /\ erased \in [AllIds -> -1 .. MaxLength - 1]
      /\ erased[gone] = -1 /\ \A x \in AllIds \ {gone} : erased[x] = q.data[x]
  <2>1. gone \in AllIds /\ q.data \in [AllIds -> -1 .. MaxLength - 1]
    BY <1>1, <1>5 DEF Consistent, Typed
  <2> HIDE DEF gone
  <2>2. -1 \in -1 .. MaxLength - 1
    BY ConstantTypes
  <2>3. QED  BY <2>1, <2>2
<1>7. position \in 0 .. n /\ W \in SUBSET (0 .. n - 1)
      /\ \A p \in 0 .. n - 1 : p \in W <=> ~(p < position)
  BY <1>1
<1>8. \A p, o \in 0 .. n - 1 : items[p].id = items[o].id => p = o
  <2> DEFINE from(p) == IF p < position THEN p ELSE p + 1
  <2>1. \A p, o \in 0 .. n - 1 : /\ from(p) \in 0 .. n
                                 /\ (from(p) = from(o) => p = o)
    BY <1>1, <1>7
  <2>2. \A p \in 0 .. n - 1 : items[p].id = q.items[from(p)].id
    BY <1>4
  <2> HIDE DEF items, from
  <2>3. QED  BY <1>5, <2>1, <2>2
<1> HIDE DEF items, erased, gone
<1>9. ASSUME NEW id \in AllIds, NEW p \in W, items[p].id = id
      PROVE  data[id] = p
  <2>1. \A o \in W : items[o].id = id => o = p
    BY <1>7, <1>8, <1>9
  <2> HIDE DEF W
  <2>2. QED  BY <1>9, <2>1 DEF MoveIds
<1>10. ASSUME NEW id \in AllIds, \A p \in W : items[p].id # id
       PROVE  data[id] = erased[id]
  BY <1>10 DEF MoveIds
<1>11. data = [id \in AllIds |-> data[id]]
  BY DEF MoveIds
<1> HIDE DEF data, W
<1>12. data \in [AllIds -> -1 .. MaxLength - 1]
  <2>1. \A id \in AllIds : data[id] \in -1 .. MaxLength - 1
    <3> SUFFICES ASSUME NEW id \in AllIds PROVE data[id] \in -1 .. MaxLength - 1
      OBVIOUS
    <3>1. CASE \E p \in W : items[p].id = id
      <4>1. PICK p \in W : items[p].id = id
        BY <3>1
      <4>2. data[id] = p /\ p \in 0 .. n - 1
        BY <4>1, <1>7, <1>9
      <4>3. QED  BY <1>1, <4>2, ConstantTypes
    <3>2. CASE \A p \in W : items[p].id # id
      BY <3>2, <1>6, <1>10
    <3>3. QED  BY <3>1, <3>2
  <2>2. QED  BY <2>1, <1>11
<1>13. ASSUME NEW p \in 0 .. n - 1
       PROVE  data[items[p].id] = p
  <2>1. items[p].id \in AllIds
    BY <1>1, <1>4, <1>5
  <2>2. CASE p \in W
    BY <2>1, <2>2, <1>9
  <2>3. CASE p \notin W
    <3>1. \A o \in W : items[o].id # items[p].id
      BY <1>7, <1>8, <2>3
    <3>2. p < position /\ p \in 0 .. n /\ items[p].id = q.items[p].id
      BY <1>1, <1>4, <1>7, <2>3
    <3>3. items[p].id # gone
      BY <1>5, <1>7, <3>2 DEF gone
    <3>4. QED  BY <2>1, <3>1, <3>2, <3>3, <1>5, <1>6, <1>10
  <2>4. QED  BY <2>2, <2>3
<1>14. ASSUME NEW id \in AllIds, data[id] >= 0
       PROVE  data[id] \in 0 .. n - 1 /\ items[data[id]].id = id
  <2>1. CASE \E p \in W : items[p].id = id
    BY <2>1, <1>7, <1>9
  <2>2. CASE \A p \in W : items[p].id # id
    <3> DEFINE x == q.data[id]
    <3>1. data[id] = x /\ id # gone /\ x >= 0
      BY <2>2, <1>6, <1>10, <1>14
    <3>2. x \in 0 .. n /\ q.items[x].id = id /\ x # position
      BY <1>1, <3>1 DEF Consistent, Indexed, gone
    <3> HIDE DEF x
    <3>3. ~(x > position)
      <4>1. SUFFICES ASSUME x > position PROVE FALSE
        OBVIOUS
      <4>2. x - 1 \in 0 .. n - 1 /\ ~(x - 1 < position) /\ (x - 1) + 1 = x
        BY <1>1, <1>7, <3>2, <4>1
      <4>3. x - 1 \in W /\ items[x - 1].id = id
        BY <1>4, <1>7, <3>2, <4>2
      <4>4. QED  BY <2>2, <4>3
    <3>4. x \in 0 .. n - 1 /\ x < position
      BY <1>1, <1>7, <3>2, <3>3
    <3>5. QED  BY <1>4, <3>1, <3>2, <3>4
  <2>3. QED  BY <2>1, <2>2
<1>15. down \in [0 .. n - 1 -> 0 .. n - 1]
       /\ (\A i, j \in 0 .. n - 1 : down[i] = down[j] => i = j)
       /\ (~q.random => \A i \in 0 .. n - 1 : down[i] = i)
  <2>1. q.order \in [0 .. n -> 0 .. n]
        /\ (\A i, j \in 0 .. n : q.order[i] = q.order[j] => i = j)
        /\ (~q.random => \A i \in 0 .. n : q.order[i] = i)
    BY <1>1 DEF Consistent, Typed, Ordered
  <2> DEFINE f == q.order
             from(i) == IF i < order THEN i ELSE i + 1
  <2>2. \A i, j \in 0 .. n - 1 : /\ from(i) \in 0 .. n /\ from(i) # order
                                 /\ (from(i) = from(j) => i = j)
    BY <1>1, <1>3
  <2>3. \A i \in 0 .. n - 1 : shifted[i] = f[from(i)]
    OBVIOUS
  <2>4. \A i, j \in 0 .. n - 1 :
          /\ shifted[i] \in 0 .. n /\ shifted[i] # position
          /\ (shifted[i] = shifted[j] => i = j)
    BY <1>3, <2>1, <2>2, <2>3
  <2>5. ~q.random => position = order
    BY <1>3, <2>1
  <2>6. ~q.random => \A i \in 0 .. n - 1 : shifted[i] = from(i)
    BY <2>1, <2>2, <2>3
  <2> HIDE DEF shifted, order
  <2>7. \A i \in 0 .. n - 1 : down[i] \in 0 .. n - 1
    BY <1>1, <1>7, <2>4
  <2>8. \A i, j \in 0 .. n - 1 : down[i] = down[j] => i = j
    <3> DEFINE D(x) == IF x > position THEN x - 1 ELSE x
    <3>1. \A x, y \in (0 .. n) \ {position} : D(x) = D(y) => x = y
      BY <1>1, <1>7
    <3>2. \A i \in 0 .. n - 1 : /\ down[i] = D(shifted[i])
                               /\ shifted[i] \in (0 .. n) \ {position}
      BY <2>4
    <3> HIDE DEF D, down
    <3>3. QED  BY <2>4, <3>1, <3>2
  <2>9. ~q.random => \A i \in 0 .. n - 1 : down[i] = i
    BY <1>1, <1>7, <2>5, <2>6
  <2>10. QED  BY <2>7, <2>8, <2>9
<1> HIDE DEF down
<1>16. IsQueue(r) /\ r.length = n /\ r.items = items /\ r.order = down
       /\ r.data = data /\ r.next = q.next /\ r.version = q.version
       /\ r.random = q.random
  BY <1>2 DEF Consistent, Typed, IsQueue, Fields
<1> HIDE DEF r
<1>17. Positions(r) = 0 .. n - 1 /\ r.length \in 0 .. MaxLength
  BY <1>1, <1>16, ConstantTypes DEF Positions
<1>18. r.next \in Ids /\ r.version \in 1 .. MaxVersion - 1
       /\ r.random \in BOOLEAN
  BY <1>16 DEF Consistent, Typed
<1>19. Typed(r)
  BY <1>4, <1>12, <1>15, <1>16, <1>17, <1>18 DEF Typed
<1>20. Ordered(r)
  BY <1>15, <1>16, <1>17 DEF Ordered
<1>21. Indexed(r)
  BY <1>13, <1>14, <1>16, <1>17 DEF Indexed
<1>22. QED  BY <1>19, <1>20, <1>21 DEF Consistent, r

-----------------------------------------------------------------------------
(* The operators that edit the order list *)

\* Rearranging the order list by a permutation of the order numbers.
LEMMA PermutedConsistent ==
    ASSUME NEW q, Consistent(q), q.random,
           NEW from \in [Positions(q) -> Positions(q)],
           \A i, j \in Positions(q) : from[i] = from[j] => i = j
    PROVE  Consistent([q EXCEPT !.order = [i \in Positions(q) |->
                                             q.order[from[i]]]])
<1> DEFINE o == [i \in Positions(q) |-> q.order[from[i]]]
<1>1. o \in [Positions(q) -> Positions(q)]
      /\ \A i, j \in Positions(q) : o[i] = o[j] => i = j
  BY DEF Consistent, Typed, Ordered
<1> HIDE DEF o
<1>2. Consistent([q EXCEPT !.order = o])
  BY <1>1, OrderConsistent
<1>3. QED  BY <1>2 DEF o

LEMMA SwapOrdersConsistent ==
    ASSUME NEW q, Consistent(q), q.random,
           NEW a \in Positions(q), NEW b \in Positions(q)
    PROVE  Consistent(SwapOrders(q, a, b))
<1> DEFINE from == [i \in Positions(q) |-> IF i = a THEN b
                                           ELSE IF i = b THEN a ELSE i]
<1>1. from \in [Positions(q) -> Positions(q)]
      /\ \A i, j \in Positions(q) : from[i] = from[j] => i = j
  OBVIOUS
<1>2. [i \in Positions(q) |-> q.order[from[i]]]
        = [k \in Positions(q) |-> IF k = a THEN q.order[b]
                                  ELSE IF k = b THEN q.order[a] ELSE q.order[k]]
  OBVIOUS
<1> HIDE DEF from
<1>3. Consistent([q EXCEPT !.order = [i \in Positions(q) |-> q.order[from[i]]]])
  BY <1>1, PermutedConsistent
<1>4. QED  BY <1>2, <1>3 DEF SwapOrders

LEMMA MoveOrderConsistent ==
    ASSUME NEW q, Consistent(q), q.random,
           NEW a \in Positions(q), NEW b \in Positions(q)
    PROVE  Consistent(MoveOrder(q, a, b))
<1> DEFINE from == [i \in Positions(q) |->
                      IF i = b THEN a
                      ELSE IF a <= i /\ i < b THEN i + 1
                      ELSE IF b < i /\ i <= a THEN i - 1 ELSE i]
<1>1. PICK n \in Nat : n = q.length /\ Positions(q) = 0 .. n - 1
  BY PositionsType DEF Consistent, Positions
<1>2. \A i, j \in Positions(q) : from[i] \in Positions(q)
                                /\ (from[i] = from[j] => i = j)
  BY <1>1
<1>3. [i \in Positions(q) |-> q.order[from[i]]]
        = [i \in Positions(q) |->
             IF i = b THEN q.order[a]
             ELSE IF a <= i /\ i < b THEN q.order[i + 1]
             ELSE IF b < i /\ i <= a THEN q.order[i - 1]
             ELSE q.order[i]]
  OBVIOUS
<1>4. from \in [Positions(q) -> Positions(q)]
  BY <1>2
<1> HIDE DEF from
<1>5. Consistent([q EXCEPT !.order = [i \in Positions(q) |-> q.order[from[i]]]])
  BY <1>2, <1>4, PermutedConsistent
<1>6. QED  BY <1>3, <1>5 DEF MoveOrder

LEMMA ShuffleOrderConsistent ==
    ASSUME NEW q, Consistent(q), q.random, NEW r \in ShuffleOrder(q)
    PROVE  Consistent(r)
<1>1. PICK o \in [Positions(q) -> Positions(q)] :
        (\A i, j \in Positions(q) : o[i] = o[j] => i = j)
        /\ r = [q EXCEPT !.order = o]
  BY DEF ShuffleOrder
<1>2. QED  BY <1>1, OrderConsistent

LEMMA ShuffleOrderFirstConsistent ==
    ASSUME NEW q, Consistent(q), q.random,
           NEW start \in Nat, NEW end \in Int, end <= q.length,
           NEW r \in ShuffleOrderFirst(q, start, end)
    PROVE  Consistent(r)
<1>1. PICK i \in start .. end - 1 : r = SwapOrders(q, start, i)
  BY DEF ShuffleOrderFirst
<1>2. start \in Positions(q) /\ i \in Positions(q)
  BY PositionsType DEF Consistent, Positions
<1>3. QED  BY <1>1, <1>2, SwapOrdersConsistent

LEMMA ShuffleOrderLastConsistent ==
    ASSUME NEW q, Consistent(q), q.random,
           NEW start \in Nat, NEW end \in Int, end <= q.length,
           NEW r \in ShuffleOrderLast(q, start, end)
    PROVE  Consistent(r)
<1>1. PICK i \in start .. end - 1 : r = SwapOrders(q, end - 1, i)
  BY DEF ShuffleOrderLast
<1>2. end - 1 \in Positions(q) /\ i \in Positions(q)
  BY PositionsType DEF Consistent, Positions
<1>3. QED  BY <1>1, <1>2, SwapOrdersConsistent

\* The two directions of playlist::SetRandom().
LEMMA SetRandomConsistent ==
    ASSUME NEW q, Consistent(q)
    PROVE  /\ Consistent([q EXCEPT !.random = TRUE])
           /\ [q EXCEPT !.random = TRUE].random
           /\ Consistent(RestoreOrder([q EXCEPT !.random = FALSE]))
<1>1. Consistent([q EXCEPT !.random = TRUE]) /\ [q EXCEPT !.random = TRUE].random
  <2> DEFINE r == [q EXCEPT !.random = TRUE]
  <2>1. IsQueue(r) /\ r.length = q.length /\ r.items = q.items
        /\ r.order = q.order /\ r.data = q.data /\ r.next = q.next
        /\ r.version = q.version /\ r.random = TRUE
    BY DEF Consistent, Typed, IsQueue, Fields
  <2> HIDE DEF r
  <2>2. Positions(r) = Positions(q)
    BY <2>1 DEF Positions
  <2>a. Typed(r)
    BY <2>1, <2>2 DEF Consistent, Typed
  <2>b. Ordered(r)
    BY <2>1, <2>2 DEF Consistent, Ordered
  <2>3. Typed(r) /\ Ordered(r) /\ Indexed(r)
    BY <2>1, <2>2, <2>a, <2>b DEF Consistent, Indexed
  <2>4. QED  BY <2>1, <2>3 DEF Consistent, r
<1>2. Consistent(RestoreOrder([q EXCEPT !.random = FALSE]))
  <2> DEFINE o == [i \in Positions(q) |-> i]
             r == RestoreOrder([q EXCEPT !.random = FALSE])
  <2>1. IsQueue(r) /\ r.length = q.length /\ r.items = q.items
        /\ r.order = o /\ r.data = q.data /\ r.next = q.next
        /\ r.version = q.version /\ r.random = FALSE
    BY DEF Consistent, Typed, IsQueue, Fields, RestoreOrder, Positions
  <2>2. o \in [Positions(q) -> Positions(q)] /\ \A i \in Positions(q) : o[i] = i
    OBVIOUS
  <2> HIDE DEF r, o
  <2>3. Positions(r) = Positions(q)
    BY <2>1 DEF Positions
  <2>4. Typed(r) /\ Indexed(r)
    BY <2>1, <2>2, <2>3 DEF Consistent, Typed, Indexed
  <2>5. Ordered(r)
    BY <2>1, <2>2, <2>3 DEF Ordered
  <2>6. QED  BY <2>4, <2>5 DEF Consistent, r
<1>3. QED  BY <1>1, <1>2

-----------------------------------------------------------------------------
(* Priorities *)

\* The loop of FindPriorityOrder() ends within the queue or at its end.
LEMMA FindPriorityOrderType ==
    ASSUME NEW q, NEW n \in Nat, q.length = n, NEW start \in 0 .. n,
           NEW priority, NEW exclude
    PROVE  FindPriorityOrder(q, start, priority, exclude) \in start .. n
<1> DEFINE Found(k) == GetOrderPriority(q, k) <= priority /\ k # exclude
           S == {i \in start .. n : i < n => Found(i)}
<1>1. S \in SUBSET Nat /\ n \in S
  OBVIOUS
<1>2. PICK i \in S : \A m \in S : i <= m
  <2> HIDE DEF S
  <2>1. QED  BY <1>1, LeastNatural
<1>3. i \in start .. n /\ (i < n => Found(i))
      /\ \A k \in start .. i - 1 : k < n /\ k \notin S
  BY <1>2
<1>4. \A k \in start .. i - 1 : ~Found(k)
  BY <1>3
<1>5. \E k \in start .. n : /\ k < n => Found(k)
                            /\ \A m \in start .. k - 1 : ~Found(m)
  BY <1>3, <1>4
<1> HIDE DEF Found
<1>6. (CHOOSE k \in start .. n : /\ k < n => Found(k)
                                /\ \A m \in start .. k - 1 : ~Found(m))
        \in start .. n
  BY <1>5
<1>7. QED  BY <1>6 DEF FindPriorityOrder, Found

\* CountSamePriority() does not count beyond the end of the queue.
LEMMA CountSamePriorityType ==
    ASSUME NEW q, NEW n \in Nat, q.length = n, NEW start \in 0 .. n,
           NEW priority
    PROVE  CountSamePriority(q, start, priority) \in 0 .. n - start
<1> DEFINE Same(k) == GetOrderPriority(q, k) = priority
           S == {c \in 0 .. n - start : start + c < n => ~Same(start + c)}
<1>1. S \in SUBSET Nat /\ n - start \in S
  OBVIOUS
<1>2. PICK c \in S : \A m \in S : c <= m
  <2> HIDE DEF S
  <2>1. QED  BY <1>1, LeastNatural
<1>3. c \in 0 .. n - start /\ (start + c < n => ~Same(start + c))
      /\ \A k \in start .. start + c - 1 : /\ k - start \in 0 .. n - start
                                           /\ start + (k - start) = k
                                           /\ k < n /\ k - start \notin S
  BY <1>2
<1>4. \A k \in start .. start + c - 1 : Same(k)
  BY <1>3
<1>5. \E m \in 0 .. n - start :
        /\ \A k \in start .. start + m - 1 : Same(k)
        /\ start + m < n => ~Same(start + m)
  BY <1>3, <1>4
<1> HIDE DEF Same
<1>6. (CHOOSE m \in 0 .. n - start :
         /\ \A k \in start .. start + m - 1 : Same(k)
         /\ start + m < n => ~Same(start + m)) \in 0 .. n - start
  BY <1>5
<1>7. QED  BY <1>6 DEF CountSamePriority, Same

LEMMA SetPriorityConsistent ==
    ASSUME NEW q, Consistent(q), NEW position \in Positions(q),
           NEW priority \in Priorities, NEW after \in -1 .. q.length - 1,
           NEW reorder, NEW r \in SetPriority(q, position, priority, after, reorder)
    PROVE  Consistent(r)
<1> DEFINE set == [q EXCEPT !.items[position] =
                     [Stamp(q, @) EXCEPT !.priority = priority]]
           order == PositionToOrder(q, position)
           before == FindPriorityOrder(set, after + 1, priority, order)
           new == IF before > order THEN before - 1 ELSE before
           moved == MoveOrder(set, order, new)
           count == CountSamePriority(moved, new, priority)
<1>1. PICK n \in Nat : n = q.length /\ Positions(q) = 0 .. n - 1
  BY PositionsType DEF Consistent, Positions
<1>2. Consistent(set) /\ set.length = n /\ set.random = q.random
  <2> DEFINE items == [q.items EXCEPT ![position] =
                         [Stamp(q, @) EXCEPT !.priority = priority]]
  <2>1. Stamp(q, q.items[position]) \in Item
        /\ Stamp(q, q.items[position]).id = q.items[position].id
    BY StampType DEF Consistent, Typed
  <2>2. [Stamp(q, q.items[position]) EXCEPT !.priority = priority] \in Item
        /\ [Stamp(q, q.items[position]) EXCEPT !.priority = priority].id
             = q.items[position].id
    BY <2>1 DEF Item
  <2>3. items \in [Positions(q) -> Item]
        /\ \A p \in Positions(q) : items[p].id = q.items[p].id
    BY <2>2 DEF Consistent, Typed
  <2>4. set = [q EXCEPT !.items = items]
    BY DEF Consistent, Typed, IsQueue, Fields
  <2> HIDE DEF items, set
  <2>5. Consistent(set)
    BY <2>3, <2>4, EditConsistent
  <2>6. set.length = q.length /\ set.random = q.random
    BY <2>4 DEF Consistent, Typed, IsQueue, Fields
  <2>7. QED  BY <1>1, <2>5, <2>6
<1>3. CASE r = q
  BY <1>3
<1>4. CASE r = set
  BY <1>2, <1>4
<1>5. CASE q.random /\ r \in ShuffleOrderFirst(moved, new, new + count)
  <2>1. order \in 0 .. n - 1
    BY <1>1, PositionToOrderInverts DEF Consistent
  <2> HIDE DEF order, set
  <2>2. after + 1 \in 0 .. n
    BY <1>1
  <2>3. before \in after + 1 .. n
    BY <1>2, <2>2, FindPriorityOrderType
  <2> HIDE DEF before
  <2>4. new \in 0 .. n - 1
    BY <1>1, <2>1, <2>2, <2>3
  <2> HIDE DEF new
  <2>5. Positions(set) = 0 .. n - 1
    BY <1>2 DEF Positions
  <2>6. Consistent(moved)
    BY <1>2, <1>5, <2>1, <2>4, <2>5, MoveOrderConsistent
  <2>7. moved.length = n /\ moved.random
    BY <1>2, <1>5 DEF MoveOrder, Consistent, Typed, IsQueue, Fields
  <2> HIDE DEF moved
  <2>8. count \in 0 .. n - new
    BY <2>4, <2>7, CountSamePriorityType
  <2> HIDE DEF count
  <2>9. new \in Nat /\ new + count \in Int /\ new + count <= moved.length
    BY <2>4, <2>7, <2>8
  <2>10. QED  BY <1>5, <2>6, <2>7, <2>9, ShuffleOrderFirstConsistent
<1>6. r \in IF q.items[position].priority = priority THEN {q}
            ELSE IF \/ ~q.random \/ ~reorder
                    \/ StaysBehind(q, position, order, priority, after)
            THEN {set} ELSE ShuffleOrderFirst(moved, new, new + count)
  BY DEF SetPriority
<1> HIDE DEF set, order, new, moved, count
<1>7. QED  BY <1>3, <1>4, <1>5, <1>6

-----------------------------------------------------------------------------
(* The inductive invariant *)

LEMMA InitConsistent == Init => Consistent(queue)
<1> SUFFICES ASSUME Init PROVE Consistent(queue)
  OBVIOUS
<1> DEFINE q == EmptyQueue
<1>1. IsQueue(q) /\ q.length = 0 /\ q.items = [p \in 0 .. -1 |-> 0]
      /\ q.order = [i \in 0 .. -1 |-> 0] /\ q.data = [id \in AllIds |-> -1]
      /\ q.next = 1 /\ q.version = 1 /\ q.random = FALSE
  BY DEF EmptyQueue, IsQueue, Fields
<1> HIDE DEF q
<1>2. Positions(q) = {} /\ Positions(q) = 0 .. -1
  BY <1>1 DEF Positions
<1>3. q.items \in [Positions(q) -> Item] /\ q.order \in [Positions(q) -> Positions(q)]
  BY <1>1, <1>2
<1>4. q.length \in 0 .. MaxLength /\ q.next \in Ids
      /\ q.version \in 1 .. MaxVersion - 1
      /\ q.data \in [AllIds -> -1 .. MaxLength - 1]
  BY <1>1, ConstantTypes
<1>5. Typed(q)
  BY <1>1, <1>3, <1>4 DEF Typed
<1>6. Ordered(q) /\ Indexed(q)
  BY <1>1, <1>2 DEF Ordered, Indexed
<1>7. QED  BY <1>5, <1>6 DEF Consistent, Init, q

\* playlist::OnModified() keeps a consistent queue consistent.
LEMMA ModifiedConsistent ==
    ASSUME NEW S, \A q \in S : Consistent(q), Modified(S)
    PROVE  Consistent(queue')
<1>1. PICK q \in S : queue' = IncrementVersion(q)
  BY DEF Modified
<1>2. QED  BY <1>1, IncrementVersionConsistent

\* Every edit of the queue but the relative move, with the version bump that
\* follows it.
LEMMA EveryEditConsistent ==
    ASSUME Consistent(queue), Edit
    PROVE  Consistent(queue')
<1>1. queue.length \in Nat /\ queue.length <= MaxLength /\ MaxLength \in Nat
  BY PositionsType, ConstantTypes DEF Consistent
<1>2. ASSUME NEW song \in Songs, NEW start \in 0 .. MaxLength - 1,
             Append(song, start)
      PROVE  Consistent(queue')
  <2> DEFINE Placed(q) == IF q.random THEN ShuffleOrderLast(q, start, q.length)
                                      ELSE {q}
             S == UNION {Placed(q) : q \in AppendItem(queue, song, 0)}
  <2>1. queue.length < MaxLength /\ 0 \in Priorities /\ start \in Nat
    BY <1>1, <1>2, ConstantTypes DEF Append, IsFull, Priorities
  <2>2. ASSUME NEW q \in AppendItem(queue, song, 0), NEW r \in Placed(q)
        PROVE  Consistent(r)
    <3>1. Consistent(q) /\ q.length = queue.length + 1
      BY <2>1, AppendConsistent
    <3>2. CASE q.random
      <4>1. r \in ShuffleOrderLast(q, start, q.length)
        BY <2>2, <3>2
      <4>2. q.length \in Int /\ q.length <= q.length
        BY <1>1, <3>1
      <4>3. QED  BY <2>1, <3>1, <3>2, <4>1, <4>2, ShuffleOrderLastConsistent
    <3>3. CASE ~q.random
      BY <2>2, <3>1, <3>3
    <3>4. QED  BY <3>2, <3>3
  <2>3. \A r \in S : Consistent(r)
    <3> HIDE DEF Placed
    <3>1. QED  BY <2>2
  <2>4. Modified(S)
    BY <1>2 DEF Append
  <2> HIDE DEF S
  <2>5. QED  BY <2>3, <2>4, ModifiedConsistent
<1>3. ASSUME NEW a, NEW b, Swap(a, b)
      PROVE  Consistent(queue')
  <2> DEFINE q == SwapPositions(queue, a, b)
             r == IF q.random THEN SwapOrders(q, PositionToOrder(q, a),
                                              PositionToOrder(q, b))
                  ELSE q
  <2>1. a \in Positions(queue) /\ b \in Positions(queue) /\ Modified({r})
    BY <1>3 DEF Swap, IsValidPosition
  <2>2. Consistent(q)
    BY <2>1, SwapPositionsConsistent
  <2>3. Positions(q) = Positions(queue)
    BY MoveItemsKeeps DEF SwapPositions
  <2> HIDE DEF q
  <2>4. PositionToOrder(q, a) \in Positions(q) /\ PositionToOrder(q, b) \in Positions(q)
    BY <2>1, <2>2, <2>3, PositionToOrderInverts DEF Consistent
  <2>5. Consistent(r)
    BY <2>2, <2>4, SwapOrdersConsistent
  <2> HIDE DEF r
  <2>6. QED  BY <2>1, <2>5, ModifiedConsistent
<1>4. ASSUME NEW i, NEW j, Choose(i, j)
      PROVE  Consistent(queue')
  BY <1>4, SwapOrdersConsistent DEF Choose, IsValidOrder
<1>5. ASSUME NEW start \in 0 .. MaxLength - 1, NEW to \in 0 .. MaxLength - 1,
             NEW end \in 1 .. MaxLength, Move(start, end, to)
      PROVE  Consistent(queue')
  <2>1. start \in Nat /\ end \in Nat /\ to \in Nat /\ start < end
        /\ end <= queue.length /\ to + end - start <= queue.length
        /\ Modified({MoveRange(queue, start, end, to)})
    BY <1>5 DEF Move, Fits
  <2>2. Consistent(MoveRange(queue, start, end, to))
    BY <2>1, MoveRangeConsistent
  <2>3. QED  BY <2>1, <2>2, ModifiedConsistent
<1>6. ASSUME NEW p, Delete(p)
      PROVE  Consistent(queue')
  <2>1. p \in Positions(queue) /\ Modified({DeletePosition(queue, p)})
    BY <1>6 DEF Delete, IsValidPosition
  <2>2. QED  BY <2>1, DeleteConsistent, ModifiedConsistent
<1>7. ASSUME Clear PROVE Consistent(queue')
  BY <1>7, ClearConsistent, ModifiedConsistent DEF Clear
<1>8. ASSUME NEW start \in 0 .. MaxLength - 1, NEW end \in 1 .. MaxLength,
             Shuffle(start, end)
      PROVE  Consistent(queue')
  <2>1. start \in Nat /\ end \in Nat /\ end <= queue.length
        /\ Modified(ShuffleRange(queue, start, end))
    BY <1>8 DEF Shuffle
  <2>2. \A r \in ShuffleRange(queue, start, end) : Consistent(r)
    BY <2>1, ShuffleRangeConsistent
  <2>3. QED  BY <2>1, <2>2, ModifiedConsistent
<1>9. ASSUME NEW p, NEW priority \in Priorities, NEW after, NEW reorder,
             Prioritize(p, priority, after, reorder)
      PROVE  Consistent(queue')
  <2>1. p \in Positions(queue) /\ after \in -1 .. queue.length - 1
        /\ Modified(SetPriority(queue, p, priority, after, reorder))
    BY <1>9 DEF Prioritize, IsValidPosition
  <2>2. \A r \in SetPriority(queue, p, priority, after, reorder) : Consistent(r)
    BY <2>1, SetPriorityConsistent
  <2>3. QED  BY <2>1, <2>2, ModifiedConsistent
<1>10. ASSUME NEW random \in BOOLEAN, SetRandom(random)
       PROVE  Consistent(queue')
  <2>1. CASE random
    <3>1. queue' \in ShuffleOrder([queue EXCEPT !.random = TRUE])
      BY <1>10, <2>1 DEF SetRandom
    <3>2. QED  BY <3>1, SetRandomConsistent, ShuffleOrderConsistent
  <2>2. CASE ~random
    <3>1. queue' = RestoreOrder([queue EXCEPT !.random = FALSE])
      BY <1>10, <2>2 DEF SetRandom
    <3>2. QED  BY <3>1, SetRandomConsistent
  <2>3. QED  BY <2>1, <2>2
<1>11. ASSUME Reshuffle PROVE Consistent(queue')
  BY <1>11, ShuffleOrderConsistent DEF Reshuffle
<1>12. QED
  BY <1>2, <1>3, <1>4, <1>5, <1>6, <1>7, <1>8, <1>9, <1>10, <1>11 DEF Edit

\* A relative destination is a position of the queue, so that a single song
\* always fits there (playlist::MoveRange).
LEMMA RelativeToPosition ==
    ASSUME NEW q, NEW n \in Nat \ {0}, q.length = n, NEW start \in Nat,
           NEW current \in Nat, NEW distance \in Nat
    PROVE  RelativeTo(q, start, current, distance) \in 0 .. n - 1
<1>1. (current + distance) % n \in 0 .. n - 1
  OBVIOUS
<1>2. QED  BY <1>1 DEF RelativeTo

\* A relative move that stays within the queue keeps it consistent.
LEMMA MoveRelativeConsistent ==
    ASSUME Consistent(queue),
           NEW start \in Nat, NEW end \in Nat, NEW distance \in Nat,
           NEW current \in Nat, MoveRelative(start, end, distance, current)
    PROVE  overrun' \in BOOLEAN /\ (~overrun' => Consistent(queue'))
<1> DEFINE to == RelativeTo(queue, start, current, distance)
<1>1. queue.length \in Nat \ {0} /\ start < end /\ end <= queue.length
  BY PositionsType DEF Consistent, MoveRelative
<1>2. to \in Nat
  BY <1>1, RelativeToPosition
<1> HIDE DEF to
<1>3. /\ overrun' = ~Fits(queue, start, end, to)
      /\ queue' = IF Fits(queue, start, end, to)
                  THEN IncrementVersion(MoveRange(queue, start, end, to))
                  ELSE queue
  BY DEF MoveRelative, to
<1>4. CASE Fits(queue, start, end, to)
  <2>1. to + end - start <= queue.length
    BY <1>1, <1>2, <1>4 DEF Fits
  <2>2. Consistent(MoveRange(queue, start, end, to))
    BY <1>1, <1>2, <2>1, MoveRangeConsistent
  <2>3. Consistent(queue')
    BY <1>3, <1>4, <2>2, IncrementVersionConsistent
  <2>4. QED  BY <1>3, <1>4, <2>3
<1>5. CASE ~Fits(queue, start, end, to)
  BY <1>3, <1>5
<1>6. QED  BY <1>4, <1>5

Inv == overrun \in BOOLEAN /\ (NoOverrun => Consistent(queue))

\* As long as no range has been moved beyond the end of the queue, the type
\* invariant, the permutation of the order list and the exact id table hold
\* together in every reachable state: none of them is inductive without the
\* others.
THEOREM QueueConsistent == Spec => []Inv
<1>1. Init => Inv
  BY InitConsistent DEF Inv, Init
<1>2. Inv /\ [Next]_qvars => Inv'
  <2>1. ASSUME Inv, ~overrun, Edit, UNCHANGED overrun PROVE Inv'
    <3>1. Consistent(queue)
      BY <2>1 DEF Inv, NoOverrun
    <3>2. Consistent(queue')
      BY <2>1, <3>1, EveryEditConsistent
    <3>3. overrun' \in BOOLEAN
      BY <2>1 DEF Inv
    <3>4. QED  BY <3>2, <3>3 DEF Inv
  <2>2. ASSUME Inv, ~overrun,
               NEW start \in 0 .. MaxLength - 1, NEW current \in 0 .. MaxLength - 1,
               NEW end \in 1 .. MaxLength, NEW distance \in 1 .. MaxLength,
               MoveRelative(start, end, distance, current)
        PROVE  Inv'
    <3>1. start \in Nat /\ current \in Nat /\ end \in Nat /\ distance \in Nat
      BY ConstantTypes
    <3>2. overrun' \in BOOLEAN /\ (~overrun' => Consistent(queue'))
      BY <2>2, <3>1, MoveRelativeConsistent DEF Inv, NoOverrun
    <3>3. QED  BY <3>2 DEF Inv, NoOverrun
  <2>3. ASSUME Inv, UNCHANGED qvars PROVE Inv'
    BY <2>3 DEF Inv, NoOverrun, qvars
  <2>4. QED  BY <2>1, <2>2, <2>3 DEF Next
<1>3. QED  BY <1>1, <1>2, PTL DEF Spec

\* The condition of the other theorems fails in one way only: by a move of two
\* or more songs to a distance from the current song (playlist::MoveRange,
\* PlaylistEdit.cxx:356).  Every other edit, and the relative move of a single
\* song, stays within the queue.
THEOREM OverrunNeedsRange ==
    Spec => [][overrun' => \E start, current \in 0 .. MaxLength - 1,
                             end, distance \in 1 .. MaxLength :
                             /\ start + 1 < end
                             /\ MoveRelative(start, end, distance, current)]_qvars
<1> DEFINE ByRange == \E start, current \in 0 .. MaxLength - 1,
                         end, distance \in 1 .. MaxLength :
                         /\ start + 1 < end
                         /\ MoveRelative(start, end, distance, current)
<1>1. Inv /\ [Next]_qvars => [overrun' => ByRange]_qvars
  <2> SUFFICES ASSUME Inv, Next, overrun' PROVE ByRange
    OBVIOUS
  <2>1. ~overrun /\ Consistent(queue)
    BY DEF Next, Inv, NoOverrun
  <2>2. PICK start \in 0 .. MaxLength - 1, current \in 0 .. MaxLength - 1,
             end \in 1 .. MaxLength, distance \in 1 .. MaxLength :
             MoveRelative(start, end, distance, current)
    BY <2>1 DEF Next
  <2>3. start \in Nat /\ current \in Nat /\ end \in Nat /\ distance \in Nat
    BY ConstantTypes
  <2>4. PICK n \in Nat : n = queue.length
    BY <2>1, PositionsType DEF Consistent
  <2>5. start < end /\ end <= n
        /\ ~Fits(queue, start, end, RelativeTo(queue, start, current, distance))
    BY <2>2, <2>4 DEF MoveRelative
  <2>6. n # 0
    BY <2>3, <2>5
  <2>7. RelativeTo(queue, start, current, distance) \in 0 .. n - 1
    BY <2>3, <2>4, <2>6, RelativeToPosition
  <2>8. start + 1 < end
    <3> DEFINE to == RelativeTo(queue, start, current, distance)
    <3>1. ~(to + (end - start) <= n) /\ to \in 0 .. n - 1
      BY <2>4, <2>5, <2>7 DEF Fits
    <3> HIDE DEF to
    <3>2. QED  BY <2>3, <2>5, <3>1
  <2>9. QED  BY <2>2, <2>8
<1>2. QED  BY <1>1, QueueConsistent, PTL DEF Spec

\* Whatever is done to the queue, its arrays, its id table and its version
\* stay within their bounds (queue/Queue.cxx, IdTable.hxx), as long as no range
\* is moved beyond its end.
THEOREM TypeCorrect == Spec => [](NoOverrun => TypeOK)
<1>1. Inv => (NoOverrun => TypeOK)
  BY DEF Inv, Consistent, Typed, TypeOK
<1>2. QED  BY <1>1, QueueConsistent, PTL

\* Every song keeps exactly one order number under every edit of the order
\* list (Queue::MoveOrder, DeletePosition, SetPriority, ShuffleOrder...) that
\* does not move a range beyond the end of the queue.
THEOREM OrderPermutation == Spec => [](NoOverrun => OrderIsPermutation)
<1>1. Inv => (NoOverrun => OrderIsPermutation)
  BY DEF Inv, Consistent, Ordered, OrderIsPermutation
<1>2. QED  BY <1>1, QueueConsistent, PTL

\* Outside random mode the order number of a song is its position, although
\* MoveRange and SwapPositions do not touch the order list then; again as long
\* as no range is moved beyond the end of the queue.
THEOREM OrderNormal == Spec => [](NoOverrun => NormalOrder)
<1>1. Inv => (NoOverrun => NormalOrder)
  BY DEF Inv, Consistent, Ordered, NormalOrder
<1>2. QED  BY <1>1, QueueConsistent, PTL

\* The id table leads from the id of every song to its position, and from
\* every other id to none (IdTable.hxx), as long as no range is moved beyond
\* the end of the queue.
THEOREM IdTableExact == Spec => [](NoOverrun => IdTableInverse)
<1>1. Inv => (NoOverrun => IdTableInverse)
  BY DEF Inv, Consistent, Indexed, IdTableInverse, PositionToId
<1>2. QED  BY <1>1, QueueConsistent, PTL

\* While the queue is not full some id is free: by the pigeonhole principle,
\* since the table is larger than the queue and its inverse.
LEMMA SomeIdFree ==
    ASSUME NEW q, Consistent(q), q.length < MaxLength
    PROVE  \E id \in Ids : q.data[id] < 0
<1> SUFFICES ASSUME \A id \in Ids : ~(q.data[id] < 0) PROVE FALSE
  OBVIOUS
<1> DEFINE f == [id \in Ids |-> q.data[id]]
<1>1. \A id \in Ids : id \in AllIds /\ q.data[id] \in -1 .. MaxLength - 1
  BY DEF Ids, Consistent, Typed
<1>2. \A id \in Ids : q.data[id] \in Positions(q) /\ q.items[q.data[id]].id = id
  <2>1. \A id \in Ids : q.data[id] >= 0
    BY <1>1, ConstantTypes
  <2>2. QED  BY <1>1, <2>1, Zenon DEF Consistent, Indexed
<1>3. f \in [Ids -> Positions(q)] /\ \A x, y \in Ids : f[x] = f[y] => x = y
  BY <1>2
<1>4. PICK n \in Nat : n = q.length /\ n < MaxLength
  BY PositionsType DEF Consistent
<1>5. IsFiniteSet(Positions(q)) /\ Cardinality(Positions(q)) = n
  <2>1. 0 \in Int /\ n - 1 \in Int /\ Positions(q) = 0 .. n - 1
    BY <1>4 DEF Positions
  <2>2. IsFiniteSet(0 .. n - 1)
        /\ Cardinality(0 .. n - 1) = IF 0 > n - 1 THEN 0 ELSE n - 1 - 0 + 1
    BY <2>1, FS_Interval
  <2>3. QED  BY <2>1, <2>2
<1>6. IsFiniteSet(Ids) /\ Cardinality(Ids) = TableSize - 1
  <2>1. 1 \in Int /\ TableSize - 1 \in Int /\ TableSize - 1 >= 1
    BY ConstantTypes
  <2>2. IsFiniteSet(1 .. TableSize - 1)
        /\ Cardinality(1 .. TableSize - 1) = IF 1 > TableSize - 1 THEN 0
                                             ELSE TableSize - 1 - 1 + 1
    BY <2>1, FS_Interval
  <2>3. QED  BY <2>1, <2>2, ConstantTypes
<1>7. Cardinality(Positions(q)) < Cardinality(Ids)
  BY <1>4, <1>5, <1>6, ConstantTypes
<1> HIDE DEF f
<1>8. \E x, y \in Ids : x # y /\ f[x] = f[y]
  BY <1>3, <1>5, <1>6, <1>7, FS_PigeonHole
<1>9. QED  BY <1>3, <1>8

\* IdTable::GenerateId(), which asserts that it wraps at most once, finds an
\* id for every song that the queue has room for, as long as no range is moved
\* beyond the end of the queue.
THEOREM IdAvailable == Spec => [](NoOverrun => FreeId)
<1>1. ASSUME Inv, NoOverrun, ~IsFull(queue) PROVE GenerateId(queue) # {}
  <2> DEFINE Free == {id \in Ids : queue.data[id] < 0}
             Above == {id \in Free : queue.next <= id}
  <2>1. queue.length < MaxLength /\ queue.next \in Ids
    BY <1>1, PositionsType, ConstantTypes DEF Inv, Consistent, Typed, IsFull
  <2>2. Free # {}
    BY <1>1, <2>1, SomeIdFree DEF Inv
  <2>3. Ids \in SUBSET Nat /\ queue.next \in Nat
    BY <2>1, ConstantTypes
  <2>4. \A id \in Ids : queue.data[id] \in Int
    BY <1>1, ConstantTypes DEF Inv, Consistent, Typed, Ids
  <2>5. CASE Above # {}
    <3>1. PICK id \in Above : \A m \in Above : id <= m
      BY <2>3, <2>5, LeastNatural
    <3>2. id \in Ids /\ queue.data[id] < 0 /\ queue.next <= id
      OBVIOUS
    <3>3. \A other \in Ids : TriedBefore(queue, id, other) => queue.data[other] >= 0
      BY <2>3, <2>4, <3>1, <3>2 DEF TriedBefore
    <3>4. QED  BY <3>2, <3>3 DEF GenerateId
  <2>6. CASE Above = {}
    <3>1. PICK id \in Free : \A m \in Free : id <= m
      BY <2>2, <2>3, LeastNatural
    <3>2. id \in Ids /\ queue.data[id] < 0 /\ ~(queue.next <= id)
      BY <2>6
    <3>3. \A other \in Ids : TriedBefore(queue, id, other) => queue.data[other] >= 0
      BY <2>3, <2>4, <2>6, <3>1, <3>2 DEF TriedBefore
    <3>4. QED  BY <3>2, <3>3 DEF GenerateId
  <2>7. QED  BY <2>5, <2>6
<1>2. Inv => (NoOverrun => FreeId)
  BY <1>1 DEF FreeId
<1>3. QED  BY <1>2, QueueConsistent, PTL
=============================================================================
