------------------------------- MODULE Queue -------------------------------
(***************************************************************************)
(* The song queue (queue/Queue.cxx, Queue.hxx, IdTable.hxx) as operators   *)
(* on a record q.  A song is addressed by its position, by its id and by   *)
(* its order number; the three are kept consistent by hand in the code.    *)
(*                                                                         *)
(*   q.length, q.items   the array "items": position -> item               *)
(*   q.order             order number -> position                          *)
(*   q.data, q.next      the id table: id -> position or -1, next id       *)
(*   q.version           the version that clients poll                     *)
(*   q.repeat, q.single, q.consume, q.random                               *)
(*                                                                         *)
(* Arrays are functions whose domain is the part of the array in use.  An  *)
(* operator that draws random numbers denotes the set of its outcomes.     *)
(***************************************************************************)
EXTENDS Integers, FiniteSets

CONSTANTS Songs,       \* song URIs
          MaxLength,   \* max_length, the configured capacity
          HashMult,    \* HASH_MULT, ids reserved per slot (4 in the code)
          MaxVersion,  \* where the version wraps (2^31 - 1 in the code)
          MaxPriority  \* highest priority (255 in the code)

ASSUME QueueAssumption ==
    /\ MaxLength \in Nat \ {0}
    /\ HashMult \in Nat \ {0, 1}
    /\ MaxVersion \in Nat \ {0, 1}
    /\ MaxPriority \in Nat

\* The size of the id table; id 0 is never given out.
TableSize == MaxLength * HashMult

AllIds == 0 .. TableSize - 1
Ids == AllIds \ {0}
Priorities == 0 .. MaxPriority

Item == [song : Songs, id : Ids, version : Nat, priority : Priorities]

Positions(q) == 0 .. q.length - 1

EmptyQueue ==
    [length |-> 0, items |-> [p \in 0 .. -1 |-> 0],
     order |-> [i \in 0 .. -1 |-> 0],
     data |-> [id \in AllIds |-> -1], next |-> 1, version |-> 1,
     repeat |-> FALSE, single |-> FALSE, consume |-> FALSE, random |-> FALSE]

-----------------------------------------------------------------------------
(* Lookup *)

IsEmpty(q) == q.length = 0
IsFull(q) == q.length >= MaxLength
IsValidPosition(q, p) == p \in Positions(q)
IsValidOrder(q, i) == i \in Positions(q)
OrderToPosition(q, i) == q.order[i]
PositionToId(q, p) == q.items[p].id
IdToPosition(q, id) == IF id \in AllIds THEN q.data[id] ELSE -1

\* The first order number whose entry is this position.
PositionToOrder(q, p) ==
    CHOOSE i \in Positions(q) :
        /\ q.order[i] = p
        /\ \A j \in 0 .. i - 1 : q.order[j] # p

GetOrderPriority(q, i) == q.items[q.order[i]].priority

\* Mutant: a change in the version last seen is taken for seen.
IsNewerStrictly(q, p, v) ==
    v > q.version \/ q.items[p].version > v \/ q.items[p].version = 0

\* Must a client that last saw version v be told about position p?
IsNewerAtPosition(q, p, v) ==
    \/ v > q.version
    \/ q.items[p].version >= v
    \/ q.items[p].version = 0

\* The order number to play after i, or -1 for the end of the queue.
GetNextOrder(q, i) ==
    IF q.single /\ q.repeat /\ ~q.consume THEN i
    ELSE IF i + 1 < q.length THEN i + 1
    ELSE IF q.repeat /\ (i > 0 \/ ~q.consume) THEN 0
    ELSE -1

-----------------------------------------------------------------------------
(* Versions *)

IncrementVersion(q) ==
    IF q.version + 1 >= MaxVersion
    THEN [q EXCEPT !.items = [p \in Positions(q) |->
                                 [q.items[p] EXCEPT !.version = 0]],
                   !.version = 1]
    ELSE [q EXCEPT !.version = q.version + 1]

\* An item that is written gets the current version.
Stamp(q, item) == [item EXCEPT !.version = q.version]

ModifyAtPosition(q, p) == [q EXCEPT !.items[p] = Stamp(q, q.items[p])]

-----------------------------------------------------------------------------
(* The id table *)

\* Ids are tried from q.next upwards, wrapping from the last one to 1.
TriedBefore(q, id, other) ==
    IF q.next <= id THEN q.next <= other /\ other < id
                    ELSE q.next <= other \/ other < id

\* Mutant: the search does not wrap around.
GenerateIdUpwards(q) ==
    {id \in Ids : /\ q.next <= id /\ q.data[id] < 0
                  /\ \A other \in q.next .. id - 1 : q.data[other] >= 0}

\* GenerateId: the first free id; a set with at most one element.
GenerateId(q) ==
    {id \in Ids : /\ q.data[id] < 0
                  /\ \A other \in Ids : TriedBefore(q, id, other)
                                        => q.data[other] >= 0}

\* Mutant: the next id does not wrap.
NextAfterUnwrapped(id) == id + 1

NextAfter(id) == IF id + 1 = TableSize THEN 1 ELSE id + 1

\* Mutant: the id table is not told of the move.
MoveNoIds(data, items, W) == data

\* id_table.Move() for every position in W after the items were rewritten.
MoveIds(data, items, W) ==
    [id \in AllIds |-> IF \E p \in W : items[p].id = id
                       THEN CHOOSE p \in W : items[p].id = id
                       ELSE data[id]]

-----------------------------------------------------------------------------
(* Editing the list of songs *)

\* Append: the new item goes to the end of both arrays.
AppendItem(q, song, priority) ==
    {[q EXCEPT
        !.length = q.length + 1,
        !.items = [p \in 0 .. q.length |->
                     IF p < q.length THEN q.items[p]
                     ELSE [song |-> song, id |-> id, version |-> q.version,
                           priority |-> priority]],
        !.order = [i \in 0 .. q.length |->
                     IF i < q.length THEN q.order[i] ELSE q.length],
        !.data = [q.data EXCEPT ![id] = q.length],
        !.next = NextAfter(id)] : id \in GenerateId(q)}

\* Every position p in the domain of src receives the item at src[p].
MoveItems(q, src) ==
    LET W == DOMAIN src
        items == [p \in Positions(q) |-> IF p \in W
                                         THEN Stamp(q, q.items[src[p]])
                                         ELSE q.items[p]]
    IN [q EXCEPT !.items = items, !.data = MoveIds(q.data, items, W)]

SwapPositions(q, a, b) ==
    MoveItems(q, [p \in {a, b} |-> IF p = a THEN b ELSE a])

\* Where MoveRange(start, end, to) puts the song at position p.
MovedTo(start, end, to, p) ==
    IF end <= p /\ p < to + end - start THEN p - (end - start)
    ELSE IF to <= p /\ p < start THEN p + (end - start)
    ELSE IF start <= p /\ p < end THEN p + to - start
    ELSE p

\* The positions that MoveRange writes.
MoveWindow(start, end, to) ==
    IF to > start THEN start .. to + end - start - 1 ELSE to .. end - 1

\* Is there room for the range at its destination?  Queue::MoveRange() relies
\* on it: it reads and writes items beyond the end of the queue otherwise.
Fits(q, start, end, to) == to + (end - start) <= q.length

\* Where playlist::MoveRange puts a range whose destination is given as a
\* distance from the current song's position: one less if the range starts
\* before it, whatever the length of the range.
RelativeTo(q, start, current, distance) ==
    LET to == (current + distance) % q.length
    IN IF start < to THEN to - 1 ELSE to

MoveRange(q, start, end, to) ==
    LET moved == MoveItems(q, [p \in MoveWindow(start, end, to) |->
                                 MovedTo(to, to + end - start, start, p)])
    IN IF q.random
       THEN [moved EXCEPT !.order = [i \in Positions(q) |->
                                       MovedTo(start, end, to, q.order[i])]]
       ELSE moved

\* Mutant: the order list is not renumbered after a deletion.
DeleteUnnumbered(q, position) ==
    LET n == q.length - 1
        items == [p \in 0 .. n - 1 |-> IF p < position THEN q.items[p]
                                       ELSE Stamp(q, q.items[p + 1])]
        erased == [q.data EXCEPT ![PositionToId(q, position)] = -1]
    IN [q EXCEPT
          !.length = n, !.items = items,
          !.data = MoveIds(erased, items, position .. n - 1),
          !.order = [i \in 0 .. n - 1 |-> IF q.order[i] < n THEN q.order[i]
                                          ELSE n - 1]]

DeletePosition(q, position) ==
    LET order == PositionToOrder(q, position)
        n == q.length - 1
        items == [p \in 0 .. n - 1 |-> IF p < position THEN q.items[p]
                                       ELSE Stamp(q, q.items[p + 1])]
        erased == [q.data EXCEPT ![PositionToId(q, position)] = -1]
        shifted == [i \in 0 .. n - 1 |-> IF i < order THEN q.order[i]
                                         ELSE q.order[i + 1]]
    IN [q EXCEPT
          !.length = n,
          !.items = items,
          !.data = MoveIds(erased, items, position .. n - 1),
          !.order = [i \in 0 .. n - 1 |-> IF shifted[i] > position
                                          THEN shifted[i] - 1
                                          ELSE shifted[i]]]

\* Clear erases the id of every item; the next id is not reset.
ClearQueue(q) ==
    [q EXCEPT
       !.length = 0,
       !.items = [p \in 0 .. -1 |-> 0],
       !.order = [i \in 0 .. -1 |-> 0],
       !.data = [id \in AllIds |->
                   IF \E p \in Positions(q) : q.items[p].id = id
                   THEN -1 ELSE q.data[id]]]

\* ShuffleRange: every item of the range is written, in any arrangement.
ShuffleRange(q, start, end) ==
    {MoveItems(q, src) :
       src \in {f \in [start .. end - 1 -> start .. end - 1] :
                  \A a, b \in start .. end - 1 : f[a] = f[b] => a = b}}

-----------------------------------------------------------------------------
(* Editing the order list *)

\* Mutant: the order list is left shuffled.
RestoreNothing(q) == q

RestoreOrder(q) == [q EXCEPT !.order = [i \in Positions(q) |-> i]]

SwapOrders(q, i, j) ==
    [q EXCEPT !.order = [k \in Positions(q) |-> IF k = i THEN q.order[j]
                                                ELSE IF k = j THEN q.order[i]
                                                ELSE q.order[k]]]

MoveOrder(q, from, to) ==
    [q EXCEPT !.order =
       [i \in Positions(q) |->
          IF i = to THEN q.order[from]
          ELSE IF from <= i /\ i < to THEN q.order[i + 1]
          ELSE IF to < i /\ i <= from THEN q.order[i - 1]
          ELSE q.order[i]]]

\* ShuffleOrderRangeWithPriority on the whole list: sorting by priority and
\* shuffling each group yields any arrangement of descending priority.
ShuffleOrder(q) ==
    {[q EXCEPT !.order = o] :
       o \in {f \in [Positions(q) -> Positions(q)] :
                /\ \A i, j \in Positions(q) : f[i] = f[j] => i = j
                /\ \A i, j \in Positions(q) :
                     i < j => q.items[f[i]].priority >= q.items[f[j]].priority}}

ShuffleOrderFirst(q, start, end) ==
    {SwapOrders(q, start, i) : i \in start .. end - 1}

ShuffleOrderLast(q, start, end) ==
    {SwapOrders(q, end - 1, i) : i \in start .. end - 1}

-----------------------------------------------------------------------------
(* Priorities *)

\* Mutant: the comparison is the wrong way round.
FindHigherOrder(q, start, priority, exclude) ==
    CHOOSE i \in start .. q.length :
        LET Found(k) == GetOrderPriority(q, k) >= priority /\ k # exclude
        IN /\ i < q.length => Found(i)
           /\ \A k \in start .. i - 1 : ~Found(k)

\* The first order number >= start of at most this priority, or the length.
FindPriorityOrder(q, start, priority, exclude) ==
    CHOOSE i \in start .. q.length :
        LET Found(k) == GetOrderPriority(q, k) <= priority /\ k # exclude
        IN /\ i < q.length => Found(i)
           /\ \A k \in start .. i - 1 : ~Found(k)

\* How many songs from order number start on have exactly this priority.
CountSamePriority(q, start, priority) ==
    CHOOSE n \in 0 .. q.length - start :
        /\ \A k \in start .. start + n - 1 : GetOrderPriority(q, k) = priority
        /\ start + n < q.length => GetOrderPriority(q, start + n) # priority

\* Has the song already been played, without a reason to play it again?
StaysBehind(q, position, order, priority, after) ==
    /\ after >= 0
    /\ \/ order = after
       \/ /\ order < after
          /\ \/ priority <= q.items[position].priority
             \/ priority <= q.items[q.order[after]].priority

SetPriority(q, position, priority, after, reorder) ==
    LET set == [q EXCEPT !.items[position] =
                  [Stamp(q, @) EXCEPT !.priority = priority]]
        order == PositionToOrder(q, position)
        before == FindPriorityOrder(set, after + 1, priority, order)
        new == IF before > order THEN before - 1 ELSE before
        moved == MoveOrder(set, order, new)
    IN IF q.items[position].priority = priority THEN {q}
       ELSE IF \/ ~q.random \/ ~reorder
               \/ StaysBehind(q, position, order, priority, after)
       THEN {set}
       ELSE ShuffleOrderFirst(moved, new,
                              new + CountSamePriority(moved, new, priority))
=============================================================================
