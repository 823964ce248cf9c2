---------------------------- MODULE QueueMachine ----------------------------
(***************************************************************************)
(* The queue under every edit that the playlist makes of it, each with the *)
(* conditions its callers in queue/Playlist*.cxx check first and with the  *)
(* IncrementVersion() of playlist::OnModified() that follows it.           *)
(*                                                                         *)
(* One caller does not check what the queue relies on: playlist::MoveRange *)
(* computes a destination relative to the current song after its check of  *)
(* the bounds, and may move a range beyond the end of the queue.  "overrun"*)
(* records that this has happened: the contents of the tables are then     *)
(* undefined, and the model ends.                                          *)
(***************************************************************************)
EXTENDS Queue

VARIABLES queue, overrun

qvars == <<queue, overrun>>

Init == queue = EmptyQueue /\ overrun = FALSE

\* playlist::OnModified() after an edit with the outcomes S.
Modified(S) == \E q \in S : queue' = IncrementVersion(q)

\* playlist::AppendSong; in random mode the song is shuffled into the order
\* numbers from start on, which are not played yet.
Append(song, start) ==
    /\ ~IsFull(queue)
    /\ start \in 0 .. queue.length
    /\ Modified(UNION {IF q.random THEN ShuffleOrderLast(q, start, q.length)
                                   ELSE {q} : q \in AppendItem(queue, song, 0)})

\* playlist::SwapPositions; in random mode the order entries follow the songs.
Swap(a, b) ==
    /\ IsValidPosition(queue, a) /\ IsValidPosition(queue, b)
    /\ LET q == SwapPositions(queue, a, b)
       IN Modified({IF q.random
                    THEN SwapOrders(q, PositionToOrder(q, a),
                                    PositionToOrder(q, b))
                    ELSE q})

\* playlist::MoveRange to an absolute position, which is checked.
Move(start, end, to) ==
    /\ start < end /\ end <= queue.length
    /\ Fits(queue, start, end, to)
    /\ start # to
    /\ Modified({MoveRange(queue, start, end, to)})

\* playlist::MoveRange to a distance from the current song, which is at
\* position "current"; only the distance is checked.
MoveRelative(start, end, distance, current) ==
    LET to == RelativeTo(queue, start, current, distance)
    IN /\ start < end /\ end <= queue.length
       /\ distance <= queue.length
       /\ IsValidPosition(queue, current) /\ current \notin start .. end - 1
       /\ overrun' = ~Fits(queue, start, end, to)
       /\ queue' = IF Fits(queue, start, end, to)
                   THEN IncrementVersion(MoveRange(queue, start, end, to))
                   ELSE queue

Delete(p) ==
    /\ IsValidPosition(queue, p)
    /\ Modified({DeletePosition(queue, p)})

Clear == Modified({ClearQueue(queue)})

\* playlist::Shuffle
Shuffle(start, end) ==
    /\ start + 1 < end /\ end <= queue.length
    /\ Modified(ShuffleRange(queue, start, end))

\* playlist::SetPriorityRange for one song, and playlist::SongStarted.
Prioritize(p, priority, after, reorder) ==
    /\ IsValidPosition(queue, p)
    /\ after \in -1 .. queue.length - 1
    /\ Modified(SetPriority(queue, p, priority, after, reorder))

\* playlist::PlayPosition swaps the chosen song with the current one.
Choose(i, j) ==
    /\ queue.random
    /\ IsValidOrder(queue, i) /\ IsValidOrder(queue, j)
    /\ queue' = SwapOrders(queue, i, j)

\* playlist::SetRandom
SetRandom(random) ==
    /\ queue.random # random
    /\ LET q == [queue EXCEPT !.random = random]
       IN queue' \in IF random THEN ShuffleOrder(q) ELSE {RestoreOrder(q)}

\* playlist::Stop and PlayNext shuffle again in random mode.
Reshuffle == queue.random /\ queue' \in ShuffleOrder(queue)

Edit ==
    \/ \E song \in Songs, start \in 0 .. MaxLength - 1 : Append(song, start)
    \/ \E a, b \in 0 .. MaxLength - 1 : Swap(a, b) \/ Choose(a, b)
    \/ \E start, to \in 0 .. MaxLength - 1, end \in 1 .. MaxLength :
         Move(start, end, to)
    \/ \E p \in 0 .. MaxLength - 1 : Delete(p)
    \/ Clear
    \/ \E start \in 0 .. MaxLength - 1, end \in 1 .. MaxLength :
         Shuffle(start, end)
    \/ \E p \in 0 .. MaxLength - 1, priority \in Priorities,
          after \in -1 .. MaxLength - 1, reorder \in BOOLEAN :
         Prioritize(p, priority, after, reorder)
    \/ \E random \in BOOLEAN : SetRandom(random)
    \/ Reshuffle

Next ==
    /\ ~overrun
    /\ \/ Edit /\ UNCHANGED overrun
       \/ \E start, current \in 0 .. MaxLength - 1, end, distance \in 1 .. MaxLength :
            MoveRelative(start, end, distance, current)

Spec == Init /\ [][Next]_qvars

-----------------------------------------------------------------------------
(* Properties *)

\* The arrays, the id table and the version stay within the bounds that the
\* code indexes them with; the next id and the version wrap in time.
TypeOK ==
    /\ queue.length \in 0 .. MaxLength
    /\ queue.items \in [Positions(queue) -> Item]
    /\ queue.order \in [Positions(queue) -> Positions(queue)]
    /\ queue.data \in [AllIds -> -1 .. MaxLength - 1]
    /\ queue.next \in Ids
    /\ queue.version \in 1 .. MaxVersion - 1
    /\ queue.random \in BOOLEAN

\* Every song has exactly one order number: the order list, which every edit
\* of the queue patches in place, never loses or repeats a position, so that
\* PositionToOrder() terminates.
OrderIsPermutation ==
    \A i, j \in Positions(queue) : queue.order[i] = queue.order[j] => i = j

\* Queue.hxx:42: the order number "only differs from "position" in random
\* mode", although MoveRange and SwapPositions skip the order list then.
NormalOrder ==
    ~queue.random => \A i \in Positions(queue) : queue.order[i] = i

\* The id table is the inverse of the ids of the items: a client's id leads
\* to that song and a deleted song's id to none, whatever moved in between.
IdTableInverse ==
    /\ \A p \in Positions(queue) : queue.data[PositionToId(queue, p)] = p
    /\ \A id \in AllIds :
         queue.data[id] >= 0 => /\ queue.data[id] \in Positions(queue)
                                /\ PositionToId(queue, queue.data[id]) = id

\* The loop of IdTable::GenerateId() finds a free id whenever there is room
\* for one more song.
FreeId == ~IsFull(queue) => GenerateId(queue) # {}

\* Is the order list sorted by descending priority from order number i on?
Descending(q, i) ==
    \A j, k \in i .. q.length - 1 :
        j < k => GetOrderPriority(q, j) >= GetOrderPriority(q, k)

\* test_queue_priority.cxx (check_descending_priority): changing a priority
\* keeps the songs after the current one sorted by priority, even when the
\* song comes from before the current one and the current order number slips.
PriorityKeepsSorted ==
    [][\A p \in Positions(queue), priority \in Priorities,
          after \in -1 .. queue.length - 1 :
         LET Now(q) == IF after < 0 THEN -1
                       ELSE PositionToOrder(q, queue.order[after])
         IN (/\ queue.random /\ queue'.length = queue.length
             /\ queue.items[p].priority # priority
             /\ queue'.items[p].priority = priority
             /\ Descending(queue, after + 1)
             /\ Prioritize(p, priority, after, TRUE))
            => Descending(queue', Now(queue') + 1)]_queue

\* A range of songs never moves beyond the end of the queue: IdTable::Move(),
\* called for every item that is moved, has "assert(data[id] >= 0)", and an
\* item beyond the end, never written or left over, need not be in the table.
NoOverrun == ~overrun
=============================================================================
