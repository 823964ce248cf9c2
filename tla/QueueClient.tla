----------------------------- MODULE QueueClient -----------------------------
(***************************************************************************)
(* A client that keeps a copy of the queue with the "plchanges" command    *)
(* (queue/QueuePrint.cxx): it remembers the version it last saw and is     *)
(* sent the positions that are newer.  The version number wraps, so the    *)
(* client is assumed to poll before the version has gone once around.      *)
(***************************************************************************)
EXTENDS QueueMachine

VARIABLE client  \* version last seen, copy, version increments since then

cvars == <<queue, overrun, client>>

\* What a client sees of the item at position p.
Shown(q, p) == <<q.items[p].id, q.items[p].priority>>

Contents(q) == [p \in Positions(q) |-> Shown(q, p)]

\* queue_print_changes_info: the copy after applying what the server sends;
\* a position beyond the old copy that is not sent stays unknown.
PlChanges(q, version, copy) ==
    [p \in Positions(q) |-> IF IsNewerAtPosition(q, p, version)
                            THEN Shown(q, p)
                            ELSE IF p \in DOMAIN copy THEN copy[p]
                            ELSE <<0, 0>>]

ClientInit ==
    /\ Init
    /\ client = [version |-> queue.version, copy |-> Contents(queue), lag |-> 0]

Poll ==
    /\ client' = [version |-> queue.version,
                  copy |-> PlChanges(queue, client.version, client.copy),
                  lag |-> 0]
    /\ UNCHANGED <<queue, overrun>>

\* The client polls at least once in MaxVersion - 2 versions.
EditQueue ==
    /\ client.lag + 1 < MaxVersion - 1
    /\ Next
    /\ client' = [client EXCEPT !.lag = IF queue'.version = queue.version
                                        THEN @ ELSE @ + 1]

ClientNext == Poll \/ EditQueue

ClientSpec == ClientInit /\ [][ClientNext]_cvars

-----------------------------------------------------------------------------

\* Polling makes the client's copy exact at any time: no edit forgets to
\* stamp a position it writes, across the wrap of the version number that
\* Queue.hxx:238 says "handles integer overflow well".
PlChangesExact ==
    PlChanges(queue, client.version, client.copy) = Contents(queue)
=============================================================================
