------------------------------ MODULE Playlist ------------------------------
(***************************************************************************)
(* The playlist (queue/Playlist.cxx, PlaylistControl.cxx, PlaylistEdit.cxx,*)
(* PlaylistTag.cxx, PlaylistUpdate.cxx): the queue, the current and the    *)
(* queued song, and the dialogue with the player thread.  Every method     *)
(* runs in the main thread, but it holds no lock across its calls of the   *)
(* player, which moves on in between; so a method is an operator from a    *)
(* state s of the program to the set of its outcomes.                      *)
(*                                                                         *)
(*   s.q       the queue (module Queue)                                    *)
(*   s.pl      the fields of struct playlist, and fault, the assertion     *)
(*             that failed ("": none; the program has ended otherwise)     *)
(*   s.c       the player (module PlayerControl)                           *)
(*   s.thrown  is an exception propagating?                                *)
(*                                                                         *)
(* A pointer to a song of the queue is the song's id, 0 for nullptr.       *)
(***************************************************************************)
EXTENDS PlayerControl, Sequences

LOCAL Ext == INSTANCE SequencesExt

\* Run Op in every outcome of S that has neither thrown nor failed.
Then(S, Op(_)) ==
    UNION {IF s.thrown \/ s.pl.fault # "" THEN {s} ELSE Op(s) : s \in S}

\* catch (...): what follows is run whatever was thrown.
Caught(S) == {[s EXCEPT !.thrown = FALSE] : s \in S}

\* assert(): if it fails, the program ends, and the player with it.
Require(s, holds, name) ==
    {IF holds THEN s
     ELSE [s EXCEPT !.pl.fault = name, !.c = StoppedPlayer(s.c.broken)]}

\* The player has done C.
Player(s, C) == {[s EXCEPT !.c = c] : c \in C}

\* The player has been sent a song; O are the outcomes of the call.
PlayerTry(s, O) == {[s EXCEPT !.c = o.c, !.thrown = o.thrown] : o \in O}

\* The id of the song with order number i.
GetOrder(s, i) == PositionToId(s.q, OrderToPosition(s.q, i))

GetCurrentPosition(s) ==
    IF s.pl.current >= 0 THEN OrderToPosition(s.q, s.pl.current) ELSE -1

GetQueuedSong(s) ==
    IF s.pl.playing /\ s.pl.queued >= 0 THEN GetOrder(s, s.pl.queued) ELSE 0

OnModified(s) ==
    {IF s.pl.bulk_edit THEN [s EXCEPT !.pl.bulk_modified = TRUE]
                       ELSE [s EXCEPT !.q = IncrementVersion(@)]}

\* Mutant: current keeps its order number.
ReshuffleBlindly(s) == {[s EXCEPT !.q = q] : q \in ShuffleOrder(s.q)}

\* queue.ShuffleOrder(), and current still denotes the same song.
ReshuffleOrder(s) ==
    {[s EXCEPT !.q = q,
               !.pl.current = PositionToOrder(q, GetCurrentPosition(s))] :
       q \in ShuffleOrder(s.q)}

-----------------------------------------------------------------------------
(* Playlist.cxx: the queued song *)

\* Only the player itself, which moves on meanwhile, clears its next song.
QueueSongOrder(s, order) ==
    LET t == [s EXCEPT !.pl.queued = order]
    IN Player(t, LockEnqueueSong(s.c, GetOrder(s, order)))
       \cup (IF s.c.next # 0 THEN Require(t, FALSE, "EnqueueSongLocked") ELSE {})

\* Reset the priority of the song that starts.
SongStarted(s) ==
    Then(Require(s, s.pl.current >= 0, "SongStarted"), LAMBDA t :
      LET p == GetCurrentPosition(t)
      IN IF t.q.items[p].priority = 0 THEN {t}
         ELSE Then({[t EXCEPT !.q = q] : q \in SetPriority(t.q, p, 0, -1, FALSE)},
                   OnModified))

\* Mutant: the song that is cancelled stays queued if no other takes its place.
UpdateQueuedStale(s, prev) ==
    LET next == IF s.pl.current >= 0 THEN GetNextOrder(s.q, s.pl.current) ELSE 0
        song == IF next >= 0 THEN GetOrder(s, next) ELSE 0
    IN IF ~s.pl.playing \/ (prev = 0 /\ s.pl.bulk_edit) THEN {s}
       ELSE Then(IF prev # 0 /\ song # prev THEN Player(s, LockCancel(s.c)) ELSE {s},
                 LAMBDA t : IF next < 0 THEN {t}
                            ELSE IF song # prev THEN QueueSongOrder(t, next)
                            ELSE {[t EXCEPT !.pl.queued = next]})

\* Send the player the song that comes after the current one; prev is the
\* song that it was sent before.
UpdateQueuedSong(s, prev) ==
    LET holds == ~IsEmpty(s.q) /\ (s.pl.queued < 0 <=> prev = 0)
        next == IF s.pl.current >= 0 THEN GetNextOrder(s.q, s.pl.current) ELSE 0
        Requeue(t) ==
            LET song == IF next >= 0 THEN GetOrder(t, next) ELSE 0
                Forget(u) == IF prev # 0 /\ song # prev
                             THEN Player([u EXCEPT !.pl.queued = -1],
                                         LockCancel(u.c))
                             ELSE {u}
                Enqueue(u) == IF next < 0 THEN {u}
                              ELSE IF song # prev THEN QueueSongOrder(u, next)
                              ELSE {[u EXCEPT !.pl.queued = next]}
            IN Then(Forget(t), Enqueue)
    IN IF ~s.pl.playing \/ (prev = 0 /\ s.pl.bulk_edit) THEN {s}
       ELSE Then(Then(Require(s, holds, "UpdateQueuedSong"),
                      LAMBDA t : IF next = 0 /\ t.q.random /\ ~t.q.single
                                 THEN ReshuffleOrder(t) ELSE {t}),
                 Requeue)

\* Mutant: the queued song is not forgotten.
PlayOrderQueued(s, order) ==
    Then(PlayerTry([s EXCEPT !.pl.playing = TRUE, !.pl.current = order],
                   Play(s.c, GetOrder(s, order))),
         SongStarted)

\* Play the song with this order number.
PlayOrder(s, order) ==
    Then(PlayerTry([s EXCEPT !.pl.playing = TRUE, !.pl.queued = -1,
                             !.pl.current = order],
                   Play(s.c, GetOrder(s, order))),
         SongStarted)

\* Mutant: the player is not told to stop.
StopAlone(s) ==
    IF ~s.pl.playing THEN {s}
    ELSE LET t == [s EXCEPT !.pl.queued = -1, !.pl.playing = FALSE]
         IN IF t.q.random THEN ReshuffleOrder(t) ELSE {t}

Stop(s) ==
    IF ~s.pl.playing THEN {s}
    ELSE Then(Then(Require(s, s.pl.current >= 0, "Stop"), LAMBDA t :
                Player([t EXCEPT !.pl.queued = -1, !.pl.playing = FALSE],
                       LockStop(t.c))),
              LAMBDA t : IF t.q.random THEN ReshuffleOrder(t) ELSE {t})

-----------------------------------------------------------------------------
(* PlaylistEdit.cxx: deleting *)

\* Mutant: a paused player is not stopped when its song goes.
DeletePaused(s, p) ==
    LET order == PositionToOrder(s.q, p)
    IN {[s EXCEPT !.q = DeletePosition(s.q, p),
                  !.pl.playing = @ /\ s.pl.current # order,
                  !.pl.current = IF @ = order THEN -1
                                 ELSE IF @ > order THEN @ - 1 ELSE @]}

\* DeleteInternal: if the current song goes, the next one is played unless
\* the player is paused.  The queued song is updated by the callers.
DeleteInternal(s, p) ==
    LET order == PositionToOrder(s.q, p)
        next == GetNextOrder(s.q, order)
        Replace(t, paused) ==
            IF next >= 0 /\ next # order /\ ~paused
            THEN Caught(PlayOrder(t, next))
            ELSE Player([t EXCEPT !.pl.playing = FALSE,
                           !.pl.current = IF next = order THEN -1 ELSE next],
                        LockStop(t.c))
        Remove(t) ==
            {[t EXCEPT !.q = DeletePosition(t.q, p),
                       !.pl.current = IF @ > order THEN @ - 1 ELSE @]}
    IN Then(IF s.pl.current # order THEN {s}
            ELSE IF ~s.pl.playing THEN {[s EXCEPT !.pl.current = -1]}
            ELSE UNION {Replace([s EXCEPT !.c = c], c.state = "PAUSE") :
                          c \in Moves[s.c]},
            Remove)

\* Mutant: the song stays queued when it is played at once.
StillQueuedAlways(s, p, prev) == prev

\* queued_song after DeleteInternal(s, p).
StillQueued(s, p, prev) ==
    IF s.pl.playing /\ s.pl.current = PositionToOrder(s.q, p) THEN 0 ELSE prev

\* playlist::DeletePosition
DeleteSong(s, p) ==
    Then(Then(DeleteInternal(s, p), LAMBDA t :
           UpdateQueuedSong(t, StillQueued(s, p, GetQueuedSong(s)))),
         OnModified)

-----------------------------------------------------------------------------
(* PlaylistControl.cxx, and the events of the player *)

\* PlayPosition(-1) plays the current song or resumes.
PlayPosition(s, song) ==
    LET first == IF song >= 0 THEN (IF s.q.random THEN PositionToOrder(s.q, song)
                                                  ELSE song)
                 ELSE IF s.pl.current >= 0 THEN s.pl.current ELSE 0
        target == IF s.pl.playing THEN s.pl.current ELSE 0
        Start(t) == LET u == [t EXCEPT !.pl.stop_on_error = FALSE,
                                       !.pl.error_count = 0]
                    IN IF t.q.random
                       THEN PlayOrder([u EXCEPT !.q = SwapOrders(@, first, target),
                                                !.pl.current = target], target)
                       ELSE PlayOrder(u, first)
    IN Then(Player(s, LockClearError(s.c)), LAMBDA t :
              IF song >= 0 \/ (~IsEmpty(t.q) /\ ~t.pl.playing) THEN Start(t)
              ELSE IF IsEmpty(t.q) THEN {t}
              ELSE Player(t, LockSetPause(t.c, FALSE)))

\* PlayNext: consume mode then deletes the song that was current.
PlayNext(s) ==
    LET old_current == s.pl.current
        next == GetNextOrder(s.q, old_current)
        t == [s EXCEPT !.pl.stop_on_error = FALSE]
        Shuffled == IF next = 0 /\ t.q.random
                    THEN {[t EXCEPT !.q = q] : q \in ShuffleOrder(t.q)} ELSE {t}
        Advance == IF next < 0
                   THEN {[u EXCEPT !.pl.current = -1] : u \in Stop(t)}
                   ELSE Then(Shuffled, LAMBDA u : PlayOrder(u, next))
    IN Then(Require(s, IsValidOrder(s.q, old_current), "PlayNext"), LAMBDA r :
            Then(Advance, LAMBDA u :
                 IF u.q.consume
                 THEN DeleteSong(u, OrderToPosition(u.q, old_current)) ELSE {u}))

PlayPrevious(s) ==
    PlayOrder(s, IF s.pl.current > 0 THEN s.pl.current - 1
                 ELSE IF s.q.repeat THEN s.q.length - 1
                 ELSE s.pl.current)

\* Mutant: seeking to another song keeps the queued one.
SeekQueued(s, i) ==
    LET t == [s EXCEPT !.pl.playing = TRUE, !.pl.current = i]
    IN {[u EXCEPT !.thrown = FALSE] :
          u \in PlayerTry(t, SeekLocked(t.c, GetOrder(t, i)))}

\* Mutant: current stays at the song left behind.
SeekUnfollowed(s, i) ==
    LET t == [s EXCEPT !.pl.playing = TRUE, !.pl.queued = -1,
                       !.pl.current = IF @ < 0 THEN i ELSE @]
    IN UNION {UpdateQueuedSong([u EXCEPT !.thrown = FALSE], 0) :
                u \in PlayerTry(t, SeekLocked(t.c, GetOrder(t, i)))}

\* SeekSongOrder: a failure of the player is thrown to the client.
SeekSongOrder(s, i) ==
    LET same == s.pl.playing /\ s.pl.current = i
        prev == IF same THEN GetQueuedSong(s) ELSE 0
        Seek(t) == PlayerTry([t EXCEPT !.pl.stop_on_error = TRUE,
                                       !.pl.error_count = 0,
                                       !.pl.playing = TRUE, !.pl.current = i,
                                       !.pl.queued = -1],
                             SeekLocked(t.c, GetOrder(t, i)))
    IN UNION {UpdateQueuedSong([t EXCEPT !.thrown = FALSE],
                               IF t.thrown THEN prev ELSE 0) :
                t \in Then(Player(s, LockClearError(s.c)), Seek)}

\* Mutant: it never gives up.
ResumeAlways(s) ==
    Caught(PlayNext([s EXCEPT !.pl.error_count =
                       IF s.c.error = "NONE" THEN 0 ELSE @ + 1]))

\* Mutant: the queued song is assumed to have been played.
ResumeBehind(s) ==
    Caught(PlayNext([s EXCEPT !.pl.current = IF s.pl.queued < 0 THEN @
                                             ELSE s.pl.queued]))

ResumePlayback(s) ==
    LET error == s.c.error
        count == IF error = "NONE" THEN 0 ELSE s.pl.error_count + 1
        t == [s EXCEPT !.pl.error_count = count]
    IN IF \/ s.pl.stop_on_error /\ error # "NONE"
          \/ error = "OUTPUT"
          \/ count >= s.q.length
       THEN Stop(t) ELSE Caught(PlayNext(t))

\* Mutant: the song that starts is deleted instead of the one that ended.
QueuedSongConsumed(s) ==
    LET t == [s EXCEPT !.pl.current = s.pl.queued, !.pl.queued = -1]
    IN Then(IF t.q.consume
            THEN DeleteSong(t, OrderToPosition(t.q, t.pl.current)) ELSE {t},
            LAMBDA u : IF u.pl.playing THEN SongStarted(u) ELSE {u})

\* Consume mode then deletes the song that was current.
QueuedSongStarted(s) ==
    LET t == [s EXCEPT !.pl.current = s.pl.queued, !.pl.queued = -1]
    IN Then(Require(s, s.pl.current >= 0, "QueuedSongStarted"), LAMBDA r :
            Then(IF t.q.consume
                 THEN DeleteSong(t, OrderToPosition(t.q, s.pl.current)) ELSE {t},
                 SongStarted))

\* Mutant: a player that has stopped is left alone.
SyncWithPlaying(s) ==
    UNION {IF c.next = 0 /\ s.pl.queued # -1
           THEN QueuedSongStarted([s EXCEPT !.c = c]) ELSE {[s EXCEPT !.c = c]} :
             c \in {d \in Moves[s.c] : s.pl.playing /\ d.state # "STOP"} \cup {s.c}}

\* The player's state and next song are read under its lock, twice.
SyncWithPlayer(s) ==
    LET Started(t) == IF t.c.next = 0 /\ t.pl.queued # -1
                      THEN QueuedSongStarted(t) ELSE {t}
        Refill(t) == UNION {IF c.next = 0 /\ t.pl.queued < 0
                            THEN UpdateQueuedSong([t EXCEPT !.c = c], 0)
                            ELSE {[t EXCEPT !.c = c]} : c \in Moves[t.c]}
    IN IF ~s.pl.playing THEN {s}
       ELSE UNION {LET t == [s EXCEPT !.c = c]
                   IN IF c.state = "STOP" THEN ResumePlayback(t)
                      ELSE Then(Started(t), Refill) : c \in Moves[s.c]}

\* PlaylistTag, Playlist::TagModified: a tag of the song being played.
TagModified(s) ==
    IF ~s.pl.playing THEN {s}
    ELSE Then(Require(s, s.pl.current >= 0, "TagModified"), LAMBDA t :
              OnModified([t EXCEPT !.q = ModifyAtPosition(@, GetCurrentPosition(t))]))

-----------------------------------------------------------------------------
(* Playlist.cxx: the modes *)

\* Mutant: the queued song is not passed on.
SetRepeatUnqueued(s, status) ==
    Then({[s EXCEPT !.q.repeat = status]}, LAMBDA t : UpdateQueuedSong(t, 0))

SetRepeat(s, status) ==
    LET q == [s.q EXCEPT !.repeat = status]
    IN Then(Player([s EXCEPT !.q = q],
                   LockSetBorderPause(s.c, q.single /\ ~q.repeat)),
            LAMBDA t : UpdateQueuedSong(t, GetQueuedSong(t)))

\* Mutant: the queued song is not passed on.
SetSingleUnqueued(s, status) ==
    Then({[s EXCEPT !.q.single = status]}, LAMBDA t : UpdateQueuedSong(t, 0))

SetSingle(s, status) ==
    LET q == [s.q EXCEPT !.single = status]
    IN Then(Player([s EXCEPT !.q = q],
                   LockSetBorderPause(s.c, q.single /\ ~q.repeat)),
            LAMBDA t : UpdateQueuedSong(t, GetQueuedSong(t)))

SetConsume(s, status) == {[s EXCEPT !.q.consume = status]}

\* Random on: shuffle, and the song being played comes first.
SetRandom(s, status) ==
    LET prev == GetQueuedSong(s)
        p == IF s.pl.playing THEN GetCurrentPosition(s) ELSE -1
        t == [s EXCEPT !.q.random = status]
        On == {IF p >= 0
               THEN [t EXCEPT !.q = SwapOrders(q, 0, PositionToOrder(q, p)),
                              !.pl.current = 0]
               ELSE [t EXCEPT !.q = q, !.pl.current = -1] :
                 q \in ShuffleOrder(t.q)}
        Off == {[t EXCEPT !.q = RestoreOrder(t.q),
                          !.pl.current = GetCurrentPosition(t)]}
    IN Then(IF status THEN On ELSE Off, LAMBDA u : UpdateQueuedSong(u, prev))

-----------------------------------------------------------------------------
(* PlaylistEdit.cxx: the other edits *)

\* Mutant: the queued song is not updated.
EditedUnqueued(S, prev) == Then(S, OnModified)

\* The queue has been edited: update the queued song, bump the version.
Edited(S, prev) == Then(Then(S, LAMBDA t : UpdateQueuedSong(t, prev)), OnModified)

ClearPlaylist(s) ==
    Then({[t EXCEPT !.q = ClearQueue(t.q), !.pl.current = -1] : t \in Stop(s)},
         OnModified)

\* Mutant: the queued song is not passed on.
AppendFresh(s, song) ==
    IF IsFull(s.q) THEN {[s EXCEPT !.thrown = TRUE]}
    ELSE Edited({[s EXCEPT !.q = q] : q \in AppendItem(s.q, song, 0)}, 0)

\* Mutant: the new song is shuffled into the whole order list.
AppendAnywhere(s, song) ==
    IF IsFull(s.q) THEN {[s EXCEPT !.thrown = TRUE]}
    ELSE Edited({[s EXCEPT !.q = q] :
                   q \in UNION {IF r.random THEN ShuffleOrderLast(r, 0, r.length)
                                ELSE {r} : r \in AppendItem(s.q, song, 0)}},
                GetQueuedSong(s))

\* In random mode the new song is shuffled into the songs still to come.
AppendSong(s, song) ==
    LET start == (IF s.pl.queued >= 0 THEN s.pl.queued ELSE s.pl.current) + 1
        Place(q) == IF q.random /\ start < q.length
                    THEN ShuffleOrderLast(q, start, q.length) ELSE {q}
    IN IF IsFull(s.q) THEN {[s EXCEPT !.thrown = TRUE]}
       ELSE Edited({[s EXCEPT !.q = q] :
                      q \in UNION {Place(r) : r \in AppendItem(s.q, song, 0)}},
                   GetQueuedSong(s))

BeginBulk(s) == [s EXCEPT !.pl.bulk_edit = TRUE, !.pl.bulk_modified = FALSE]

CommitBulk(s) ==
    LET t == [s EXCEPT !.pl.bulk_edit = FALSE]
    IN IF ~s.pl.bulk_modified THEN {t}
       ELSE Then(IF t.pl.queued < 0 THEN UpdateQueuedSong(t, 0) ELSE {t},
                 OnModified)

\* ScopeBulkEdit: the commit follows even if a song could not be added.
AppendBulk(s, songs) ==
    Then(Caught(Ext!FoldLeft(LAMBDA S, song : Then(S, LAMBDA t : AppendSong(t, song)),
                         {BeginBulk(s)}, songs)),
         CommitBulk)

\* Mutant: current does not follow its song.
SwapUnfollowed(s, a, b) ==
    Edited({[s EXCEPT !.q = SwapPositions(s.q, a, b)]}, GetQueuedSong(s))

\* playlist::SwapPositions
SwapSongs(s, a, b) ==
    LET q == SwapPositions(s.q, a, b)
        t == IF q.random
             THEN [s EXCEPT !.q = SwapOrders(q, PositionToOrder(q, a),
                                                PositionToOrder(q, b))]
             ELSE [s EXCEPT !.q = q, !.pl.current = IF @ = a THEN b
                                                    ELSE IF @ = b THEN a ELSE @]
    IN Edited({t}, GetQueuedSong(s))

\* Mutant: current keeps its order number.
SetPrioritiesBlindly(s, start, end, priority) ==
    LET Q == Ext!FoldLeft(LAMBDA S, i : UNION {SetPriority(q, i, priority, -1,
                                                           TRUE) : q \in S},
                          {s.q}, [k \in 1 .. end - start |-> start + k - 1])
    IN Edited({[s EXCEPT !.q = q] : q \in Q}, GetQueuedSong(s))

\* playlist::SetPriorityRange; "after" follows the current song.
SetPriorities(s, start, end, priority) ==
    LET p == GetCurrentPosition(s)
        After(q) == IF p >= 0 THEN PositionToOrder(q, p) ELSE -1
        Q == Ext!FoldLeft(LAMBDA S, i : UNION {SetPriority(q, i, priority, After(q),
                                                       TRUE) : q \in S},
                      {s.q}, [k \in 1 .. end - start |-> start + k - 1])
    IN Edited({[s EXCEPT !.q = q, !.pl.current = After(q)] : q \in Q},
              GetQueuedSong(s))

\* DeleteRange: from the last song of the range to the first.
DeleteRange(s, start, end) ==
    LET Step(S, p) == UNION {{[s |-> t, prev |-> StillQueued(x.s, p, x.prev)] :
                                t \in DeleteInternal(x.s, p)} : x \in S}
        Deleted == Ext!FoldLeft(Step, {[s |-> s, prev |-> GetQueuedSong(s)]},
                            [k \in 1 .. end - start |-> end - k])
    IN UNION {Edited({x.s}, x.prev) : x \in Deleted}

\* StaleSong: delete a file that is gone, but not the song being played.
StaleSong(s, uri) ==
    LET p == IF s.pl.playing THEN GetCurrentPosition(s) ELSE -1
        Drop(t, i) == IF i # p /\ t.q.items[i].song = uri
                      THEN DeleteSong(t, i) ELSE {t}
    IN Ext!FoldLeft(LAMBDA S, i : Then(S, LAMBDA t : Drop(t, i)), {s},
                [k \in 1 .. s.q.length |-> s.q.length - k])

\* playlist::MoveRange after its checks; the code moves beyond the end of
\* the queue if a relative destination is too close to it.
MoveSongs(s, start, end, to) ==
    LET Moved(cur) ==
            IF start <= cur /\ cur < end THEN cur + to - start
            ELSE IF cur >= end /\ cur <= to THEN cur - (end - start)
            ELSE IF cur >= to /\ cur < start THEN cur + end - start
            ELSE cur
    IN Then(Require(s, Fits(s.q, start, end, to), "MoveRange"), LAMBDA t :
            Edited({[t EXCEPT !.q = MoveRange(@, start, end, to),
                              !.pl.current = IF t.q.random THEN @ ELSE Moved(@)]},
                   GetQueuedSong(s)))

\* playlist::Shuffle: the song being played comes first.
ShuffleSongs(s, start, end) ==
    LET p == GetCurrentPosition(s)
        within == s.pl.playing /\ start <= p /\ p < end
        q == IF within THEN SwapPositions(s.q, start, p) ELSE s.q
        first == IF within THEN start + 1 ELSE start
        current == IF within THEN (IF q.random THEN PositionToOrder(q, start)
                                               ELSE start)
                   ELSE IF s.pl.playing THEN s.pl.current ELSE -1
    IN Edited({[s EXCEPT !.q = r, !.pl.current = current] :
                 r \in ShuffleRange(q, first, end)},
              GetQueuedSong(s))

\* SetSongIdRange for the song at position p; valid says if the offset is
\* within the song.  A position is compared with the order numbers current
\* and queued.
SetSongIdRange(s, p, valid) ==
    LET Edit(t) == IF ~valid THEN {[t EXCEPT !.thrown = TRUE]}
                   ELSE Then(Then(UpdateQueuedSong(t, 0), LAMBDA u :
                               {[u EXCEPT !.q = ModifyAtPosition(@, p)]}),
                             OnModified)
    IN IF s.pl.playing /\ p = s.pl.current THEN {[s EXCEPT !.thrown = TRUE]}
       ELSE Then(IF s.pl.playing /\ p = s.pl.queued
                 THEN Player([s EXCEPT !.pl.queued = -1], LockCancel(s.c))
                 ELSE {s},
                 Edit)
=============================================================================
