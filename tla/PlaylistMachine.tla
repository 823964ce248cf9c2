-------------------------- MODULE PlaylistMachine --------------------------
(***************************************************************************)
(* The main thread executing client commands on the playlist, with the     *)
(* player thread beside it.  A command runs from its arrival to its answer *)
(* in one step; the player's moves in between are part of its outcomes.    *)
(* An argument that the code refuses before changing anything is not sent. *)
(***************************************************************************)
EXTENDS Playlist

CONSTANTS Commands,  \* the commands that clients send
          Loaded     \* the songs that a client has loaded into the queue

ASSUME PlaylistAssumption ==
    /\ Loaded \in Seq(Songs) /\ Len(Loaded) <= MaxLength
    /\ Broken \subseteq BOOLEAN /\ Broken # {}

VARIABLES queue, pl, pc

vars == <<queue, pl, pc>>

State == [q |-> queue, pl |-> pl, c |-> pc, thrown |-> FALSE]

\* stop_on_error and error_count are not initialised by the constructor.
NewPlaylist ==
    [playing : {FALSE}, stop_on_error : BOOLEAN, error_count : {0, MaxLength},
     bulk_edit : {FALSE}, bulk_modified : {FALSE}, current : {-1},
     queued : {-1}, fault : {""}]

\* The first command was a "load" into the empty queue.
Init ==
    \E new \in NewPlaylist, broken \in Broken :
      \E s \in AppendBulk([q |-> EmptyQueue, pl |-> new,
                           c |-> StoppedPlayer(broken), thrown |-> FALSE],
                          Loaded) :
        queue = s.q /\ pl = s.pl /\ pc = s.c

Outcome(S) ==
    \E s \in S : queue' = s.q /\ pl' = s.pl /\ pc' = s.c

\* A client sends a command; a failed assertion has ended the program.
Command(name, S) == name \in Commands /\ pl.fault = "" /\ Outcome(S)

Valid(p) == IsValidPosition(queue, p)

\* A non-empty range of positions.
Range(start, end) == start < end /\ end <= queue.length

PlayCommand(song) ==
    /\ song = -1 \/ Valid(song)
    /\ Command("play", PlayPosition(State, song))
StopCommand == Command("stop", Stop(State))
PauseCommand(pause) ==
    Command("pause", Player(State, LockSetPause(pc, pause)))
\* handle_next: single mode is off while the command runs.
NextCommand ==
    /\ pl.playing
    /\ Command("next", {[t EXCEPT !.q.single = queue.single] :
                          t \in PlayNext([State EXCEPT !.q.single = FALSE])})
PreviousCommand == pl.playing /\ Command("previous", PlayPrevious(State))
SeekCommand(p) ==
    Valid(p) /\ Command("seek", SeekSongOrder(State, PositionToOrder(queue, p)))
ClearErrorCommand == Command("clearerror", Player(State, LockClearError(pc)))

RepeatCommand == Command("repeat", SetRepeat(State, ~queue.repeat))
SingleCommand == Command("single", SetSingle(State, ~queue.single))
ConsumeCommand == Command("consume", SetConsume(State, ~queue.consume))
RandomCommand == Command("random", SetRandom(State, ~queue.random))

\* A bound: the ids do not wrap around (they do in QueueMachine).
FreshIds(n) == queue.next + n < TableSize

AddCommand(song) == FreshIds(1) /\ Command("add", AppendSong(State, song))
LoadCommand(song) ==
    FreshIds(2) /\ Command("load", AppendBulk(State, <<song, song>>))
ClearCommand == Command("clear", ClearPlaylist(State))
SwapCommand(a, b) == Valid(a) /\ Valid(b) /\ Command("swap", SwapSongs(State, a, b))
PrioCommand(start, end, priority) ==
    Range(start, end) /\ Command("prio", SetPriorities(State, start, end, priority))
DeleteCommand(p) == Valid(p) /\ Command("delete", DeleteSong(State, p))
DeleteRangeCommand(start, end) ==
    Range(start, end) /\ Command("deleterange", DeleteRange(State, start, end))
StaleCommand(song) == Command("stale", StaleSong(State, song))
MoveCommand(start, end, to) ==
    /\ Range(start, end)
    /\ Fits(queue, start, end, to)
    /\ start # to
    /\ Command(IF end = start + 1 THEN "move" ELSE "moverange",
               MoveSongs(State, start, end, to))
RelativeMoveCommand(start, end, distance) ==
    /\ Range(start, end)
    /\ distance <= queue.length
    /\ pl.current >= 0
    /\ GetCurrentPosition(State) \notin start .. end - 1
    /\ Command(IF end = start + 1 THEN "moverelative" ELSE "moverangerelative",
               MoveSongs(State, start, end,
                         RelativeTo(queue, start, GetCurrentPosition(State),
                                    distance)))
ShuffleCommand(start, end) ==
    /\ start + 1 < end /\ end <= queue.length
    /\ Command("shuffle", ShuffleSongs(State, start, end))
RangeIdCommand(p, valid) ==
    Valid(p) /\ Command("rangeid", SetSongIdRange(State, p, valid))

\* The player thread
PlayerThread == pl.fault = "" /\ pc' \in PlayerStep(pc) /\ UNCHANGED <<queue, pl>>

\* The main loop handles SYNC_WITH_PLAYER: the bit is cleared first.
SyncEvent ==
    /\ pc.sync /\ pl.fault = ""
    /\ Outcome(SyncWithPlayer([State EXCEPT !.c.sync = FALSE]))

\* A tag arrives from the stream being played.
TagEvent == Command("tag", TagModified(State))

Places == 0 .. MaxLength - 1

PlaybackCommand ==
    \/ \E song \in {-1} \cup Places : PlayCommand(song)
    \/ StopCommand
    \/ \E pause \in BOOLEAN : PauseCommand(pause)
    \/ NextCommand
    \/ PreviousCommand
    \/ \E p \in Places : SeekCommand(p)
    \/ ClearErrorCommand
    \/ RepeatCommand \/ SingleCommand \/ ConsumeCommand \/ RandomCommand

\* Swapping is symmetric, and deleting a range of one song is DeleteCommand.
EditCommand ==
    \/ \E song \in Songs : AddCommand(song) \/ LoadCommand(song) \/ StaleCommand(song)
    \/ ClearCommand
    \/ \E a \in Places : \E b \in a .. MaxLength - 1 : SwapCommand(a, b)
    \/ \E start \in Places, end \in 1 .. MaxLength :
         \/ \E priority \in Priorities : PrioCommand(start, end, priority)
         \/ end > start + 1 /\ DeleteRangeCommand(start, end)
         \/ ShuffleCommand(start, end)
         \/ \E to \in Places : MoveCommand(start, end, to)
         \/ \E distance \in 1 .. MaxLength : RelativeMoveCommand(start, end, distance)
    \/ \E p \in Places : DeleteCommand(p)
    \/ \E p \in Places, valid \in BOOLEAN : RangeIdCommand(p, valid)

Next == PlaybackCommand \/ EditCommand \/ PlayerThread \/ SyncEvent \/ TagEvent

Spec == Init /\ [][Next]_vars

\* Clients are quiet while songs are played.
QuietNext ==
    \/ ~pl.playing /\ PlaybackCommand
    \/ PlayerThread
    \/ SyncEvent

\* The event loop handles its events and the player thread does not stay
\* forever in the middle of a song.  The player's progress may all happen
\* between two locks of SyncWithPlayer(), so that nothing is assumed of
\* PlayerThread alone.
FairSpec == Init /\ [][QuietNext]_vars /\ WF_vars(PlayerThread \/ SyncEvent)

\* ENABLED (PlayerThread \/ SyncEvent)
Pending == pl.fault = "" /\ (pc.sync \/ PlayerStep(pc) # {})

\* This fairness during playback only, where every step of QuietNext is one of
\* the two actions: weaker than FairSpec, and cheaper to evaluate.
LiveSpec ==
    /\ Init /\ [][QuietNext]_vars
    /\ []<>~(pl.playing /\ Pending) \/ []<><<pl.playing>>_vars

-----------------------------------------------------------------------------
(* Properties *)

IndexType == -1 .. MaxLength - 1

\* The fields have their types; "current" always denotes a song of the queue,
\* and so does "queued" while playing (the playlist indexes its order list
\* with both, without a check).
TypeOK ==
    /\ queue.length \in 0 .. MaxLength
    /\ pl.current \in -1 .. queue.length - 1
    /\ pl.queued \in IndexType
    /\ pl.playing => pl.queued < queue.length
    /\ pl.error_count \in 0 .. MaxLength
    /\ ~pl.bulk_edit
    /\ pc \in PlayerType

\* No assertion of the playlist fails, whatever the player does between two
\* calls (the assert() calls of Playlist.cxx and PlaylistControl.cxx).
NoFault == pl.fault = ""

\* While the player is at work and has nothing to report,
Settled == pl.fault = "" /\ pl.playing /\ ~pc.sync /\ pc.state # "STOP"

\* "current" is the song the player plays (Playlist.hxx: "It is also the song
\* which is currently being played").
CurrentIsPlayed == Settled => GetOrder(State, pl.current) = pc.song

\* "queued" is the song the player was sent as next_song, and the player has
\* one only if "queued" says so.
QueuedIsNext == Settled => pc.next = GetQueuedSong(State)

\* The playlist never believes that it is playing while the player has
\* stopped and no event will tell it so.
StopIsNoticed == pl.fault = "" /\ pl.playing /\ pc.state = "STOP" => pc.sync

\* When the playlist is not playing, the player is stopped and was sent no
\* song.
NotPlayingIsStopped ==
    pl.fault = "" /\ ~pl.playing => pc.state = "STOP" /\ pc.next = 0

\* The songs that leave the queue in this step.
Removed == {id \in Ids : queue.data[id] >= 0 /\ queue'.data[id] < 0}

\* Consume mode: where clients delete no songs, the only song to leave the
\* queue is the one that was current, and it leaves when it is not current any
\* more (protocol.xml: "each song played is removed from playlist").
ConsumesOnlyPlayed ==
    [][\A id \in Removed :
         /\ pl.current >= 0 /\ id = GetOrder(State, pl.current)
         /\ queue.consume]_vars

\* A command that edits the portion of a song to be played leaves the song
\* being played alone (protocol.xml: "A song that is currently playing cannot
\* be manipulated this way").
RangeSparesCurrent ==
    [][\A p \in Places :
         pl.playing /\ p = GetCurrentPosition(State) /\ RangeIdCommand(p, TRUE)
         => UNCHANGED queue]_vars

\* In random mode, songs added during playback join those still to come: the
\* songs played so far, the current song and the one the player was sent keep
\* their order numbers (PlaylistEdit.cxx:106: "shuffle the new song into the
\* list of remaining songs to play").
AddedToRemaining ==
    [][pl.playing /\ queue.random /\ queue'.length > queue.length =>
         /\ pl'.current = pl.current
         /\ \A i \in 0 .. pl.current \cup 0 .. pl.queued :
              GetOrder(State', i) = GetOrder(State, i)]_vars

\* The assertions of UpdateQueuedSong() and SongStarted() fail in three
\* situations only, whatever the player does: a seek within the current song
\* fails while another song is queued; the range of a song is changed while
\* another one is queued; the player starts the current song again after
\* consume mode was switched on.
FaultsAreKnown ==
    [][pl'.fault # "" =>
         \/ pl.queued >= 0 /\ SeekCommand(GetCurrentPosition(State))
         \/ \E p \in Places : pl.queued \notin {-1, p} /\ RangeIdCommand(p, TRUE)
         \/ queue.consume /\ pl.queued = pl.current /\ SyncEvent]_vars

\* A queue of which no song can be decoded is given up, in every mode
\* (Playlist.hxx:68: "If this number exceeds the length of the playlist, MPD
\* gives up, because all songs have been tried").
BrokenQueueStops == pc.broken /\ pl.playing ~> ~pl.playing

\* Without repeat mode, playback comes to its end, or to a pause that single
\* mode or a failed output causes: no song border and no end is missed,
\* whatever the moment at which the player reaches it.
PlaybackEnds ==
    pl.playing /\ ~queue.repeat ~> ~pl.playing \/ pc.state = "PAUSE"

\* While clients are quiet, no song is skipped: an event of the player moves
\* "current" to the next song at most, also if that one has started and failed
\* before the event was handled.
NoSongSkipped ==
    [][/\ pl.playing /\ pl'.playing
       /\ ~queue.random /\ ~queue.consume
       => pl'.current \in {pl.current, GetNextOrder(queue, pl.current)}]_vars
=============================================================================
