--------------------------- MODULE PlayerControl ---------------------------
(***************************************************************************)
(* What the player thread looks like to the playlist (player/Control.cxx,  *)
(* player/Thread.cxx): a record c of the fields of PlayerControl that the  *)
(* main thread reads, with the outcomes of each synchronous command.  The  *)
(* player moves on by itself between any two calls of the main thread, so  *)
(* every command starts from any state the player may have reached.        *)
(*                                                                         *)
(*   c.state    STOP, PLAY or PAUSE                                        *)
(*   c.song     the queue id of the song being played (0: none); the code  *)
(*              holds a copy of the song                                   *)
(*   c.next     the queue id of next_song (0: nullptr)                     *)
(*   c.error    error_type                                                 *)
(*   c.decoder  has the decoder of c.song started?  READY, STARTING,       *)
(*              FAILED (failed, and Run() is about to notice) or BORDER    *)
(*              (SongBorder() is between its two locks)                    *)
(*   c.open     output_open                                                *)
(*   c.border_pause                                                        *)
(*   c.broken   no song can be decoded (this never changes)                *)
(*   c.sync     a SYNC_WITH_PLAYER event is on its way to the playlist     *)
(***************************************************************************)
EXTENDS Queue

CONSTANT Broken  \* may the songs be broken?  A set of values of c.broken

PlayerType ==
    [state : {"STOP", "PLAY", "PAUSE"}, song : AllIds, next : AllIds,
     error : {"NONE", "DECODER", "OUTPUT"},
     decoder : {"READY", "STARTING", "FAILED", "BORDER"},
     open : BOOLEAN, border_pause : BOOLEAN, broken : Broken, sync : BOOLEAN]

StoppedPlayer(broken) ==
    [state |-> "STOP", song |-> 0, next |-> 0, error |-> "NONE",
     decoder |-> "READY", open |-> FALSE, border_pause |-> FALSE,
     broken |-> broken, sync |-> FALSE]

-----------------------------------------------------------------------------
(* What the player does by itself *)

\* Mutant: the end of playback is not reported.
HaltUnnoticed(c) == [c EXCEPT !.state = "STOP", !.song = 0, !.next = 0,
                              !.decoder = "READY", !.open = FALSE]

\* Run() returns and player_task() calls OnPlayerSync().  The lock is free
\* in between, but the main thread can only send a command then, which waits
\* for the call, or start a song, which raises the event itself.
Halt(c) == [c EXCEPT !.state = "STOP", !.song = 0, !.next = 0,
                     !.decoder = "READY", !.open = FALSE, !.sync = TRUE]

\* ActivateDecoder()
Activate(c, song) == [c EXCEPT !.song = song, !.next = 0,
                               !.decoder = "STARTING", !.sync = TRUE]

\* SongBorder() up to its second lock, where border_pause is read.
SongBorder(c) == [Activate(c, c.next) EXCEPT !.decoder = "BORDER"]

BorderPause(c) ==
    [c EXCEPT !.decoder = "STARTING",
              !.state = IF c.border_pause THEN "PAUSE" ELSE @]

\* play_chunk() failed.
PlayFailure(c) == [c EXCEPT !.state = "PAUSE", !.error = "OUTPUT"]

OpenOutput(c) == {[c EXCEPT !.state = "PLAY", !.open = TRUE],
                  [PlayFailure(c) EXCEPT !.open = FALSE]}

\* CheckDecoderStartup() when the decoder is ready.
Ready(c) == LET r == [c EXCEPT !.decoder = "READY"]
            IN IF c.decoder # "STARTING" \/ c.broken THEN {}
               ELSE IF c.state = "PLAY" THEN OpenOutput(r) ELSE {r}

\* Mutant: the failure of a decoder is not reported.
DecoderFailureUnnoticed(c) == HaltUnnoticed([c EXCEPT !.error = "DECODER"])

DecoderFailure(c) == Halt([c EXCEPT !.error = "DECODER"])

\* One step of Player::Run() that the playlist can see.  Playback ends with
\* the last song, or when SendSilence() fails.
PlayerStep(c) ==
    IF c.state = "STOP" THEN {}
    ELSE IF c.decoder = "BORDER" THEN {BorderPause(c)}
    ELSE Ready(c)
         \cup (IF c.decoder # "READY" THEN {DecoderFailure(c)} ELSE {})
         \cup (IF c.state = "PLAY" /\ c.open THEN {Halt(c)} ELSE {})
         \cup (IF c.state = "PLAY" /\ c.decoder = "READY"
               THEN {PlayFailure(c)}
                    \cup (IF c.next # 0 THEN {SongBorder(c)} ELSE {})
               ELSE {})

\* The states reached so far, and the new ones among them, one step later.
MoveOn(m) ==
    LET new == UNION {PlayerStep(c) : c \in m.new} \ m.all
    IN [all |-> m.all \cup new, new |-> new]

\* The states the player may have reached when the main thread gets the lock
\* again: become ready, cross a border (two steps), become ready, lose the
\* output, stop.
Moves ==
    [c \in PlayerType |->
       MoveOn(MoveOn(MoveOn(MoveOn(MoveOn(MoveOn([all |-> {c}, new |-> {c}])))))).all]

\* The states in which Run() or player_task() looks for a command.
Serving == [c \in PlayerType |-> {d \in Moves[c] : d.decoder # "BORDER"}]

-----------------------------------------------------------------------------
(* The commands *)

\* CANCEL; too late if the player has already switched to the next song.
Cancel(c) ==
    IF c.state # "STOP" /\ c.next = 0 THEN Halt(c) ELSE [c EXCEPT !.next = 0]

LockCancel(c) == {Cancel(d) : d \in Serving[c]}

\* CLOSE_AUDIO
LockStop(c) == {IF d.state = "STOP" THEN d ELSE Halt(d) : d \in Serving[c]}

ClearError(c) == [c EXCEPT !.error = "NONE"]

LockClearError(c) == {ClearError(d) : d \in Moves[c]}

LockSetBorderPause(c, pause) ==
    {[d EXCEPT !.border_pause = pause] : d \in Moves[c]}

\* do_play() up to the end of the command.
DoPlay(c, song) == [Activate(c, song) EXCEPT !.state = "PLAY"]

\* QUEUE; EnqueueSongLocked() asserts that there is no next song yet.
LockEnqueueSong(c, song) ==
    {IF d.state = "STOP" THEN DoPlay(d, song) ELSE [d EXCEPT !.next = song] :
       d \in {e \in Serving[c] : e.next = 0}}

\* WaitDecoderStartup()
DecoderStartup(c) ==
    IF c.decoder = "READY" THEN {c}
    ELSE {[c EXCEPT !.decoder = "FAILED", !.error = "DECODER"]} \cup Ready(c)

\* SeekDecoder(): the decoder is restarted, or it is at a song with the same
\* URI already and is sent a SEEK, whose failure does not end playback.
SeekDecoder(c, song) ==
    LET same == DecoderStartup([c EXCEPT !.song = song, !.next = 0])
    IN DecoderStartup(Activate(c, song))
       \cup same
       \cup {[d EXCEPT !.error = "DECODER"] :
               d \in {e \in same : e.decoder = "READY"}}

\* PAUSE toggles; resuming opens the outputs if their format is known.
PauseLocked(c) ==
    UNION {IF d.state = "PLAY" THEN {[d EXCEPT !.state = "PAUSE"]}
           ELSE IF d.state = "PAUSE"
           THEN OpenOutput(d) \cup (IF d.decoder = "READY" THEN {}
                                    ELSE {[d EXCEPT !.state = "PLAY"]})
           ELSE {d} : d \in Serving[c]}

LockSetPause(c, pause) ==
    UNION {IF d.state = (IF pause THEN "PLAY" ELSE "PAUSE")
           THEN PauseLocked(d) ELSE {d} : d \in Moves[c]}

\* SeekLocked(): the player's state when SEEK has finished, and whether an
\* exception is thrown.
SeekLocked(c, song) ==
    LET idle == UNION {IF d.next = 0 THEN {d} ELSE LockCancel(d) :
                         d \in Moves[c]}
        before == UNION {Serving[ClearError(d)] : d \in idle}
        done == UNION {IF d.state = "STOP" THEN {DoPlay(d, song)}
                       ELSE SeekDecoder(d, song) : d \in before}
    IN {[c |-> d, thrown |-> d.error # "NONE"] :
          d \in UNION {Moves[e] : e \in done}}

\* Play(): a pause is undone, unless SeekLocked() has thrown.
Play(c, song) ==
    UNION {IF o.thrown \/ o.c.state # "PAUSE" THEN {o}
           ELSE {[c |-> d, thrown |-> FALSE] : d \in PauseLocked(o.c)} :
             o \in SeekLocked(c, song)}
=============================================================================
