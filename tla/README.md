# A TLA+ model of the Music Player Daemon

This directory specifies the queue and the playback control of MPD 0.20
(`src/src`), model-checks them with TLC and proves the queue's consistency with
TLAPS. The copy of MPD 0.19 in `src/mpd-0.19.19` is not considered.

## The system

MPD is one process with several threads:

| part | sources | thread | role |
|---|---|---|---|
| event loop, clients, commands | `event/`, `client/`, `command/` | main | reads commands, calls `Partition`, answers; `idle` notifications |
| partition | `Partition.cxx`, `BulkEdit.hxx` | main | joins a playlist, a player and the outputs; turns the player's callbacks into main-loop events |
| queue | `queue/Queue.cxx`, `queue/IdTable.hxx` | main | the songs, with positions, ids, an order list, versions and priorities |
| playlist | `queue/Playlist*.cxx` | main | which song is current, which is sent to the player next, what each command and each event does |
| player control | `player/Control.cxx` | main/player | synchronous commands to the player thread under one mutex |
| player thread | `player/Thread.cxx` | player | plays a song, crosses song borders, reports errors |
| decoder thread | `decoder/Decoder*.cxx` | decoder | runs a codec plugin, fills a music pipe |
| outputs, pipe, buffer | `output/`, `Music*.cxx` | one per output | play chunks, return them to the buffer |
| state file | `StateFile.cxx`, `queue/PlaylistState.cxx`, `queue/QueueSave.cxx` | main | saves and restores the playlist |
| database, update, input, storage, stickers, stored playlists | `db/`, `input/`, `storage/`, `sticker/`, `playlist/` | several | songs and streams |
| plugins, pcm, tags, libraries | `*/plugins/`, `pcm/`, `tag/`, `lib/`, `util/`, ... | | codecs, devices, data formats, utilities |

The playlist and the player thread share a small state: the playlist keeps
`current` and `queued` (order numbers) and `playing`; the player keeps the song
it plays, `next_song`, its state and its error. The player moves on by itself
and only reports afterwards (`OnPlayerSync()`, which becomes a
`SYNC_WITH_PLAYER` event of the main loop). Keeping the two in agreement is
what the playlist's code is about, and what most of the properties are about.

## Modules

| module | models | state | actions |
|---|---|---|---|
| `Queue` | `Queue`, `IdTable` | a record `q` | one operator per method, returning the new record or the set of possible ones |
| `QueueMachine` | every edit that the playlist makes of a queue | `queue`, `overrun` | `Append`, `Swap`, `Move`, `MoveRelative`, `Delete`, `Clear`, `Shuffle`, `Prioritize`, `Choose`, `SetRandom`, `Reshuffle` |
| `QueueProofs` | theorems about `QueueMachine` | | |
| `QueueClient` | a client that follows the queue with `plchanges` | `queue`, `client` | `Poll`, `EditQueue` |
| `PlayerControl` | the player as the main thread sees it | a record `c` | `PlayerStep`, and one operator per synchronous command |
| `Playlist` | `playlist` | a record `s` of queue, playlist, player | one operator per method, returning the possible outcomes |
| `PlaylistMachine` | client commands, player thread and events | `queue`, `pl`, `pc` | one per command, `PlayerThread`, `SyncEvent`, `TagEvent` |
| `MCQueue`, `MCQueueClient`, `MCPlaylist` | instances for TLC | | |

**Queue.** `items`, `order` and `data` (the id table) are functions on the
positions and ids in use; the size of the id table is `MaxLength * HashMult`,
as in the constructor. Random shuffles are sets of outcomes. A song is a URI
from `Songs`. The ids start at 1 and wrap; the version wraps at `MaxVersion`
(2^31 - 1 in the code) and both wraps happen within the bounds of the runs.

**QueueMachine.** Every edit has the guards that its caller in `playlist`
checks. One caller does not check what the queue relies on:
`playlist::MoveRange()` computes a destination relative to the current song
after its check of the bounds. `MoveRelative` keeps the code's guards and sets
`overrun` if the range does not fit; the tables' contents are undefined then,
and the model ends.

**Playlist.** A method that calls the player has one outcome for each thing
the player may have done meanwhile. `Then` composes such calls in the order of
the code; an outcome with `thrown` set skips the rest, as the exception does. A
failed `assert()` is an outcome with `pl.fault` set to its place, in which the
program has ended. `stop_on_error` and `error_count` are left uninitialised by the
constructor and start with an arbitrary value.

**PlayerControl.** The player thread is one actor whose visible steps are:
become ready, fail, cross the border to `next_song`, lose the output, stop.
The border is two steps, since `SongBorder()` releases the lock between
activating the decoder and reading `border_pause`; commands are not served in
between (`decoder = "BORDER"`). `Moves[c]` is the set of states it can reach
while the main thread does not hold the lock, `Serving[c]` those of them in
which it takes a command. The end of playback is one step, although
`player_task()` raises its event after it has released the lock with the state
`STOP`: a command sent in between waits for the event, and one that starts a
song raises the same event again. Time, samples and cross-fading are left out. A song
being played is identified by its queue id, where the code has a copy of the
song; whether `SeekDecoder()` finds the decoder at the same song already, which
depends on URIs, is left open (both branches are outcomes).

**PlaylistMachine.** A command is handled in one step because the main thread
handles one at a time; the player's interleaving with it is inside the
operators. `Commands` selects the commands that clients send in a run.
Arguments that the code refuses before changing anything are not sent.
The state starts after a `load` into the empty queue.

## Runs

`TypeOK` is the type invariant of each machine. The instances have three songs
(two or four where it is enough or needed): one before, one at and one after
the current song, with the order list in all permutations. `MaxPriority = 1` is
enough for two songs of different priority. Versions and ids wrap in
`MCQueue` (`MaxVersion = 2`, six ids) and `MCQueueClient`
(`MaxVersion = 5`, the client polling at least once in three versions). In the
playlist runs ids do not wrap (`FreshIds`), and the version, on which nothing
there depends, stays at its bound.

| run | checks | shows |
|---|---|---|
| `queue` | `TypeOK`, `OrderIsPermutation`, `NormalOrder`, `IdTableInverse`, `FreeId`, `PriorityKeepsSorted` | the three tables stay inverse to one another under all edits; a free id is found; a changed priority keeps the rest sorted |
| `queue_client` | `PlChangesExact` | no edit forgets to stamp a position, also across the wrap |
| `playlist_playback` | `TypeOK`, `NoFault`, `CurrentIsPlayed`, `QueuedIsNext`, `StopIsNoticed`, `NotPlayingIsStopped` | playback commands and modes against a player that moves at any time |
| `playlist_edit` | `NoFault`, `CurrentIsPlayed`, `QueuedIsNext`, `NotPlayingIsStopped`, `StopIsNoticed` | the same under deletions, stale files, `clear`, swaps, moves of single songs and shuffles |
| `playlist_add` | `NoFault`, `CurrentIsPlayed`, `QueuedIsNext`, `AddedToRemaining` | the same under additions, bulk edits of two songs and priorities, in random mode too; a new song joins the songs still to come |
| `playlist_consume` | `CurrentIsPlayed`, `QueuedIsNext`, `StopIsNoticed`, `ConsumesOnlyPlayed`, `FaultsAreKnown` | in consume and repeat mode with seeks and `rangeid`: outside random mode only a song that was played leaves the queue, and the assertions fail in three situations only (see below) |
| `playlist_live` | `PlaybackEnds` (liveness), `NoSongSkipped` | no song border and no end of playback is missed and no song skipped, with decodable and with broken songs |

`ConsumesOnlyPlayed` says that nothing but played songs is removed, not that
every played song is. After a failed assertion the program has ended, so
`playlist_consume` says nothing about what a failed seek within the current song
would leave behind in a build without assertions.

The liveness run uses `LiveSpec`: clients are quiet while playing. A step of the
player or of an event is taken as long as one is possible: a song is finite, the
player thread is not blocked by the main thread outside synchronous commands,
and the main loop handles its events. `FairSpec` states this as weak fairness of
`PlayerThread \/ SyncEvent`; `LiveSpec` asks for it during playback only, with
the state predicate `Pending` for `ENABLED`, which is weaker and much cheaper
for TLC. Weak fairness of `PlayerThread` alone is not assumed: the player's
steps that fall within the handling of an event are part of `SyncEvent`, and no
scheduler keeps them from always falling there. Nothing is assumed about
clients. Deadlock checking is off for the playlist runs: a stopped player with
no client is a legal end.

### Where the code disagrees with its documentation or its assertions

Each of these runs ends with a counterexample; the commands of its `.cfg` are
the ones needed.

| run | what happens |
|---|---|
| `consume_random` | `PlayNext()` at the end of a random queue: `Stop()` shuffles, then the order number taken before is deleted, which is another song |
| `range_current` | `rangeid` compares a position with an order number: in random mode the song being played can be edited |
| `move_current` | a moved range longer than one song: `current` is compared with `to`, not with the end of the range's new place |
| `move_beyond` | a relative move of two songs whose destination is the last position: the range ends beyond the queue (`QueueMachine`, four songs) |
| `broken_repeat` | repeat mode, no song can be decoded: each song fails between the two locks of `SyncWithPlayer()`, the `QUEUE` command starts the next one and no error is ever counted, so MPD does not give up |

Other behaviour that was met, and where it stands:

* three situations in which an assertion fails are the ones that
  `FaultsAreKnown` lists; each of them is reached in `playlist_consume`. A seek
  within the current song that fails passes the formerly queued song to
  `UpdateQueuedSong()` although `queued` is -1; `rangeid` passes none although
  another song is queued; and when `consume` is switched on while `repeat` has
  queued the only song after itself, `QueuedSongStarted()` deletes the song that
  starts and `assert(current >= 0)` of `SongStarted()` fails;
* in random and repeat mode the queued song may have wrapped around to the first
  order number, and a new song may then be swapped with the current one
  (`CurrentIsPlayed` fails with `random`, `repeat` and `add`); `playlist_add` is
  without `repeat`;
* playing the current song again takes the branch of `SeekDecoder()` that does
  not restart the decoder; no event follows, and no next song is queued until
  another command.

`Settled`, the precondition of `CurrentIsPlayed` and `QueuedIsNext`, excludes
states in which an event of the player is still to be handled: there the two
sides differ by design.

## Proofs

`QueueProofs` proves about `QueueMachine`, for every `MaxLength > 0`,
`HashMult >= 2`, `MaxVersion > 1`, `MaxPriority` and set of songs
(`QueueAssumption`):

| theorem | statement |
|---|---|
| `QueueConsistent` | `Spec => []Inv`, the inductive invariant |
| `TypeCorrect` | `Spec => [](NoOverrun => TypeOK)` |
| `OrderPermutation` | `Spec => [](NoOverrun => OrderIsPermutation)` |
| `OrderNormal` | `Spec => [](NoOverrun => NormalOrder)` |
| `IdTableExact` | `Spec => [](NoOverrun => IdTableInverse)` |
| `IdAvailable` | `Spec => [](NoOverrun => FreeId)` |
| `OverrunNeedsRange` | a step sets `overrun` only if it is a `MoveRelative` of two or more songs |

The condition `NoOverrun` is needed: the code does not refuse a relative move
beyond the end of the queue (`move_beyond`), after which the tables are
undefined. `OverrunNeedsRange` says how narrow it is: a relative destination is
always a position of the queue, so that a single song fits there, and every
other edit is guarded.

None of the properties is inductive alone: a deletion keeps the order list a
permutation only if it was one and the length is right; appending keeps the id
table exact only if the id found is free; moving keeps the normal order only
if it leaves the order list alone outside random mode. `Consistent(q)` is their
conjunction: `Typed(q)` (all fields, including versions, priorities and the id
counter), `Ordered(q)` (the order list is injective, and the identity outside
random mode) and `Indexed(q)` (id table and ids are inverse). There is one
lemma per operation of `Queue` (`AppendConsistent`, `DeleteConsistent`, ...)
that it maps a consistent queue to a consistent one; `EveryEditConsistent`
and `MoveRelativeConsistent` collect them. Three general facts carry them: an injection of a finite set into
itself is onto (so `PositionToOrder` is defined), a non-empty set of naturals
has a least element (so the loop of `GenerateId` stops at one id), and fewer
songs than ids leave an id free (a pigeonhole argument on the id table).

Only model-checked: `PriorityKeepsSorted`, `PlChangesExact`, all properties of
the playlist, and liveness, which the proof system does not support.

## Not modelled

`PROJECT.json` lists every part. Of the modelled parts: `AddSongIdTag` and
`ClearSongIdTag`, `DatabaseModified`, the rollback of `addid`, cross-fade and
MixRamp settings, `UpdateAudio`, and ranges whose start is behind their end.
Codec, output, mixer, input and storage plugins, signal processing, file
formats and configuration are I/O or computation without interesting control.

## Plan

1. `EventLoop`: deferred calls from other threads, `BlockingCall`, `MaskMonitor`;
   an abstract specification (a call that is added is run) that the loop
   refines; liveness: no lost wakeup. Composed with `PlaylistMachine`, whose
   `c.sync` bit is its abstraction.
2. `Decoder`: the handshake of the player and decoder threads (`DecoderControl`
   commands, the waits of `Player::Run()`), checked for lost wakeups and
   deadlock, and shown to implement the steps of `PlayerControl`.
3. `Outputs`: `MusicBuffer`, `MusicPipe`, output threads; a chunk is never
   returned while an output uses it, and every chunk is returned.
4. `ClientIdle`: idle flags and subscriptions, no notification lost.
5. `StateFile`: the save timer, restoring in the order of the code, and what of
   the playlist survives a restart; the order number that a stopped playlist is
   restored with.
6. The rest of the playlist: tags, database updates, `addid`.
7. Proofs: `TypeOK` of `PlaylistMachine`, the ownership invariant of the
   outputs, no lost wakeup of the event loop, and the refinements.
