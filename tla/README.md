# Milkwave: a verification project in TLA+

Milkwave is a Windows music visualizer (`src/Visualizer`, C++, after MilkDrop 2) with a remote
control (`src/Remote`, C#) that talks to it through named pipes or TCP. This directory holds
TLA+ models of the parts that keep state across threads, messages and frames, the TLC
configurations that check them, and TLAPS proofs about them. Line numbers are those of `src/`;
`VM/` stands for `src/Visualizer/milkwave/`.

1. [Inventory](#inventory)
2. [Modules](#modules), one section each: what it models, its runs, bounds, fairness and proofs
3. [What is proved](#what-is-proved) and [what is only model-checked](#only-model-checked)
4. [Disagreements](#disagreements) between the code and what it says of itself, and other observations
5. [Plan](#plan) and [what is not modelled](#not-modelled)

## Inventory

### Threads

| Thread | Runs | Shares |
| --- | --- | --- |
| render (and window) | message loop, frames, preset ticks, TCP poll, Start/Stop of the servers | everything |
| capture, with the thread that supervises it | WASAPI packets into the sample buffer | sample buffer, `m_nAudioLoopState` |
| pipe accept | 16 listening pipe instances, reaping of handlers | client lists, contexts |
| pipe handler, one per client | reads, dispatch to the window, queued writes | its context, client lists |
| preset compile | the shaders of the pending preset | `m_nPresetCompileStatus`, `...Cancel`, the path |
| precompiler | the presets of `precompile.txt` | `compileMutex`, the same cancel flag |
| preset scan | the preset list | `g_cs`, two plain flags |
| lyrics worker | LRCLIB look-ups | one pending request, a generation counter |
| Remote: form, read loop per client | commands, state, re-scan timer | the active client |

### Components

For each: state; operations; how it meets the others; what is hard; what makes it correct.

- **Audio sample buffer** (`audio/audiobuf.cpp`). *State*: a ring, its cursor and fill count, two
  function statics per reader. *Operations*: `SetAudioBuf` (capture), `GetAudioBuf` and
  `GetAudioBufFloat` (render), `ResetAudioBuf`. *Hard*: packets of any length, wraps, a capture
  that stalls and comes back. *Correct*: a reader gets silence or exactly the newest samples, a
  stall turns into silence, a recovery is heard. **AudioBuf**.
- **Pipe server** (`VM/pipe_server.cpp`). *State*: running, shutdown and connected flags, the
  shutdown event, the list of clients and that of finished ones, per client a heap context with
  handles, queue and mutex. *Operations*: `Start`, `Stop`, `Send`, the accept loop with
  `SweepFinished`, the handlers with `RemoveClient`. *Hard*: contexts outlive lists and lists
  outlive threads; every join has a time-out; Explorer can stop and restart the server at any
  time. *Correct*: nothing deleted is reachable, nothing is lost, a handle is not closed while
  another thread uses it, Stop and Send return. **PipeServer**.
- **Pipe connection** (`VM/pipe_server.cpp:457-720`, `Remote/Helper/PipeClient.cs`). *State*: read
  buffer and what was assembled of a message, queue, write in flight. *Hard*: chunked and
  over-long messages, writes abandoned after 1 s, a 100 ms throttle in front
  (`VM/plugin_presets.cpp:776`). *Correct*: messages arrive whole, in order, at most once; what is
  dropped does not garble what follows. **PipeConnection**.
- **TCP server** (`VM/tcp_server.cpp`). *State*: a vector of connections with buffer, device, mark
  and time of last activity. *Operations*: `Start`, `Stop`, `Poll` (accept, read, frames,
  time-outs). *Hard*: the loops erase from the vector they walk, and `ProcessFrames` erases from
  it while it holds a reference into it. *Correct*: served exactly when answered, one connection
  per device, no socket lost or closed twice, lost peers dropped. **TcpServer**.
- **Preset history** (`VM/plugin_presets.cpp:13-160, 603-616`). *State*: a ring of names, a
  position, two fences. *Operations*: back, next, list, message, order toggle. *Hard*: the
  position moves before the load is accepted, and a name is added before the file is read and before
  it is shown. *Correct*: back and next walk what was asked for. **PresetHistory**.
- **Preset loader** (`VM/plugin_presets.cpp:509-935`, `VM/plugin_dx9.cpp`,
  `VM/plugin_shaders.cpp`). *State*: four states and four sets of shaders behind pointers that are
  swapped, the pending load, the compile thread and its flags. *Operations*: `LoadPreset`,
  `LoadPresetTick`, `CancelPendingPresetLoad`, device reset, `ClearPreset`, the compile thread,
  the precompiler. *Hard*: a load spans frames and threads, and anything can come in between.
  *Correct*: what is on screen is what the program says, loads end, halves of a double preset
  stay together. **PresetLoader**.
- **Audio capture** (`audio/loopback-capture.cpp`, `VM/MilkwaveVisualizer.cpp:2696-2926`).
  *State*: start, stop and ready events, `m_nAudioLoopState`, the device names and directions, the
  nesting of restarts. *Operations*: a change of device by the Remote, a failed start, the return to the device
  before, the end of the process. *Hard*: the function calls itself, a state is polled, a second
  change is asked for while the first is under way. *Correct*: the process stays up, it captures what
  it shows, it reverts to a device that worked, every call ends. **AudioCapture**.
- **Preset list scan** (`VM/plugin_presets.cpp:992-1345`, `VM/plugin.cpp:1315`). *State*: the list,
  `g_bThreadAlive`, `g_bThreadShouldQuit`, `g_cs`. *Hard*: a scan is terminated after 3 s, lock
  and all; the window can be lost under it. *Correct*: the list is that of the directory that is set,
  and the frame, the window and the scan get on. **PresetScan**.
- **Menus and keys** (`VM/menu.cpp`, `VM/plugin_input.cpp`). *State*: `m_UI_mode`, whether a text is
  typed, the place in the list. *Operations*: the keys that change the mode; those that move in the
  list, delete, rename and save presets and change the directory; dropped files. *Hard*: keys read
  the list without its lock while a scan changes it. *Correct*: modes and texts agree, what is
  selected is in the list, a question is about what it names. **PresetMenu** over PresetScan.
- **Text entry** (`VM/plugin_waitstring.cpp`, `VM/plugin_input.cpp:320-418, 850-1150`). *State*: a
  buffer edited in place, cursor, anchor, overtype. *Hard*: repeats, selections, lines, texts beyond
  their limit from the beginning.
  *Correct*: every key does to the text what it means, and the cursor stays in it. **TextEntry**.
- **Song polling and timeline** (`VM/milkwave.cpp:125-347`, `VM/song_timeline.h`). *State*: an anchor
  position and time, the last report. *Hard*: old or missing time stamps, players without a
  position, a floor that every new document takes away. *Correct*: the position shown is the player's
  up to its jitter, and small corrections do not jump back. **SongTimeline**.
- **Lyrics worker** (`VM/milkwave.cpp:96-112, 270-300, 396-513`). *State*: pending request,
  generation, document. *Hard*: look-ups of seconds, retries, a track that changes meanwhile, lyrics
  loaded by hand, a poll that fails half way. *Correct*: no result is shown for another request than the last. **LyricsWorker**.
- **Lyrics files** (`VM/Lyrics.cpp`). *Operations*: parse, current line, atomic save. *Planned* as
  operators with a reference definition.
- **Remote connection** (`Remote/MilkwaveRemoteForm.cs:1386-1830`, `Remote/Helper/*Client.cs`).
  *State*: the active client, discovered instances and targets, the re-scan timer. *Hard*: events
  of a client that was replaced are already posted. *Correct*: the form has a client or looks for
  one, each connection is asked for the state, a visualizer that runs is found. **RemoteConnection**.
- **Window and main loop, precompile setup** (`VM/MilkwaveVisualizer.cpp:2375-2684, 2928-3057`).
  *Hard*: Explorer destroys the host window, with compiles and servers running. *Planned*.
- Renderer, shader text and cache, preset files and expressions, textures, spectrum, device
  creation, video input, settings, logging, the Remote's form and data, vendored code: see
  [Not modelled](#not-modelled).

### How they interact

Capture hands samples to the render thread through the sample buffer. The two servers post what
they receive to the window as messages, which the render thread runs as commands; some of those
load presets. `LoadPreset` moves the history and starts a compile; the tick of each frame applies
it and tells the Remote through `PipeServer::Send`, on the same thread that may be asked to stop
that server. A device or window loss applies or cancels the pending load and restarts the servers.
The keys of the menus and the Remote choose from the preset list, which the scan fills; the poll of
the media session moves the song timeline and asks the lyrics worker.


## Modules

| Module | Models | Composed of |
| --- | --- | --- |
| `AudioWindow` | the promise of the sample buffer | |
| `AudioBuf` | the ring | implements `AudioWindow` |
| `AudioCapture` | main thread, capture thread and requests for another device | |
| `PipeServer` | the pipe server's threads, lists and contexts | |
| `PipeConnection` | what travels through one pipe | |
| `PresetTrail` | the promise of the preset history | |
| `PresetRing` | the ring of names and what each caller does with it | |
| `PresetHistory` | the ring under its callers, with loads that may be turned down | `PresetRing`, implements `PresetTrail` |
| `PresetLoader` | loads, ticks, compile thread, precompiler, resets | |
| `PresetScan` | the scan of the preset directory and the calls that start and end it | |
| `PresetMenu` | the menus, and what they ask of the list | `PresetScan` |
| `TcpServer` | one `Poll` after the other, loop by loop | |
| `RemoteConnection` | the form, its active client and the posted calls | |
| `LyricsWorker` | requests, look-ups and the document on screen | |
| `SongTimeline` | a player's reports and the clock extrapolated from them | |
| `TextEditor` | what the keys of an editor mean | |
| `TextEntry` | the same keys on the buffer | compared with `TextEditor` |
| `MC*` | TLC instances | the module named |
| `*_proof` | proofs | the module named |
| `Audio_proof` | proofs | `AudioBuf`, `AudioCapture` |
| `Media_proof` | proofs | `LyricsWorker`, `SongTimeline` |
| `Connection_proof` | proofs | `RemoteConnection`, `PipeConnection` |
| `Menu_proof` | proofs | `PresetMenu`, `TextEntry` |

A definition with the name of another and a suffix (`SetAudioBufNoWrap`, `RivalsNone`) is a
*mutant*: the code with a plausible bug. Each property of a run is violated once its mutant
replaces the definition (`PROJECT.json`, "mutants").

Modules whose proofs share a module have names of their own (`CaptureSpec`, `SongTypeOK`,
`ForceScan`), the others `Init`, `Next`, `Spec`, `TypeOK`.

What belongs together is one property of a run, a conjunction of named parts: `ListTruthful` is
`ListedClientsOpen /\ ConnectedAgrees`, `CallsReturn` is `StopReturns /\ SendReturns`, `WaitsEnd` is
`RenderEnters /\ WindowGoesOn /\ ScanEnds`, and so on. Type invariants are proved; in the modules
without proofs they are a conjunct of an invariant that is checked.

### AudioBuf

Each function holds `pcmLpbMutex` from first to last statement, so each is one action. Samples are
stamps in order of arrival, 0 is silence; gain, averaging and the second channel do not matter to
order. The statics of the two readers are `consecutiveReads` and `lastPcmPos`; `Unset` is a static
no call has initialised. `AudioWindow` remembers a sequence of the newest samples, and the
refinement mapping reads it out of the ring backwards from the cursor.

- `audio_window`: 3 slots, packets of 0 to 3 samples, five stamps so that an old sample differs from
  a new one at the same slot. The readers ask for 2 and 3: one less than the ring, and all of it.
  Shows that every interleaving of packets, resets and reads refines the window
  (`ImplementsWindow`), that the fifth call without a new sample is silent (`StaleIsSilent`), and
  that the first call after new samples is not (`FreshIsHeard`). `FreshIsHeard` is said of
  arrivals that move the cursor: the code takes a cursor that came full circle between two reads
  for a stalled capture, and so does the model. Packets are no longer than the ring
  (see [Disagreements](#disagreements) for longer ones).

### AudioCapture

The main thread's function that starts a capture and waits calls itself: when another device is
asked for, and again, with the device before, when that one fails. `frames` is that nesting. The
Remote's request writes the device name and then the state, on the render thread; the main thread
polls the state. The capture thread starts, sets its ready event, and ends when its device goes.
A device is a name and a direction; it may be absent or in exclusive use, and comes and goes.

What a request says is kept in three places: the name (`device`), what is shown (`display`, name and
direction), and the direction asked for (`requestType`), which decides whether `CPrefs` looks among
inputs, outputs or both. A change that failed puts the first two back and leaves the third
(`TryAgain`, `VM/MilkwaveVisualizer.cpp:2909-2914`).

- `audio_capture`: one input and one output, requests for either with or without a direction, two of
  them, one plug. The device of the start works and the request fails, or a second request arrives
  while the first is opened, stopped or undone. Shows that the process does not end under a render
  thread that runs (`StaysUp`), that in rest it captures the device it shows, in the direction it shows
  (`UsesWhatItShows`), that a change that fails goes back to the name that worked and captures that
  device again (`RevertsToWorked`), and that every restart and the close of the program end
  (`CallsEnd`). Fairness: the main thread's polls, the capture thread and a request half written go on.
  `StaysUp` excepts two failures in a row, a start without a device, and a second request during
  the join at `VM/MilkwaveVisualizer.cpp:2892` (see [Disagreements](#disagreements));
  `UsesWhatItShows` excepts a request that comes while a capture starts, which is answered by the
  state 0 that the start sets. `RevertsToWorked` promises the device only where it is `StillFound`: it
  is there, and the request that failed has not asked for the other direction (nor for either one when
  an input of the same name hides it). The history variables remember these cases and what ran last.

### PipeServer

The members of `PipeServer` and of `PipeClientContext` are variables, and each thread has a program
counter. A critical section that cannot block is one action, enabled while `m_clientsMutex` is free.
`Send` keeps the mutex over several steps because it waits for each client's `outMutex` under it.
`AcceptSpawn` and `AcceptAssign` are two steps because the handler runs before `hThread` is stored.
A join that may expire leaves both outcomes open; the wait of `Stop` for the accept thread may
expire only with `AcceptJoinMayTimeOut`. `leaked` remembers what `Stop` gave up on.

- `pipe_server`: two connections, one listener, two Starts and a Send, handler threads that may
  fail to start. Two connections are what it takes for one to be retired while another is listed,
  two Starts for a handler to outlive the Stop that gave it up and meet a cleared shutdown flag.
  Nothing deleted is reachable, a handler owns its pipe, no context is lost, and whoever takes the
  clients lock finds open handles in every listed context and a connected flag that agrees
  (`ListTruthful`); `Stop` and `Send` return (`CallsReturn`). Fairness: the operating system runs
  every thread (weak fairness of each thread's steps); a handler's waits are bounded (50 ms, 1 s)
  or cancelled; a sender blocked on `outMutex`, which the handler releases between two drains, gets
  it some time (strong fairness of `SendOne`).

Two limits are stated. `ListedClientsOpen` excepts the context whose thread failed to start: its
handles are closed (`VM/pipe_server.cpp:422`) before the lock is taken to unlist it, and `Stop` may
cancel I/O on a closed handle in between. Without `~AcceptJoinMayTimeOut`, `NoDanglingContext` is
false: `Stop` does not look at the result of its 5 s wait and deletes contexts an accept thread that
is still running has in hand.

### PipeConnection

One client's handler with its read in flight, its queue and the write it waits for, the throttle in
front of the queue, and the Remote's end. A message is a sequence of units that know which message
they are of, so what was cut or joined shows; the pipe keeps message boundaries and blocks a writer
whose quota is full.

- `pipe_connection`: commands of 3 and 5 units with reads of 2 and a cap of 3, news of 3 units, a
  quota of 2: several reads, a message over the cap, a write that waits. The Remote hangs, goes on
  and closes; the server stops. Messages of both directions are whole, in order and once
  (`MessagesWhole`); a command is dispatched even if the Remote reads nothing any more, and a
  message forced through the throttle reaches a Remote that stays (`MessagesArrive`); the handler
  ends (`HandlerEnds`). Fairness: the handler runs, a read that has data completes, and a Remote
  that does not hang reads.

What may be lost: messages that are not forced and come within 100 ms of another; what a Remote that
closed had not read; what is over the cap. The throttle subtracts times of the system clock as unsigned
numbers, so that a clock that was set back lets the next message through. That an abandoned write
still uses its `OVERLAPPED` on a stack frame that is used again is undefined, and not modelled
beyond the fate of its message.

### PresetHistory

`PresetRing` gives, for each caller, its *targets*: the file `LoadPreset` is called with and the
position the caller sets before that; `Remember` is what `LoadPreset` does to the ring.
`PresetHistory` runs the callers with every verdict `LoadPreset` may give: turned down before the name
is remembered; remembered, and then unreadable, pending or shown at once. A pending load is shown by
the tick or a device reset (`Apply`), given up with Esc (`GiveUp`), or replaced, so a remembered
name need never be current. `PresetTrail` is the sequence of what was asked for and a place in it.

- `preset_history`: five slots, two presets, every caller, the R key, Esc and every verdict. The ring
  fills, wraps, and pushes its back fence. There are no holes between the fences (`NoHoles`), and
  the ring implements the trail of the newest `HistLen - 1` presets asked for (`ImplementsTrail`) until
  a new preset is turned down or the order is sequential; `intact` remembers that, and what happens
  then is under [Disagreements](#disagreements). What a move of the trail asks for is shown then or
  later, or not at all; `ClearPreset` leaves the ring alone.

### PresetLoader

The four `CState`s are cells that hold a preset, half of a double preset, or the defaults; the
four pointers and four shader sets move as `LoadPresetTick` moves them. What a file says is
reduced to its kind: plain, with shaders (compiled in the background when shader caching is on),
double, or a double that does not parse. `LoadPreset` is one action with the choices of the code
as disjuncts. Where the render thread reads a flag and acts on it later (`CancelReads`,
`ResetWaits`, the ! key's two loads), `rc` splits the call so that the compile thread gets in
between; the compile thread and the precompiler are a step per access to a shared variable.

- `preset_loader`: six presets, one of each kind and two doubles, one shaded preset precompiled too
  and one that cannot be started in the background, files that vanish, two loads with Esc, resets,
  `ClearPreset` and ! in every order, each over the preset of the start: one on screen, one abandoned,
  one that must not inherit anything from the abandoned one. On screen is the preset named as current
  (`Shown`); the render thread finds every shader of a compile that it applies in the cache
  (`RenderFindsCache`); Esc hits the load it was meant for (`CancelHitsItsLoad`); the halves of a
  double preset stay together (`HalvesTogether`); loads end (`LoadEnds`). `HalvesTogether` is said
  of a double preset whose load no other load replaced (`Spared`; see
  [Disagreements](#disagreements)). Fairness: the render loop ticks once a frame, both threads run,
  and a compile ends.

### PresetScan and PresetMenu

The scan thread enters `g_cs` to begin, to publish a burst and to finish; the window's thread asks
for a scan, ends the one that runs or terminates it, and waits for the first burst; a frame holds
`g_cs`. A list is the directory it is of and how many of it are there; what is in it does not
matter to who may use it. Which entries are directories is left open, so a random load may find none
that is a preset in any list (`NothingToLoad`). `PresetMenu` adds the modes and every key that uses the list. The keys read
it without `g_cs`, on the window's thread.

- `preset_menu`: a directory of several bursts, one of a single preset, an empty drive and a name of
  none; two calls that start scans or lose the window, at every point of the scan before. Two calls
  are one that is under way and one that ends it; safety was also run with three. Every index below
  `m_nPresets` is in the list, and a list that is ready is that of the directory that is set
  (`ListSound`); texts are typed in exactly the modes that have one, between scans a preset of
  the list is selected, and a question is about the preset it names until a scan moves it
  (`MenuSound`); the frame, the window and the scan are not kept for ever (`WaitsEnd`). Fairness: the
  scan and the window's thread run; who waits for `g_cs` gets it some time, since the others sleep
  without it (strong fairness of the steps that enter it).

Three lapses are remembered and excepted: a scan cut off with the window, a scan that finds nothing
while `ChangePresetDir` sets the same directory name, and a dropped file that is not in the list.
`orphaned` is a scan terminated inside `FindFirstFile` with the lock in hand, after which the frame
waits for ever. `CleanUpMyNonDx9Stuff` deletes `g_cs` (`VM/plugin_dx9.cpp:131`) before it ends the
scan (134): a deleted lock is one that nobody enters.

### TcpServer

One thread does everything, so what is modelled is the inside of `Poll`: the loop over `m_clients`,
the frames of one connection, the closing, erasing and answering of AUTH. `at` is the slot the
reference points at, `list[at]` the record it finds there now. A slot past the end is a destroyed
element: reading it is undefined in C++, and the model takes what the vector of the build does
(an erase moves elements forward and leaves the storage). Whole frames and delivered replies are
assumed; an empty `deviceId` is not modelled; a server without a PIN is one where every AUTH has
the right PIN. `g_respondingTcpClient` is written and never read, so it is no variable.

- `tcp_server`: a tablet that connects twice and a phone, in any order of the vector, with one or two
  frames on each connection (`Sends`: all five kinds between them), ends, silent losses, idle minutes
  and restarts. Two records of one device are what it takes for an AUTH to evict one, and the third
  is what the reference moves on to. Served exactly when answered (`AnswersHold`), and only who proved
  the PIN (`ServedProved`), one connection per device (`OnePerDevice`), no socket lost or closed twice
  (`SocketsHeld`), lost peers dropped (`LostAreDropped`). Fairness: the timer polls every 50 ms
  (`VM/MilkwaveVisualizer.cpp:2619`, weak fairness), and a minute without data passes between two
  polls now and then (strong fairness, because a poll in progress disables it). Connections come
  between polls and end before they are read, which is where `accept` and `recv` see it.

A device that connects again is the case these lines are for, and the properties cover it: the new
connection stays and the old one goes, whichever record is in front (`OnePerDevice`). What the
moved record costs is remembered record by record, and only that is excepted:

| History field | Set when | Excepts |
| --- | --- | --- |
| `adrift` | the answer went to this socket and to no record (the reference is past the end) | AUTH_OK without the mark (`AnswersHold`), a closed socket still named (`SocketsHeld`) |
| `misled` | the record was given the answer to another's AUTH | served without a PIN of its own (`ServedProved`) |
| `doubled` | it was given the device of a connection that has it already and keeps it | two records of a device (`OnePerDevice`) |

The plain reconnect, the new record last in the vector, makes that record `adrift`: the device is left with
the one connection it wants, is told AUTH_OK, and is not served until it sends AUTH again. Anything else that
goes wrong with it, or with a neighbour that is not `misled`, would violate a property.

### RemoteConnection

Everything that creates or disposes the active client is on the form's thread, an action per
handler; a handler that pumps messages while it waits is split there. The read loops post their
events to the form's queue (`posted`), and a posted call names no client. `stray` counts network
clients disposed while they connect, whose failure is still to be posted.

- `remote_connection`: two processes, one network target, two posted calls, one stray: enough for a
  user to switch while an event of the old client waits. The form has a client or its timer runs
  (`LooksForOne`); a connection that is up has been asked for the state, or will be
  (`StateAskedFor`); a dead client leaves, and with a visualizer that stays up the form is always
  connected again (`Recovers`). Fairness: the form handles its messages; connects end with an
  answer or a failure; a pipe whose process is gone breaks; a visualizer that is there again and
  again when the timer fires is accepted some time (strong fairness of `Accepted`).

### LyricsWorker

The poll, the setting, the files chosen by hand and the destructor are the render thread; the worker
takes the one pending request, looks it up, waits between retries, and applies. Both meet under
`lyricsMutex`, which neither keeps while it waits: a critical section is one action.

- `lyrics_worker`: two tracks, a file, two retries, four requests: a request can overtake one that
  waits for a retry, and one that is being applied. What is on screen is what was asked for last
  (`ShowsNewestRequest`); with automatic loading that is the track named as current
  (`FollowsTrack`), however automatic loading is switched and polls fail; "loading" ends, and so does the worker (`LookupsEnd`). Fairness: the worker runs,
  and a look-up ends (the HTTP calls have time-outs).

A poll that fails on the thumbnail has taken the track over and not asked for its lyrics
(`PollFails`, `VM/milkwave.cpp:257-285, 315`). It also forgets the session, so the next poll whose
metadata are answered counts as one of another player and asks: `missed` remembers the track until
then, and `FollowsTrack` excepts it while it is the current one.

### SongTimeline

A player has a song, a position, a rate and a status, and reports now and then with the time of the
report, without one, or not at all. The polls, the extrapolation of each frame and the smoothing
of `EffectiveLyricsPosition` are the code's, in ticks; a frame is rendered in every tick.

- `song_timeline`: songs of four and five ticks, rates 1 and 2, a jitter of one tick, a threshold of two,
  two events of player, API or user in three ticks: a report that is early and one that is late, around
  a pause, seek, change of song or of player, a poll that throws, and new lyrics at any moment.
  `Accurate`: from a poll until the next event the position is within the correction threshold and
  the jitter of the player's. `NeverBack`: lyrics that are where the player is do not go back while it
  only plays. The tolerance for steps back must be at least the threshold plus twice the jitter
  (`ToleranceAssumption`); in the code it is 1000 ms against 100 ms, and 4 ticks against 2 and 1 in the
  run, where the longer song is longer than any step that is held back.

The code holds a step back because it remembers the position shown last (`floor`), and forgets it
whenever lyrics are asked for, applied by the worker or loaded from a file (`VM/milkwave.cpp:108-109,
403-404, 494-495`), at a restart (152-153) and at the end of a song: `NewLyrics`, and the `requests` of
`PollTimeline`. The first frame after that shows the clock's own position, so the lines may go
back once; `anew` marks that frame, and `NeverBack` bounds the step by the threshold plus twice the
jitter. Lyrics are taken to be displayed, without an offset.

A song has a length (`SongsAssumption`), since the code takes a report without one for none
(`VM/milkwave.cpp:201`).

Both are said of players between events and with time stamps where they matter (`fresh`). A player
without positions makes the position jump by the length of a pause; at a change of track a time
stamp of zero is used as it is (`VM/milkwave.cpp:262`), unlike at line 213.

### TextEntry

`m_waitstring`'s buffer is never cleared, its text ends at the first Nul, and each key edits it in
place with loops over indices; a key carries how often it repeated. `TextEditor` says what the keys
mean to a text, and each step of `TextEntry` is compared with it through the mapping `Editor`.

- `text_entry`: a buffer of six characters and a limit of four; an entry begins with a text of none,
  three or five, as a name or as code, of two kinds of characters and line feeds; every key with
  up to two repeats, selections both ways, pastes of up to three characters. The cursor and the
  selection stay in the text, which has an end (`CursorInText`), and every key does what it means
  (`KeysDoAsMeant`), but for two cases (`Resurrects`, `Overlong`) and a `Cut` of nothing. An entry that
  is not code begins with one line (`Begin`): it is a name.

The limit of a name (`MaxLen`) is what `MAX_PATH` leaves beside the preset directory
(`VM/plugin_input.cpp:1494, 2123`, `VM/menu.cpp:463`), and nothing compares the text an entry begins with
to it: the name of a preset from another directory, or the directory itself, may be longer. Typing
is then refused, but the count that a paste inserts is negative (`VM/plugin_waitstring.cpp:98-99`), and
its loop moves the end of the text down over the characters before the cursor (`Slid`) or starts to
write before the buffer (`Ruin`, after which nothing is modelled: the run ends there).
`CursorInText` still holds after the former and says that the latter takes a text beyond its limit.
Assumed is only that the buffer (`Size`, of `szText`) holds the text it begins with, and that the
limit is at most the buffer and not negative: a preset directory of at most 254 characters.

Two meanings are the code's own: Delete with more repeats than characters deletes nothing, and the
limit counts the selection that is about to be replaced, so that a text that would just fit is refused.
Down in a plain name reads wide characters as bytes (`VM/plugin_waitstring.cpp:227`): with a pasted line
feed, or a character whose upper byte is not zero, it puts the cursor past the end. The model has
names of one line with upper bytes of zero. The rejection of characters a file name may not have
(`bFilterBadChars`) does nothing in the code and is not there.

## What is proved

All theorems are for every value of the constants under the named assumptions of the modules: any
ring, directory or song, any number of connections, messages, presets, loads, requests, restarts and retries.
What the counters bound in a run (`MaxRequests`, `MaxNow`) is any number here.

Few of the properties are inductive. Each proof has an invariant that is: `IInv`, `CaptureIInv`,
`TimelineIInv`, `StallInv`, a conjunction of named parts, each with a comment that says what it tells;
TLC found it to hold on the runs' instances before it was proved. One lemma per part or per group of
actions says that a step keeps it; the last steps are the usual three facts combined with PTL.

- `Audio_proof`, the ring: type correctness, which here says that every slot touched exists;
  `StaleIsSilent` and `FreshIsHeard` (`StallFallsSilent`, `RecoveryIsHeard`), from an invariant that
  ties the count of each reader to how far the cursor has moved since its last read; and the
  refinement `ImplementsWindow` (`RingIsWindow`), step by step: a capture appends its packet to the
  window, a reset empties it, a read returns its newest samples or silence, and nothing else changes
  it. It is conditional on `MaxPacket <= Size`: with longer packets it is false (see
  [Disagreements](#disagreements)). The arithmetic of the cursor is in lemmas on remainders.
- `Audio_proof`, the capture: `StaysUp`, `UsesWhatItShows`, `RevertsToWorked` (`StaysUpAlways`,
  `ShowsWhatItUses`, `GoesBack`) for any names, of inputs, outputs or both, and any depth of calls within calls. `TroubleInv`
  counts the failures by what the innermost call was made for, `RequestInv` owes each call to a
  request, `AskInv` and `NameInv` tell which of the two names is the one that worked, and in
  which direction it ran.
- `PipeServer_proof`, if the accept thread ends within Stop's wait: type correctness, no use after
  free, handlers own their pipes, no context lost, and the list tells the truth (`ListTells`).
  `PcInv` says which locals mean something at which program counter, `ListInv` that the lists are
  disjoint and name allocated contexts, `HandlerInv` how far a handler is by where its context is,
  `LeakInv` where each context is that is not deleted, `OpenInv` and `FlagInv` which handles are open
  and how the connected flag follows the list.
- `PresetHistory_proof`: types, `NoHoles`, `FencesApart`, `RetracesHistory` while `intact`, and the
  refinement `ImplementsTrail` (`HistoryIsTrail`): each caller's step is a step of the trail or a
  stutter, for a ring of any length and every verdict of each load, remembered names that are never shown
  included. `PosInv` says the position is on a remembered name, and
  lemmas about `Slot` and `Ahead` do the arithmetic of the ring.
- `PresetLoader_proof`: types, `Shown` (the state on screen is the preset named as current, with its
  shaders), `StatesApart`, `StatusTracksThread`, `CancelHitsItsLoad`, `RenderFindsCache` (`FindsCache`)
  and `HalvesTogether` (`HalvesStayTogether`). `LoadInv` and `ShaderInv` say what a pending load has
  put into the states it will be swapped in from, tick by tick; `CacheInv` where the shaders of a
  compile are between its thread and the cache; `HalvesWait` and `HalvesShown` follow the second half
  of a double preset through the swaps. Only a double preset can be `Spared` (`KindsAssumption`).
- `Menu_proof`, the scan with its menus: `ListSound` and `MenuSound` (`ListIsSound`,
  `MenuIsSound`) for any directories, bursts and calls, through scans that are ended, terminated or
  begun again. `FoundInv` says what a scan has found and added at each point, `UnforcedInv` why a scan
  that nobody forced runs, `AimInv` which directory it is for, `WholeInv` and `SelectInv` what a scan
  that ended leaves behind. `Most`, the size of the largest directory, is a constant for this.
- `Menu_proof`, the text entry: `CursorInText` (`CursorStays`) for any texts that fit the buffer, also
  beyond their limit, any clipboards and repeats. `TextIInv` adds that the text ends in its buffer with no Nul before, and that plain text has
  no line feed: without that, Down leaves it. `EndsBetween` says of a buffer a key has worked on where
  its text ends at the latest and what is text in any case; a paste of a negative count has
  a case of its own, from what `Slid` leaves in place; each loop of a key has a lemma about one turn, and `LoopKeeps` and `LoopStays` carry it to the last turn, because the numbers of the turns
  that break it would have a least (`WFMin`).
- `Menu_proof`, the text entry: `KeysDoAsMeant` (`KeysMean`), every key against `TextEditor`. `Holds(b, t)`
  says a buffer holds a text; the lemmas cut a text (`PartsAre`), close the gap of a selection
  (`MoveDownHolds`), splice characters in (`SpliceHolds`) and type over (`OverHolds`). A character that
  repeats is a loop whose buffer after k turns holds `TypedText(c, k)`, if `Resurrects` does not hold. A
  paste is the editor's unless the text is `Overlong`; every other key is on such a text, too.
  The moves are the editor's own functions of the line (`LineStartIs`, `LineEndIs`, `AboveIs`, `BelowIs`)
  and of the word, turn by turn.
- `TcpServer_proof`: types (the erase loop counts down over slots that exist, for any list),
  `SocketsHeld`, `AnswersHold`, `ServedProved` and `OnePerDevice` (`NoSocketLost`, `AnswersAgree`,
  `OnlyProvedServed`, `DevicesApart`), through every eviction, for any number of connections and
  devices. `LoopInv` ties the reference to the list, `ListInv` says a connection has one record and an
  unlisted one none, `AuthInv` what an AUTH leaves behind: while one is at hand, no record but the
  sender's names its device (`DeviceInv`), wherever the reference has moved to.
- `Media_proof`, the lyrics: types (with the bound on retries), `ShowsNewestRequest`, `FollowsTrack`,
  `FileBacksDocument` and `RequestHeld`: a document that says it is loading is not forgotten. `FollowsTrack`
  (`TrackFollowed`) holds through polls that fail before and after they took the track over.
  `PendingInv` and `JobInv` say what the job in the worker's hands tells of the newest request.
- `Media_proof`, the timeline: `Accurate` and `NeverBack` (`StaysAccurate`, `NeverGoesBack`) for songs of
  any length, any rates and any jitter, with new lyrics at any moment. `ReportInv`: what a player reported, taken as far as it has
  played since, is within the jitter of where it is. `FreshInv`: the clock runs at the player's rate
  and is never ahead of that report, nor a correction behind it. The lemmas say that two places
  that move on at one rate come no further apart, not even at the end of the song.
- `Connection_proof`, the Remote: types through nested connects and posted calls, `LooksForOne`,
  `StateAskedFor`: whichever posted call takes a client away.
- `Connection_proof`, the pipe: `MessagesWhole` (`MessagesArriveWhole`) for any sizes of messages, reads,
  caps and quotas; news fit the Remote's cap (`NewsAssumption`). A `Piece` is what lies between two
  places of a message. `VisPipe` and `ReadInv` say that the pipe goes on where the completed read
  ends, and that read where the assembly ends (`Absorbed`); `UnwrittenInv`, `RemotePipe` and
  `NewsOrder` that what is received, in the pipe and queued are one ascending sequence of messages
  taken, the first in the pipe cut where `pending` ends; `NoneSkipped` that none is missing in between
  unless the server had stopped and nothing came after it. The lemmas say how pieces are cut and
  joined and what a read of a pipe gets.

### Only model-checked

- Liveness (`CallsEnd`, `CallsReturn`, `MessagesArrive`, `HandlerEnds`, `LoadEnds`, `LostAreDropped`,
  `LookupsEnd`, `Recovers`, `WaitsEnd`): the prover has no fairness and no ENABLED.

## Disagreements

No run is expected to fail: where the code does not do what it or its documents say, the property that
is checked names the case and excepts it, and the case is described here.

- `audio/audiobuf.cpp:193` says a packet longer than the ring keeps its newest samples. The loop
  (197) stops at the ring's length instead of the packet's, so some or all of them are dropped.
- `VM/plugin_presets.cpp:78` says the next key marches forward through history. The position is moved
  first (157), the name added later or not at all: after a load that was turned down it is on the
  forward fence, and the key marches through what is no history. (`intact`)
- `VM/plugin_presets.cpp:708`: `m_bLoadingMilk2` is "true when loading a .milk2 double-preset"
  (`VM/plugin.h:620`), and an ordinary load does not clear it: one that replaces a pending double
  preset is applied as a double preset, blended for good with half of the other file. (`Spared`)
- `VM/tcp_server.cpp:157`: commands may follow AUTH_OK (`IPC-Protocol.md:51`). A device that connects again
  while its old connection is listed evicts the record in front of its own, which moves; the mark
  is written through a reference to the slot left behind, and the commands are dropped (`adrift`). If a
  third connection comes behind, the mark, the device and AUTH_OK go to that one (`misled`), and a
  later AUTH may leave two records with one device (`doubled`). The Remote makes such connections
  itself: `SendToAllInstances` opens one per message (`MilkwaveRemoteForm.cs:1421-1429`).
- `VM/MilkwaveVisualizer.cpp:2909-2914`: "Revert to previous audio device", and the direction the failed
  request asked for stays. After `OUT|` with a device that fails, a microphone that worked is looked for
  among the outputs, and the default output is captured instead. (`StillFound`)
- `VM/plugin_waitstring.cpp:98-99`: `nMaxLen` is there "because win32 LoadFile, MoveFile, etc. barf"
  (`VM/plugin_input.cpp:2123`), and the text of the entry may be beyond it from the beginning. A paste then
  deletes what is before the cursor, or writes in front of the buffer. (`Overlong`)
- `VM/MilkwaveVisualizer.cpp:2892, 2919`: `src/README.md:27` says audio devices can be switched from the
  Remote. A second request while the first waits for the old capture to end sets the state the
  loop looks at afterwards, and the process ends under its render thread. (`raced`)
- `MilkwaveRemoteForm.cs:1777, 1791`: a disconnect posted by a client that was replaced disposes the new one:
  the handler is unsubscribed, the posted call is not. The re-scan finds a client again (`Recovers`).
- `VM/plugin_presets.cpp:1016-1017`: "if Mask (dir) changed, do a full re-scan; if not, just finish our old scan".
  The old search is not kept: a scan cut off with the window has nothing to go on with, finds
  nothing, and empties the list. (`"cut"`)

Seen while modelling, and claimed nowhere:

- Loader: with background compiles, the second load of the ! key is turned down, so the random preset
  stays (`VM/plugin_input.cpp:1939`); a double preset loses its blend, and sprites go, before a load is
  turned down (`VM/plugin_presets.cpp:568`); Esc also stops the file the precompiler is at, which is
  then counted as compiled.
- TCP: `SendRaw` (`VM/tcp_server.cpp:213`) makes the socket blocking and sends on the window's thread: a client that
  does not read stops the frames.
- Remote: `IsConnected` is looked at right after `ConnectAsync`, so a message to all instances practically
  never reaches a network target; switching away from a network target that is connecting posts a
  detach that takes down the next client.
- History: a preset whose file cannot be read, or whose load is given up with Esc, stays in the history
  (`VM/plugin_presets.cpp:603-640, 542-560`): back and next stop at it, although it was never shown.
- Timeline: new lyrics reset the floor, so the lines may step back when a look-up ends in the middle of a
  song, by less than the correction and twice the jitter (`anew`).
- Lyrics: a poll that cannot save the thumbnail (`VM/milkwave.cpp:281`) names the new track and leaves the
  old lyrics up until a poll is answered with metadata (`missed`).
- Lyrics: with automatic loading off, a change of track leaves the old lyrics up; at the end of a
  session `currentLyricsFile` keeps the old name (`VM/milkwave.h:105`).
- Audio: two failures in a row end the process; nested restarts keep their stack and the device names of
  each level.
- Preset list: `ChangePresetDir` is called with `m_szPresetDir` itself as the directory to go back to, so
  a directory that does not exist stays set (`VM/plugin_input.cpp:1684`), and after an empty drive the
  default is scanned while the drive's name is put back (1674).
- Menus: keys read `m_presets[m_nPresetListCurPos]` without `g_cs` and without a look at the range. While a scan
  runs, or after a dropped file that is not found (`VM/plugin_input.cpp:215`) or End in an empty list
  (1422), the place is not in the list. A scan that ends selects anew (`VM/plugin_presets.cpp:1260`) while a
  question about a preset is up: y or Return then deletes or renames another. L says "make sure list
  is completely ready" (2151), and returns with the first burst. In the list every letter seeks
  (1801), so the branches of L and M for that mode are never reached.
- Text: typing over a selection at the end of a text, with overtype on, uses the length from before the
  selection was removed (`VM/plugin_input.cpp:331-404`): what was behind it is text again. A paste that just
  fits reports that it is too long.

## Plan

| Module | Source | Properties | Proofs |
| --- | --- | --- | --- |
| `LrcLines` | `VM/Lyrics.cpp` | the current line against a reference definition; the save survives a crash | |
| `WindowLifecycle` | `VM/MilkwaveVisualizer.cpp:2375-2684, 2928-3057` | servers, compile and device across re-creation; a precompile that was interrupted is taken up | |

Proofs to come: a request the loop of the capture sees is followed by a restart or an end, as far as
that is a safety property.

## Not modelled

- Rendering, blend patterns, spectrum and expressions: floating point on one thread, no protocol.
- What is in a preset, shader or lyrics file: parsing, reduced to the kinds that steer the code.
- Settings, logging, textures, device creation, and the keys and commands that set one value each.
- Mash-up: which parts of which preset are mixed; its use of the list is in `PresetMenu`.
- Video input: the camera callback and the render thread share a frame under `try_lock`; the exclusion
  is the mutex, and the graph that calls back is DirectShow's.
- The Remote's form: controls, scripts, MIDI and controllers on one thread, around the connection.
- `spoutDX9`, `lib`, `DarkModeCS`, `FlatTabControl`, presets, installer, build files: third party or data.

Most lines of the program are in these: it is a renderer, a shader generator and two large forms of
settings around the protocols modelled here.
