---------------------------- MODULE SongTimeline ----------------------------
(***************************************************************************)
(* Where in the song we are (milkwave.cpp, song_timeline.h).  A player     *)
(* reports its position now and then, with the time of the report; the     *)
(* render thread polls the report, extrapolates from it on a clock of its  *)
(* own, and keeps the lyrics from jumping back.  A player may leave the    *)
(* time of its reports unset, or report no position at all.                *)
(*                                                                         *)
(* Time counts in ticks; a frame is rendered in every tick.                *)
(***************************************************************************)
EXTENDS Integers

CONSTANTS Songs,      \* songs, numbers; a song's number tells its length
          Length,     \* the length of the shortest
          Rates,      \* rates of playback
          Jitter,     \* by how much a player's report may be off
          Correction, \* a correction from here on moves the clock: 100 ms
          Backward,   \* kLyricsBackwardJitterToleranceMs
          Assumed,    \* ASSUMED_TIMELINE_START_OFFSET_MS
          Epoch,      \* the system's clock when the program starts
          Tracked,    \* which kinds of players there are
          MaxNow,     \* bound on the time
          MaxEvents   \* bound on what happens to the player, the API and the user

ASSUME TicksAssumption == /\ {Jitter, Correction, Backward, Assumed, MaxNow, MaxEvents} \subseteq Nat
                          /\ Correction > 0 /\ Epoch \in Nat /\ Epoch > 0
\* A player without a length reports no position; one without a rate plays at rate 1.
ASSUME SongsAssumption == Songs \subseteq Nat /\ Length \in Nat \ {0} /\ Rates \subseteq Nat /\ 1 \in Rates
ASSUME ToleranceAssumption == Backward >= Correction + 2 * Jitter
ASSUME KindsAssumption == Tracked \subseteq {"stamped", "unstamped", "silent"}

VARIABLES
    now,        \* steady_clock
    kind,       \* what the player of the session reports
    song,       \* the song it plays
    at,         \* where in the song it is
    status,     \* "playing", "paused", "stopped"
    rate,
    report,     \* the timeline properties: position, LastUpdatedTime
    \* Milkwave
    smtc,       \* smtcSession is the current one
    current,    \* the song of currentArtist, currentTitle; -1 for none
    clock,      \* timelineClock
    position,   \* currentPositionMs
    base,       \* timelineBasePositionMs, timelineBaseTime
    hasTimeline, isPlaying,
    floor,      \* m_lastShownLyricsPositionMs, -1 without m_hasShownLyricsPosition
    shown,      \* history: the position the lyrics were last shown at, -1 before the first
    anew,       \* history: in the last step they were shown without a floor
    fresh,      \* history: nothing happened to the player since it was polled
    events      \* history: how often something happened

player == <<kind, song, at, status, rate, report>>
screen == <<floor, shown>>
milkwaveVars == <<smtc, current, clock, position, base, hasTimeline, isPlaying, screen>>
songVars == <<now, player, milkwaveVars, anew, fresh, events>>

Duration(s) == Length + s
Clamp(p, most) == IF p < 0 THEN 0 ELSE IF p > most THEN most ELSE p
utc == Epoch + now

NoClock == [ready |-> FALSE, dur |-> 0, updated |-> 0, anchorAt |-> 0, anchorPos |-> 0,
            rate |-> 1, playing |-> FALSE]
Clocks == [ready : BOOLEAN, dur : Nat, updated : Nat, anchorAt : Nat, anchorPos : Nat,
           rate : Nat, playing : BOOLEAN]

SongTypeOK ==
    /\ now \in 0 .. MaxNow
    /\ kind \in Tracked /\ song \in Songs /\ at \in 0 .. Duration(song)
    /\ status \in {"playing", "paused", "stopped"} /\ rate \in Rates
    /\ report \in [pos : 0 .. Duration(song), stamp : 0 .. utc]
    /\ smtc \in BOOLEAN /\ current \in Songs \cup {-1}
    /\ clock \in Clocks /\ clock.anchorAt <= now /\ clock.updated <= utc
    /\ clock.anchorPos <= clock.dur /\ (clock.ready \/ clock = NoClock)
    /\ position \in Nat /\ base \in [pos : Nat, at : 0 .. now]
    /\ hasTimeline \in BOOLEAN /\ isPlaying \in BOOLEAN
    /\ shown \in Nat \cup {-1} /\ floor \in {-1, shown} /\ anew \in BOOLEAN
    /\ fresh \in BOOLEAN /\ events \in 0 .. MaxEvents

-----------------------------------------------------------------------------
(***************************************************************************)
(* SongTimelineClock.                                                      *)
(***************************************************************************)
Position(c, t) ==
    IF ~c.ready THEN -1
    ELSE IF ~c.playing \/ t <= c.anchorAt THEN Clamp(c.anchorPos, c.dur)
    ELSE Clamp(c.anchorPos + (t - c.anchorAt) * c.rate, c.dur)

Abs(n) == IF n < 0 THEN -n ELSE n

\* Mutant: the age of the report is not made up for.
UpdatedAsReported(c, pos, dur, stamp, playing, r) ==
    IF dur <= 0 \/ stamp < c.updated THEN c
    ELSE [ready |-> TRUE, dur |-> dur, updated |-> stamp, rate |-> r, playing |-> playing,
          anchorAt |-> now, anchorPos |-> Clamp(pos, dur)]

(***************************************************************************)
(* Update: a report that is not older than the last moves the clock if it  *)
(* is behind the prediction or well ahead of it; else the prediction goes  *)
(* on from here.                                                           *)
(***************************************************************************)
Updated(c, pos, dur, stamp, playing, r) ==
    LET predicted == Position(c, now)
        corrected == Clamp(IF playing /\ utc >= stamp THEN pos + (utc - stamp) * r ELSE pos, dur)
        moved == \/ ~c.ready \/ dur # c.dur \/ playing # c.playing \/ r # c.rate
                 \/ corrected < predicted \/ Abs(corrected - predicted) >= Correction
    IN  IF dur <= 0 \/ stamp < c.updated THEN c
        ELSE [ready |-> TRUE, dur |-> dur, updated |-> stamp, rate |-> r, playing |-> playing,
              anchorAt |-> now, anchorPos |-> IF moved THEN corrected ELSE predicted]

-----------------------------------------------------------------------------
(***************************************************************************)
(* The player.  A stamped one reports whenever something happens, and when *)
(* it likes; an unstamped one reports where it is when it is asked.        *)
(***************************************************************************)
Playing == status = "playing"
Near(p, s) == {Clamp(p + off, Duration(s)) : off \in (-Jitter) .. Jitter}
Reports(k, s, p) ==
    report' \in CASE k = "stamped"   -> [pos : Near(p, s), stamp : {utc}]
                  [] k = "unstamped" -> [pos : Near(p, s), stamp : {0}]
                  [] k = "silent"    -> [pos : {0}, stamp : {0}]

SongInit ==
    /\ now = 0 /\ kind \in Tracked /\ song \in Songs /\ at = 0
    /\ status = "playing" /\ rate = 1
    /\ report = [pos |-> 0, stamp |-> IF kind = "stamped" THEN Epoch ELSE 0]
    /\ smtc = FALSE /\ current = -1 /\ clock = NoClock /\ position = 0
    /\ base = [pos |-> 0, at |-> 0]
    /\ hasTimeline = FALSE /\ isPlaying = FALSE
    /\ floor = -1 /\ shown = -1 /\ anew = FALSE
    /\ fresh = FALSE /\ events = 0

Happens == events < MaxEvents /\ events' = events + 1 /\ fresh' = FALSE /\ anew' = FALSE

Change(s, p, st, r) ==
    /\ song' = s /\ at' = p /\ status' = st /\ rate' = r
    /\ Reports(kind, s, p)
    /\ Happens
    /\ UNCHANGED <<now, kind, milkwaveVars>>

Pause == Playing /\ Change(song, at, "paused", rate)
Stop == status # "stopped" /\ Change(song, 0, "stopped", rate)
Resume == ~Playing /\ Change(song, at, "playing", rate)
SetRate(r) == r # rate /\ Change(song, at, status, r)
Seek(p) == p # at /\ Change(song, p, status, rate)
NextSong(s) == s # song /\ Change(s, 0, status, rate)

Report == /\ Reports(kind, song, at) /\ report' # report /\ anew' = FALSE
          /\ UNCHANGED <<now, kind, song, at, status, rate, milkwaveVars, fresh, events>>

\* Another player takes over the session.
AnotherPlayer(k, s) ==
    /\ kind' = k /\ song' = s /\ at' = 0 /\ status' = "playing"
    /\ s # song
    /\ Reports(k, s, 0) /\ UNCHANGED rate
    /\ smtc' = FALSE /\ Happens
    /\ UNCHANGED <<now, current, clock, position, base, hasTimeline, isPlaying, screen>>

-----------------------------------------------------------------------------
(***************************************************************************)
(* Milkwave.  What a poll does to the timeline, as a record of what        *)
(* UpdateCurrentPosition and the branches of PollMediaInfo read and write. *)
(***************************************************************************)
Line(c, pos, b, timeline, playing) ==
    [clock |-> c, position |-> pos, base |-> b, hasTimeline |-> timeline, isPlaying |-> playing]

UpdateCurrentPosition(m, t) ==
    IF ~m.hasTimeline \/ ~m.isPlaying THEN m
    ELSE IF m.clock.ready THEN [m EXCEPT !.position = Position(m.clock, t)]
    ELSE [m EXCEPT !.position = m.base.pos + (t - m.base.at)]

Here(pos) == [pos |-> pos, at |-> now]

\* A player without a timeline: the position counts from an assumed start.
Approximate(playing) == Line(NoClock, Assumed, Here(Assumed), TRUE, playing)

ResetTimeline(m, timeline) == [m EXCEPT !.clock = NoClock, !.position = 0, !.base = Here(0),
                                        !.hasTimeline = timeline]

Timeline == Line(clock, position, base, hasTimeline, isPlaying)

\* Mutant: only a large step back moves the lyrics back, and from there on they are held.
ShownAlways(p, last) == p

(***************************************************************************)
(* EffectiveLyricsPosition: a small step back is not shown.                *)
(***************************************************************************)
Shown(p, last) == IF last # -1 /\ p < last /\ last - p <= Backward THEN last ELSE p

(***************************************************************************)
(* What a frame leaves behind, with a floor or without (-1).  Lyrics are   *)
(* looked up only while playing.                                           *)
(***************************************************************************)
Show(m, last) ==
    /\ clock' = m.clock /\ position' = m.position /\ base' = m.base
    /\ hasTimeline' = m.hasTimeline /\ isPlaying' = m.isPlaying
    /\ IF m.isPlaying
       THEN shown' = Shown(m.position, last) /\ floor' = shown'
       ELSE floor' = last /\ UNCHANGED shown

\* A report without its time counts as one of now.
Reported == kind # "silent"
Ended == ~Reported /\ status = "stopped"
Reading(c) == Line(c, Position(c, now), Here(Position(c, now)), TRUE, Playing)
Polled == Updated(clock, report.pos, Duration(song), IF report.stamp > 0 THEN report.stamp ELSE utc,
                  Playing, rate)

Read == IF Reported THEN Reading(Polled)
        ELSE IF ~smtc THEN Approximate(Playing)
        ELSE [UpdateCurrentPosition(Timeline, now) EXCEPT !.isPlaying = Playing]

Placed == IF Ended THEN ResetTimeline(Read, current # -1) ELSE UpdateCurrentPosition(Read, now)

\* The metadata shows another song: the clock starts again from the report, as it is.
NewSong == IF Reported
           THEN Reading(Updated(NoClock, report.pos, Duration(song), report.stamp, Playing, rate))
           ELSE Approximate(Playing)

\* What the player says when it is asked.
Asked == kind = "unstamped" => report.pos \in Near(at, song)

(***************************************************************************)
(* PollMediaInfo with a session; `metadata' says that the song was asked   *)
(* for and answered, `requests' that its lyrics are looked up again: for   *)
(* another song or an explicit poll, with m_bLyricsAutoLoad.               *)
(***************************************************************************)
PollTimeline(metadata, requests) ==
    LET changed == metadata /\ (~smtc \/ current # song)
    IN  /\ Asked
        /\ requests => metadata
        /\ smtc' = TRUE
        /\ current' = IF metadata THEN song ELSE current
        /\ Show(IF changed THEN NewSong ELSE Placed, IF Ended \/ requests THEN -1 ELSE floor)
        /\ anew' = (floor = -1 \/ requests)
        /\ fresh' = (Reported /\ (changed => report.stamp > 0) /\ (metadata \/ (smtc /\ current = song)))
        /\ UNCHANGED <<now, player, events>>

\* PollMediaInfo without a session: nothing is known any more.
PollNothing ==
    /\ smtc' = FALSE /\ current' = -1
    /\ Show(Line(NoClock, 0, Here(0), FALSE, FALSE), floor)
    /\ Happens
    /\ UNCHANGED <<now, player>>

(***************************************************************************)
(* The media API throws, before the report is read, after it, or on the    *)
(* thumbnail of another song: the clock is lost, what was playing plays    *)
(* on from where the poll has put it.                                      *)
(***************************************************************************)
PollThrows ==
    /\ smtc' = FALSE
    /\ \/ /\ UNCHANGED current
          /\ Show([UpdateCurrentPosition(Timeline, now) EXCEPT !.clock = NoClock], floor)
       \/ /\ Asked /\ UNCHANGED current
          /\ Show([Placed EXCEPT !.clock = NoClock], IF Ended THEN -1 ELSE floor)
       \/ /\ Asked /\ current' = song
          /\ Show([NewSong EXCEPT !.clock = NoClock], IF Ended THEN -1 ELSE floor)
    /\ Happens
    /\ UNCHANGED <<now, player>>

(***************************************************************************)
(* New lyrics: asked for by message, put up by the worker, or loaded from  *)
(* a file.                                                                 *)
(***************************************************************************)
NewLyrics == /\ floor' = -1 /\ anew' = FALSE
             /\ UNCHANGED <<now, player, smtc, current, clock, position, base, hasTimeline,
                            isPlaying, shown, fresh, events>>

\* LYRICS_RESTART
Restart ==
    /\ Show(ResetTimeline(Timeline, hasTimeline), -1)
    /\ Happens
    /\ UNCHANGED <<now, player, smtc, current>>

\* A tick: the player plays, a frame is rendered without a poll.
Tick ==
    /\ now < MaxNow /\ now' = now + 1
    /\ at' = IF Playing THEN Clamp(at + rate, Duration(song)) ELSE at
    /\ Show(UpdateCurrentPosition(Timeline, now + 1), floor)
    /\ anew' = (floor = -1)
    /\ UNCHANGED <<kind, song, status, rate, report, smtc, current, fresh, events>>

SongNext ==
    \/ Tick
    \/ \E metadata, requests \in BOOLEAN : PollTimeline(metadata, requests)
    \/ PollNothing \/ PollThrows \/ Restart \/ NewLyrics
    \/ Pause \/ Stop \/ Resume \/ Report
    \/ \E r \in Rates : SetRate(r)
    \/ \E p \in 0 .. Duration(song) : Seek(p)
    \/ \E s \in Songs : NextSong(s) \/ \E k \in Tracked : AnotherPlayer(k, s)

SongSpec == SongInit /\ [][SongNext]_songVars

-----------------------------------------------------------------------------
(***************************************************************************)
(* From a poll on, and until the player does something else, the position  *)
(* keeps within the tolerance of where the player is: reports that are     *)
(* early or late do not add up over polls, changes of rate or of song.     *)
(***************************************************************************)
Accurate ==
    /\ SongTypeOK
    /\ fresh => at - position < Correction + Jitter /\ position - at <= Jitter

(***************************************************************************)
(* Lyrics that are where the player is do not go back while the player     *)
(* only plays, whatever the jitter of its reports and the corrections of   *)
(* the clock; but for the first frame of new lyrics, which goes back by    *)
(* less than these come to (EffectiveLyricsPosition, milkwave.cpp:326-347, *)
(* and the resets of its floor: 108-109, 152-153, 403-404, 494-495).       *)
(***************************************************************************)
NeverBack ==
    [][fresh /\ fresh' /\ shown <= at + Jitter =>
          shown' >= shown \/ (anew' /\ shown - shown' < Correction + 2 * Jitter)]_songVars
=============================================================================
