---------------------------- MODULE Media_proof ----------------------------
(***************************************************************************)
(* What follows the media session.  The song's timeline: for any songs,    *)
(* rates and jitter the position keeps to the player's, and the lyrics do  *)
(* not go back.  The lyrics: for any tracks, files, number of retries and  *)
(* of requests those on screen are those asked for last, their file is     *)
(* named, and no request is lost between the render thread and the worker. *)
(***************************************************************************)
EXTENDS SongTimeline, LyricsWorker, TLAPS

-----------------------------------------------------------------------------
(***************************************************************************)
(* The timeline of the song.                                               *)
(***************************************************************************)
Tolerable(p) == at - p < Correction + Jitter /\ p - at <= Jitter

\* Where the player is, from what it reported and when.
Aim(pos, dur, stamp, playing, r) ==
    Clamp(IF playing /\ utc >= stamp THEN pos + (utc - stamp) * r ELSE pos, dur)
Corrected(stamp) == Aim(report.pos, Duration(song), stamp, Playing, rate)
Close(p) == p - at <= Jitter /\ at - p <= Jitter

\* A report tells where the player is, and is not older than what the clock has seen.
ReportInv ==
    /\ kind = "stamped" => /\ report.stamp > 0 /\ clock.updated <= report.stamp
                           /\ Close(Corrected(report.stamp))
    /\ kind = "unstamped" => report.stamp = 0

\* The clock goes as the player does, and the position is the clock's.
FreshInv ==
    fresh => /\ clock.ready /\ clock.dur = Duration(song) /\ clock.rate = rate
             /\ clock.playing = Playing /\ isPlaying = Playing /\ hasTimeline
             /\ position = Position(clock, now)
             /\ Tolerable(position)

TimelineIInv == SongTypeOK /\ ReportInv /\ FreshInv

\* A clock, and a timeline, at a time.
ClockAt(c, t) ==
    /\ c \in Clocks /\ c.anchorAt <= t /\ c.updated <= Epoch + t
    /\ c.anchorPos <= c.dur /\ (c.ready \/ c = NoClock)
Bases == [pos : Nat, at : Nat]
Lines == [clock : Clocks, position : Nat, base : Bases, hasTimeline : BOOLEAN, isPlaying : BOOLEAN]
LineAt(m, t) == m \in Lines /\ ClockAt(m.clock, t) /\ m.base.at <= t

-----------------------------------------------------------------------------
(***************************************************************************)
(* The arithmetic of the timeline.                                         *)
(***************************************************************************)
LEMMA SongNumbers ==
    /\ Jitter \in Nat /\ Correction \in Nat /\ Backward \in Nat /\ Assumed \in Nat
    /\ MaxNow \in Nat /\ MaxEvents \in Nat /\ Epoch \in Nat /\ Epoch > 0 /\ Correction > 0
    /\ Rates \subseteq Nat /\ Songs \subseteq Nat
    /\ \A s \in Songs : Duration(s) \in Nat \ {0}
    BY TicksAssumption, SongsAssumption DEF Duration

LEMMA ClampRange ==
    \A p \in Int, most \in Nat : Clamp(p, most) \in 0 .. most /\ (p \in 0 .. most => Clamp(p, most) = p)
    BY DEF Clamp

\* What is cut off before a step is cut off after it.
LEMMA ClampSteps ==
    \A p, d, most \in Nat : Clamp(Clamp(p, most) + d, most) = Clamp(p + d, most)
    BY DEF Clamp

\* Two places move apart by no step, not even at the end of the song.
LEMMA ClampClose ==
    \A most, d, k \in Nat : \A p, q \in 0 .. most :
        p - q <= k => Clamp(p + d, most) - Clamp(q + d, most) <= k
    BY DEF Clamp

\* How far a clock has gone on since it was set.
Gone(c, t) == (t - c.anchorAt) * c.rate

LEMMA GoneOn ==
    ASSUME NEW t \in Nat, NEW c, ClockAt(c, t)
    PROVE  Gone(c, t) \in Nat /\ Gone(c, t + 1) = Gone(c, t) + c.rate /\ (t = c.anchorAt => Gone(c, t) = 0)
<1>1. t - c.anchorAt \in Nat /\ c.anchorAt \in Nat /\ c.rate \in Nat
    BY DEF ClockAt, Clocks
<1>2. \A n, r \in Nat : n * r \in Nat /\ (n + 1) * r = n * r + r /\ 0 * r = 0
    OBVIOUS
<1>3. t + 1 - c.anchorAt = (t - c.anchorAt) + 1
    BY <1>1
<1>. QED BY <1>1, <1>2, <1>3 DEF Gone

-----------------------------------------------------------------------------
(***************************************************************************)
(* SongTimelineClock.                                                      *)
(***************************************************************************)
LEMMA ClockPosition ==
    ASSUME NEW t \in Nat, NEW c, ClockAt(c, t), c.ready
    PROVE  /\ Position(c, t) \in 0 .. c.dur
           /\ c.playing => Position(c, t) = Clamp(c.anchorPos + Gone(c, t), c.dur)
           /\ ~c.playing => Position(c, t) = c.anchorPos
           /\ c.anchorAt = t => Position(c, t) = c.anchorPos
<1>1. c.anchorPos \in 0 .. c.dur /\ c.dur \in Nat /\ c.anchorPos \in Nat /\ c.anchorAt \in Nat
      /\ c.anchorAt <= t
    BY DEF ClockAt, Clocks
<1>2. Gone(c, t) \in Nat /\ (t = c.anchorAt => Gone(c, t) = 0)
    BY GoneOn
<1>3. Clamp(c.anchorPos, c.dur) = c.anchorPos
    BY <1>1 DEF Clamp
<1>4. CASE ~c.playing \/ t <= c.anchorAt
    <2>1. Position(c, t) = c.anchorPos
        BY <1>3, <1>4 DEF Position
    <2>2. t <= c.anchorAt => c.anchorPos + Gone(c, t) = c.anchorPos
        BY <1>1, <1>2
    <2>3. c.playing => Clamp(c.anchorPos + Gone(c, t), c.dur) = c.anchorPos
        BY <1>3, <1>4, <2>2
    <2>. QED BY <1>1, <2>1, <2>3
<1>5. CASE c.playing /\ ~(t <= c.anchorAt)
    <2>1. Position(c, t) = Clamp(c.anchorPos + Gone(c, t), c.dur)
        BY <1>5 DEF Position, Gone
    <2>2. Clamp(c.anchorPos + Gone(c, t), c.dur) \in 0 .. c.dur
        BY <1>1, <1>2 DEF Clamp
    <2>. QED BY <1>1, <1>5, <2>1, <2>2
<1>. QED BY <1>4, <1>5

LEMMA ClockTicks ==
    ASSUME NEW t \in Nat, NEW c, ClockAt(c, t), c.ready
    PROVE  /\ ClockAt(c, t + 1)
           /\ c.playing => Position(c, t + 1) = Clamp(Position(c, t) + c.rate, c.dur)
           /\ ~c.playing => Position(c, t + 1) = Position(c, t)
<1>1. ClockAt(c, t + 1) /\ t + 1 \in Nat
    BY SongNumbers DEF ClockAt, Clocks
<1>2. c.anchorPos + Gone(c, t) \in Nat /\ c.rate \in Nat /\ c.dur \in Nat
    BY GoneOn DEF ClockAt, Clocks
<1>3. c.anchorPos + Gone(c, t + 1) = (c.anchorPos + Gone(c, t)) + c.rate
    BY GoneOn DEF ClockAt, Clocks
<1>4. Clamp(Clamp(c.anchorPos + Gone(c, t), c.dur) + c.rate, c.dur)
         = Clamp((c.anchorPos + Gone(c, t)) + c.rate, c.dur)
    BY <1>2, ClampSteps
<1>5. c.playing => Position(c, t) = Clamp(c.anchorPos + Gone(c, t), c.dur)
    BY ClockPosition
<1>6. c.playing => Position(c, t + 1) = Clamp(c.anchorPos + Gone(c, t + 1), c.dur)
    BY <1>1, ClockPosition
<1>7. ~c.playing => Position(c, t + 1) = c.anchorPos /\ Position(c, t) = c.anchorPos
    BY <1>1, ClockPosition
<1>. QED BY <1>1, <1>3, <1>4, <1>5, <1>6, <1>7

\* A clock that was set now, to a place that was aimed at, or a little behind it.
SetNow(n, dur, stamp, playing, r, aim) ==
    /\ ClockAt(n, now) /\ n.ready /\ n.dur = dur /\ n.updated = stamp /\ n.rate = r
    /\ n.playing = playing /\ aim \in 0 .. dur
    /\ Position(n, now) <= aim /\ aim - Position(n, now) < Correction
    /\ Position(n, now) \in 0 .. dur

\* A report that is not older than the last one moves the clock to where the report says, or
\* leaves it less than a correction behind that.
LEMMA ClockUpdates ==
    ASSUME now \in Nat, NEW c, ClockAt(c, now), NEW pos \in Nat, NEW dur \in Nat \ {0},
           NEW stamp \in 0 .. utc, c.updated <= stamp, NEW playing \in BOOLEAN, NEW r \in Nat
    PROVE  SetNow(Updated(c, pos, dur, stamp, playing, r), dur, stamp, playing, r,
                  Aim(pos, dur, stamp, playing, r))
<1>. DEFINE n == Updated(c, pos, dur, stamp, playing, r)
            p == Aim(pos, dur, stamp, playing, r)
<1>1. utc \in Nat /\ stamp \in Nat /\ utc - stamp \in Nat /\ c.updated \in Nat
    BY SongNumbers DEF utc, ClockAt, Clocks
<1>2. p \in 0 .. dur
    <2>. DEFINE q == IF playing /\ utc >= stamp THEN pos + (utc - stamp) * r ELSE pos
    <2>1. \A k, m \in Nat : k * m \in Nat
        OBVIOUS
    <2>2. (utc - stamp) * r \in Nat
        BY <1>1, <2>1
    <2>3. q \in Int
        BY <2>2
    <2>4. p = Clamp(q, dur)
        BY DEF Aim
    <2>. HIDE DEF q
    <2>. QED BY <2>3, <2>4, ClampRange
<1>3. PICK a : /\ a = p \/ (c.ready /\ dur = c.dur /\ a = Position(c, now)
                            /\ ~(p < a) /\ ~(Abs(p - a) >= Correction))
               /\ n = [ready |-> TRUE, dur |-> dur, updated |-> stamp, rate |-> r, playing |-> playing,
                       anchorAt |-> now, anchorPos |-> a]
    <2>1. ~(dur <= 0 \/ stamp < c.updated)
        BY <1>1
    <2>. QED BY <2>1 DEF Updated, Aim
<1>. HIDE DEF n, p
<1>4. a \in 0 .. dur /\ a <= p /\ p - a < Correction
    <2>1. CASE a = p
        BY <1>2, <2>1, SongNumbers
    <2>2. CASE c.ready /\ dur = c.dur /\ a = Position(c, now) /\ ~(p < a) /\ ~(Abs(p - a) >= Correction)
        <3>1. a \in 0 .. dur
            BY <2>2, ClockPosition
        <3>. QED BY <1>2, <2>2, <3>1, SongNumbers DEF Abs
    <2>. QED BY <1>3, <2>1, <2>2
<1>5. ClockAt(n, now) /\ n.ready /\ n.anchorAt = now /\ n.anchorPos = a
    <2>1. n \in Clocks
        BY <1>1, <1>3, <1>4 DEF Clocks
    <2>. QED BY <1>1, <1>3, <1>4, <2>1 DEF ClockAt, utc
<1>6. Position(n, now) = a
    BY <1>5, ClockPosition
<1>7. SetNow(n, dur, stamp, playing, r, p)
    BY <1>2, <1>3, <1>4, <1>5, <1>6 DEF SetNow
<1>. QED BY <1>7 DEF n, p

-----------------------------------------------------------------------------
(***************************************************************************)
(* The timeline as a record.                                               *)
(***************************************************************************)
LEMMA TimelineTyped == SongTypeOK => LineAt(Timeline, now) /\ now \in Nat
    BY SongNumbers DEF SongTypeOK, LineAt, Lines, Bases, Timeline, Line, ClockAt, utc

LEMMA UpdatePositionTyped ==
    ASSUME NEW t \in Nat, NEW m, LineAt(m, t)
    PROVE  LineAt(UpdateCurrentPosition(m, t), t)
<1>1. m \in Lines /\ ClockAt(m.clock, t) /\ m.base \in Bases /\ m.base.at <= t
    BY DEF LineAt, Lines
<1>2. m.clock.ready => Position(m.clock, t) \in Nat
    <2>1. m.clock.dur \in Nat
        BY <1>1 DEF ClockAt, Clocks
    <2>. QED BY <1>1, <2>1, ClockPosition
<1>3. m.base.pos + (t - m.base.at) \in Nat
    BY <1>1 DEF Bases
<1>. QED BY <1>1, <1>2, <1>3 DEF UpdateCurrentPosition, LineAt, Lines

LEMMA NoClockAt == \A t \in Nat : ClockAt(NoClock, t)
    BY SongNumbers DEF ClockAt, NoClock, Clocks

LEMMA ApproximateTyped ==
    ASSUME now \in Nat, NEW playing \in BOOLEAN PROVE LineAt(Approximate(playing), now)
    BY NoClockAt, SongNumbers DEF Approximate, Line, Here, LineAt, Lines, Bases, ClockAt

LEMMA ResetTyped ==
    ASSUME now \in Nat, NEW m, LineAt(m, now), NEW timeline \in BOOLEAN
    PROVE  LineAt(ResetTimeline(m, timeline), now)
<1>1. ClockAt(NoClock, now) /\ NoClock \in Clocks
    BY NoClockAt DEF ClockAt
<1>2. Here(0) \in Bases /\ Here(0).at <= now
    BY DEF Here, Bases
<1>. QED BY <1>1, <1>2 DEF ResetTimeline, LineAt, Lines

LEMMA ReadingTyped ==
    ASSUME now \in Nat, NEW c, ClockAt(c, now), c.ready
    PROVE  LineAt(Reading(c), now) /\ UpdateCurrentPosition(Reading(c), now) = Reading(c)
<1>1. c \in Clocks /\ Position(c, now) \in Nat
    <2>1. c \in Clocks /\ c.dur \in Nat
        BY DEF ClockAt, Clocks
    <2>. QED BY <2>1, ClockPosition
<1>2. Playing \in BOOLEAN
    BY DEF Playing
<1>. DEFINE m == Reading(c)
<1>3. /\ m \in Lines /\ m.clock = c /\ m.position = Position(c, now) /\ m.base = Here(Position(c, now))
      /\ Here(Position(c, now)).at = now
    BY <1>1, <1>2 DEF Reading, Line, Here, Lines, Bases
<1>4. LineAt(m, now)
    BY <1>3 DEF LineAt
<1>. HIDE DEF m
<1>5. [m EXCEPT !.position = Position(c, now)] = m
    BY <1>3 DEF Lines
<1>6. UpdateCurrentPosition(m, now) = m
    BY <1>3, <1>5 DEF UpdateCurrentPosition
<1>. QED BY <1>4, <1>6 DEF m

\* What a frame leaves behind is a timeline at that time.
LEMMA ShowTyped ==
    ASSUME NEW t \in Nat, NEW m, LineAt(m, t), shown \in Nat \cup {-1},
           NEW last \in {-1, shown}, Show(m, last)
    PROVE  /\ ClockAt(clock', t) /\ clock' = m.clock
           /\ position' \in Nat /\ position' = m.position
           /\ base' \in [pos : Nat, at : 0 .. t]
           /\ hasTimeline' \in BOOLEAN /\ isPlaying' \in BOOLEAN
           /\ shown' \in Nat \cup {-1} /\ floor' \in {-1, shown'}
<1>1. m.position \in Nat
    BY DEF LineAt, Lines
<1>2. Shown(m.position, last) \in Nat \cup {-1}
    BY <1>1 DEF Shown
<1>. QED BY <1>1, <1>2 DEF Show, LineAt, Lines, Bases

-----------------------------------------------------------------------------
(***************************************************************************)
(* The player.                                                             *)
(***************************************************************************)
LEMMA NearPlace ==
    ASSUME NEW s \in Songs, NEW p \in 0 .. Duration(s), NEW q \in Near(p, s)
    PROVE  q \in 0 .. Duration(s) /\ q - p <= Jitter /\ p - q <= Jitter
<1>1. PICK off \in (-Jitter) .. Jitter : q = Clamp(p + off, Duration(s))
    BY DEF Near
<1>. QED BY <1>1, SongNumbers DEF Clamp

\* A new report is of now.
LEMMA NewReport ==
    ASSUME SongTypeOK, NEW k \in Tracked, NEW s \in Songs, NEW p \in 0 .. Duration(s), Reports(k, s, p)
    PROVE  /\ report' \in [pos : 0 .. Duration(s), stamp : 0 .. utc]
           /\ k = "stamped" => report'.stamp = utc /\ report'.pos - p <= Jitter /\ p - report'.pos <= Jitter
           /\ k = "unstamped" => report'.stamp = 0
<1>1. utc \in Nat /\ utc > 0 /\ Duration(s) \in Nat
    BY SongNumbers DEF utc, SongTypeOK
<1>2. k \in {"stamped", "unstamped", "silent"}
    BY KindsAssumption
<1>3. CASE k = "stamped"
    <2>1. PICK q \in Near(p, s) : report' = [pos |-> q, stamp |-> utc]
        BY <1>3 DEF Reports
    <2>2. q \in 0 .. Duration(s) /\ q - p <= Jitter /\ p - q <= Jitter
        BY NearPlace
    <2>. QED BY <1>1, <1>3, <2>1, <2>2
<1>4. CASE k = "unstamped"
    <2>1. PICK q \in Near(p, s) : report' = [pos |-> q, stamp |-> 0]
        BY <1>4 DEF Reports
    <2>2. q \in 0 .. Duration(s)
        BY NearPlace
    <2>. QED BY <1>1, <1>4, <2>1, <2>2
<1>5. CASE k = "silent"
    BY <1>1, <1>5 DEF Reports
<1>. QED BY <1>2, <1>3, <1>4, <1>5

\* What the report said is where the player is, and stays so.
LEMMA ReportHolds ==
    ASSUME SongTypeOK, NEW k \in Tracked, NEW s \in Songs, NEW p \in 0 .. Duration(s), Reports(k, s, p),
           kind' = k, song' = s, at' = p, now' = now, rate' \in Rates, ClockAt(clock', now)
    PROVE  ReportInv'
<1>1. utc' = utc /\ utc \in Nat /\ utc > 0
    BY SongNumbers DEF utc, SongTypeOK
<1>2. /\ report' \in [pos : 0 .. Duration(s), stamp : 0 .. utc]
      /\ k = "stamped" => report'.stamp = utc /\ report'.pos - p <= Jitter /\ p - report'.pos <= Jitter
      /\ k = "unstamped" => report'.stamp = 0
    BY NewReport
<1>3. clock'.updated <= utc
    BY DEF ClockAt, utc
<1>4. ASSUME k = "stamped" PROVE Close(Corrected(report.stamp))'
    <2>1. (utc' - report'.stamp) * rate' = 0
        <3>1. utc' - report'.stamp = 0 /\ rate' \in Int
            BY <1>1, <1>2, <1>4, SongNumbers
        <3>2. \A r \in Int : 0 * r = 0
            OBVIOUS
        <3>. QED BY <3>1, <3>2
    <2>2. report'.pos \in 0 .. Duration(s) /\ Duration(s) \in Nat /\ report'.pos + 0 = report'.pos
        BY <1>2, SongNumbers
    <2>3. Corrected(report.stamp)' = Clamp(report'.pos, Duration(s))
        BY <2>1, <2>2 DEF Corrected, Aim, Clamp
    <2>4. Clamp(report'.pos, Duration(s)) = report'.pos
        BY <2>2 DEF Clamp
    <2>. QED BY <1>2, <1>4, <2>3, <2>4 DEF Close
<1>. QED BY <1>1, <1>2, <1>3, <1>4 DEF ReportInv

\* Types of what Milkwave does not change.
LEMMA PlayerTypeKept ==
    ASSUME SongTypeOK, NEW k \in Tracked, NEW s \in Songs, NEW p \in 0 .. Duration(s), Reports(k, s, p),
           kind' = k, song' = s, at' = p, status' \in {"playing", "paused", "stopped"}, rate' \in Rates,
           smtc' \in BOOLEAN, anew' \in BOOLEAN, fresh' \in BOOLEAN, events' \in 0 .. MaxEvents,
           UNCHANGED <<now, current, clock, position, base, hasTimeline, isPlaying, screen>>
    PROVE  SongTypeOK'
<1>1. report' \in [pos : 0 .. Duration(s), stamp : 0 .. utc]
    BY NewReport
<1>. QED BY <1>1 DEF SongTypeOK, utc, screen

\* The player does something: what Milkwave has is not fresh any more.
LEMMA ChangeKept ==
    ASSUME TimelineIInv, NEW s \in Songs, NEW p \in 0 .. Duration(s),
           NEW st \in {"playing", "paused", "stopped"}, NEW r \in Rates, Change(s, p, st, r)
    PROVE  TimelineIInv'
<1>1. SongTypeOK
    BY DEF TimelineIInv
<1>2. kind \in Tracked /\ Reports(kind, s, p) /\ kind' = kind /\ song' = s /\ at' = p /\ status' = st
      /\ rate' = r /\ fresh' = FALSE /\ anew' = FALSE
      /\ UNCHANGED <<now, smtc, current, clock, position, base, hasTimeline, isPlaying, screen>>
    BY <1>1 DEF Change, Happens, milkwaveVars, SongTypeOK
<1>3. events' \in 0 .. MaxEvents
    BY <1>1, SongNumbers DEF Change, Happens, SongTypeOK
<1>4. ClockAt(clock', now)
    BY <1>1, <1>2 DEF SongTypeOK, ClockAt, utc
<1>5. SongTypeOK'
    BY <1>1, <1>2, <1>3, PlayerTypeKept DEF SongTypeOK
<1>6. ReportInv'
    BY <1>1, <1>2, <1>4, ReportHolds
<1>. QED BY <1>2, <1>5, <1>6 DEF TimelineIInv, FreshInv

LEMMA AnotherPlayerKept ==
    ASSUME TimelineIInv, NEW k \in Tracked, NEW s \in Songs, AnotherPlayer(k, s)
    PROVE  TimelineIInv'
<1>1. SongTypeOK
    BY DEF TimelineIInv
<1>2. 0 \in 0 .. Duration(s)
    BY SongNumbers
<1>3. Reports(k, s, 0) /\ kind' = k /\ song' = s /\ at' = 0 /\ status' = "playing"
      /\ rate' = rate /\ fresh' = FALSE /\ anew' = FALSE /\ smtc' = FALSE
      /\ UNCHANGED <<now, current, clock, position, base, hasTimeline, isPlaying, screen>>
    BY DEF AnotherPlayer, Happens
<1>4. events' \in 0 .. MaxEvents
    BY <1>1, SongNumbers DEF AnotherPlayer, Happens, SongTypeOK
<1>5. ClockAt(clock', now)
    BY <1>1, <1>3 DEF SongTypeOK, ClockAt, utc
<1>6. SongTypeOK'
    BY <1>1, <1>2, <1>3, <1>4, PlayerTypeKept DEF SongTypeOK
<1>7. ReportInv'
    BY <1>1, <1>2, <1>3, <1>5, ReportHolds DEF SongTypeOK
<1>. QED BY <1>3, <1>6, <1>7 DEF TimelineIInv, FreshInv

\* A report alone moves neither.
LEMMA ReportKept ==
    ASSUME TimelineIInv, Report PROVE TimelineIInv'
<1>1. SongTypeOK /\ kind \in Tracked /\ song \in Songs /\ at \in 0 .. Duration(song)
    BY DEF TimelineIInv, SongTypeOK
<1>2. /\ Reports(kind, song, at) /\ kind' = kind /\ song' = song /\ at' = at
      /\ anew' = FALSE
      /\ UNCHANGED <<now, status, rate, smtc, current, clock, position, base, hasTimeline, isPlaying,
                     screen, fresh, events>>
    BY DEF Report, milkwaveVars
<1>3. ClockAt(clock', now)
    BY <1>1, <1>2 DEF SongTypeOK, ClockAt, utc
<1>4. SongTypeOK'
    BY <1>1, <1>2, PlayerTypeKept DEF SongTypeOK
<1>5. ReportInv'
    BY <1>1, <1>2, <1>3, ReportHolds DEF SongTypeOK
<1>6. FreshInv'
    BY <1>2 DEF TimelineIInv, FreshInv, Tolerable, Playing, Position, Duration
<1>. QED BY <1>4, <1>5, <1>6 DEF TimelineIInv

-----------------------------------------------------------------------------
(***************************************************************************)
(* Milkwave.                                                               *)
(***************************************************************************)
\* What a poll makes of the report, or of the lack of one, is a timeline.
LEMMA ReadTyped ==
    ASSUME TimelineIInv PROVE LineAt(Placed, now) /\ LineAt(NewSong, now)
<1>. DEFINE D == Duration(song)
            stamp == IF report.stamp > 0 THEN report.stamp ELSE utc
            again == Updated(NoClock, report.pos, D, report.stamp, Playing, rate)
<1>1. SongTypeOK /\ now \in Nat /\ LineAt(Timeline, now) /\ ClockAt(clock, now) /\ ClockAt(NoClock, now)
    BY TimelineTyped, NoClockAt DEF TimelineIInv, LineAt, Timeline, Line
<1>2. Playing \in BOOLEAN /\ (current # -1) \in BOOLEAN
    BY DEF Playing
<1>3. CASE ~Reported
    <2>1. LineAt(Approximate(Playing), now)
        BY <1>1, <1>2, ApproximateTyped
    <2>2. LineAt([UpdateCurrentPosition(Timeline, now) EXCEPT !.isPlaying = Playing], now)
        <3>1. LineAt(UpdateCurrentPosition(Timeline, now), now)
            BY <1>1, UpdatePositionTyped
        <3>. QED BY <1>2, <3>1 DEF LineAt, Lines
    <2>3. LineAt(Read, now)
        BY <1>3, <2>1, <2>2 DEF Read
    <2>4. LineAt(Placed, now)
        BY <1>1, <1>2, <2>3, ResetTyped, UpdatePositionTyped DEF Placed
    <2>. QED BY <1>3, <2>1, <2>4 DEF NewSong
<1>4. CASE Reported
    <2>1. /\ utc \in Nat /\ report.stamp \in 0 .. utc /\ report.pos \in Nat /\ D \in Nat \ {0}
          /\ rate \in Nat /\ kind \in {"stamped", "unstamped"}
        BY <1>1, <1>4, SongNumbers, KindsAssumption DEF SongTypeOK, utc, Reported
    <2>2. stamp \in 0 .. utc /\ clock.updated <= stamp
        BY <1>1, <2>1 DEF TimelineIInv, ReportInv, ClockAt, utc
    <2>. HIDE DEF stamp
    <2>3. ClockAt(Polled, now) /\ Polled.ready
        <3>1. Polled = Updated(clock, report.pos, D, stamp, Playing, rate)
            BY DEF Polled, stamp
        <3>. HIDE DEF D
        <3>. QED BY <1>1, <1>2, <2>1, <2>2, <3>1, ClockUpdates DEF SetNow
    <2>4. ClockAt(again, now) /\ again.ready
        <3>1. NoClock.updated <= report.stamp
            BY <2>1 DEF NoClock
        <3>. HIDE DEF D
        <3>. QED BY <1>1, <1>2, <2>1, <3>1, ClockUpdates DEF SetNow
    <2>5. Placed = Reading(Polled) /\ NewSong = Reading(again)
        BY <1>1, <1>4, <2>3, ReadingTyped DEF Placed, Ended, Read, NewSong
    <2>. QED BY <1>1, <2>3, <2>4, <2>5, ReadingTyped
<1>. QED BY <1>3, <1>4

\* A poll that finds no position: an assumed one, the one before, or none.
LEMMA SilentPollKept ==
    ASSUME TimelineIInv, NEW metadata \in BOOLEAN, NEW requests \in BOOLEAN,
           PollTimeline(metadata, requests), ~Reported
    PROVE  TimelineIInv'
<1>1. SongTypeOK /\ now \in Nat /\ LineAt(Timeline, now)
    BY TimelineTyped DEF TimelineIInv
<1>2. Playing \in BOOLEAN /\ (current # -1) \in BOOLEAN
    BY DEF Playing
<1>3. LineAt(Approximate(Playing), now)
    BY <1>1, <1>2, ApproximateTyped
<1>4. LineAt([UpdateCurrentPosition(Timeline, now) EXCEPT !.isPlaying = Playing], now)
    <2>1. LineAt(UpdateCurrentPosition(Timeline, now), now)
        BY <1>1, UpdatePositionTyped
    <2>. QED BY <1>2, <2>1 DEF LineAt, Lines
<1>5. LineAt(Read, now)
    BY <1>3, <1>4 DEF Read
<1>6. LineAt(Placed, now)
    BY <1>1, <1>2, <1>5, ResetTyped, UpdatePositionTyped DEF Placed
<1>7. LineAt(NewSong, now)
    BY <1>3 DEF NewSong
<1>8. \E m : \E last \in {-1, shown} : LineAt(m, now) /\ Show(m, last)
    <2>1. (IF Ended \/ requests THEN -1 ELSE floor) \in {-1, shown}
        BY <1>1 DEF SongTypeOK
    <2>2. CASE metadata /\ (~smtc \/ current # song)
        BY <1>7, <2>1, <2>2 DEF PollTimeline
    <2>3. CASE ~(metadata /\ (~smtc \/ current # song))
        BY <1>6, <2>1, <2>3 DEF PollTimeline
    <2>. QED BY <2>2, <2>3
<1>9. fresh' = FALSE /\ anew' \in BOOLEAN /\ smtc' = TRUE /\ current' \in Songs \cup {-1} /\ UNCHANGED <<now, player, events>>
    BY <1>1 DEF PollTimeline, SongTypeOK
<1>10. SongTypeOK'
    <2>1. PICK m : \E last \in {-1, shown} : LineAt(m, now) /\ Show(m, last)
        BY <1>8
    <2>2. /\ ClockAt(clock', now) /\ position' \in Nat /\ base' \in [pos : Nat, at : 0 .. now]
          /\ hasTimeline' \in BOOLEAN /\ isPlaying' \in BOOLEAN /\ shown' \in Nat \cup {-1}
          /\ floor' \in {-1, shown'}
        BY <1>1, <2>1, ShowTyped DEF SongTypeOK
    <2>. QED BY <1>1, <1>9, <2>2 DEF SongTypeOK, player, ClockAt, utc
<1>11. ReportInv'
    BY <1>9 DEF Reported, ReportInv, player
<1>. QED BY <1>9, <1>10, <1>11 DEF TimelineIInv, FreshInv

\* A poll that finds one sets the clock to it, or leaves it close enough.
LEMMA ReportedPollKept ==
    ASSUME TimelineIInv, NEW metadata \in BOOLEAN, NEW requests \in BOOLEAN,
           PollTimeline(metadata, requests), Reported
    PROVE  TimelineIInv'
<1>. DEFINE D == Duration(song)
            stamp == IF report.stamp > 0 THEN report.stamp ELSE utc
            again == Updated(NoClock, report.pos, D, report.stamp, Playing, rate)
<1>1. SongTypeOK /\ ReportInv /\ now \in Nat /\ ClockAt(clock, now)
    BY TimelineTyped DEF TimelineIInv, LineAt, Timeline, Line
<1>2. /\ utc \in Nat /\ report.stamp \in 0 .. utc /\ report.pos \in 0 .. D /\ D \in Nat \ {0}
      /\ rate \in Nat /\ Playing \in BOOLEAN /\ kind \in {"stamped", "unstamped"}
      /\ song \in Songs /\ at \in 0 .. D
    BY <1>1, SongNumbers, KindsAssumption DEF SongTypeOK, utc, Playing, Reported
<1>3. stamp \in 0 .. utc /\ clock.updated <= stamp /\ (kind = "stamped" => stamp = report.stamp)
    BY <1>1, <1>2 DEF ReportInv, ClockAt, utc
<1>. HIDE DEF stamp
<1>4. SetNow(Polled, D, stamp, Playing, rate, Corrected(stamp))
    <2>1. Polled = Updated(clock, report.pos, D, stamp, Playing, rate)
        BY DEF Polled, stamp
    <2>2. Corrected(stamp) = Aim(report.pos, D, stamp, Playing, rate)
        BY DEF Corrected
    <2>3. report.pos \in Nat
        BY <1>2
    <2>. HIDE DEF D
    <2>. QED BY <1>1, <1>2, <1>3, <2>1, <2>2, <2>3, ClockUpdates
<1>5. SetNow(again, D, report.stamp, Playing, rate, Corrected(report.stamp))
    <2>1. Corrected(report.stamp) = Aim(report.pos, D, report.stamp, Playing, rate)
        BY DEF Corrected
    <2>2. report.pos \in Nat /\ ClockAt(NoClock, now) /\ NoClock.updated <= report.stamp
        BY <1>1, <1>2, NoClockAt DEF NoClock
    <2>. HIDE DEF D
    <2>. QED BY <1>1, <1>2, <2>1, <2>2, ClockUpdates
<1>6. Close(Corrected(stamp)) /\ (report.stamp > 0 => Close(Corrected(report.stamp)))
    <2>1. CASE kind = "stamped"
        BY <1>1, <1>3, <2>1 DEF ReportInv
    <2>2. CASE kind = "unstamped"
        <3>1. report.stamp = 0 /\ stamp = utc /\ report.pos \in Near(at, song)
            BY <1>1, <2>2 DEF ReportInv, PollTimeline, Asked, stamp
        <3>2. (utc - utc) * rate = 0 /\ report.pos + 0 = report.pos
            BY <1>2
        <3>3. Corrected(utc) = report.pos
            BY <1>2, <3>2 DEF Corrected, Aim, Clamp
        <3>4. report.pos - at <= Jitter /\ at - report.pos <= Jitter
            BY <1>2, <3>1, NearPlace
        <3>. QED BY <3>1, <3>3, <3>4 DEF Close
    <2>. QED BY <1>2, <2>1, <2>2
<1>7. Placed = Reading(Polled) /\ NewSong = Reading(again)
    BY <1>1, <1>4, ReadingTyped DEF SetNow, Placed, Ended, Read, NewSong
<1>. DEFINE last == IF requests THEN -1 ELSE floor
<1>8. PICK c \in {Polled, again} :
          /\ Show(Reading(c), last)
          /\ c = again /\ fresh' => report.stamp > 0
    <2>1. CASE metadata /\ (~smtc \/ current # song)
        BY <1>7, <2>1 DEF PollTimeline, Ended
    <2>2. CASE ~(metadata /\ (~smtc \/ current # song))
        <3>1. Show(Reading(Polled), last)
            BY <1>7, <2>2 DEF PollTimeline, Ended
        <3>2. Polled = again /\ fresh' => TRUE
            OBVIOUS
        <3>3. CASE Polled # again
            BY <3>1, <3>3
        <3>4. CASE Polled = again
            <4>1. report.stamp = stamp
                BY <1>4, <1>5, <3>4 DEF SetNow
            <4>2. stamp > 0
                BY <1>1, <1>2, SongNumbers DEF stamp, utc
            <4>. QED BY <3>1, <4>1, <4>2
        <3>. QED BY <3>3, <3>4
    <2>. QED BY <2>1, <2>2
<1>9. /\ ClockAt(c, now) /\ c.ready /\ c.dur = D /\ c.rate = rate /\ c.playing = Playing
      /\ Position(c, now) \in 0 .. D
      /\ kind = "stamped" => c.updated = report.stamp
    BY <1>3, <1>4, <1>5, <1>8 DEF SetNow
<1>10. LineAt(Reading(c), now) /\ shown \in Nat \cup {-1} /\ last \in {-1, shown}
    BY <1>1, <1>9, ReadingTyped DEF SongTypeOK
<1>11. /\ clock' = c /\ position' = Position(c, now) /\ hasTimeline' = TRUE /\ isPlaying' = Playing
    BY <1>8 DEF Show, Reading, Line
<1>12. smtc' = TRUE /\ current' \in Songs \cup {-1} /\ fresh' \in BOOLEAN /\ anew' \in BOOLEAN
       /\ UNCHANGED <<now, player, events>>
    BY <1>1 DEF PollTimeline, SongTypeOK
<1>13. SongTypeOK'
    BY <1>1, <1>8, <1>10, <1>12, ShowTyped DEF SongTypeOK, player, ClockAt, utc
<1>14. ReportInv'
    <2>1. UNCHANGED <<Corrected(report.stamp), at>>
        BY <1>12 DEF Corrected, Aim, Playing, player, utc
    <2>2. kind' = kind /\ report' = report
        BY <1>12 DEF player
    <2>3. kind = "stamped" => clock'.updated <= report.stamp /\ report.stamp \in Nat
        BY <1>2, <1>9, <1>11
    <2>4. Close(Corrected(report.stamp))' <=> Close(Corrected(report.stamp))
        BY <2>1 DEF Close
    <2>. QED BY <1>1, <2>2, <2>3, <2>4 DEF ReportInv
<1>15. fresh' => Tolerable(Position(c, now))
    <2>1. CASE c = Polled
        BY <1>2, <1>4, <1>6, <2>1, SongNumbers DEF SetNow, Close, Tolerable
    <2>2. CASE c = again
        BY <1>2, <1>5, <1>6, <1>8, <2>2, SongNumbers DEF SetNow, Close, Tolerable
    <2>. QED BY <1>8, <2>1, <2>2
<1>16. FreshInv'
    <2>1. Playing' = Playing /\ Duration(song)' = D /\ rate' = rate /\ now' = now /\ at' = at
        BY <1>12 DEF Playing, Duration, player
    <2>2. Position(clock, now)' = Position(c, now)
        BY <1>11, <2>1 DEF Position
    <2>. QED BY <1>9, <1>11, <1>15, <2>1, <2>2 DEF FreshInv, Tolerable
<1>. QED BY <1>13, <1>14, <1>16 DEF TimelineIInv

\* As the player plays, what it reported and the clock go as far as it does.
LEMMA TickKept ==
    ASSUME TimelineIInv, Tick PROVE TimelineIInv'
<1>. DEFINE D == Duration(song)
<1>1. SongTypeOK /\ ReportInv /\ FreshInv /\ now \in Nat /\ LineAt(Timeline, now) /\ ClockAt(clock, now)
    BY TimelineTyped DEF TimelineIInv, LineAt, Timeline, Line
<1>2. /\ utc \in Nat /\ report.stamp \in 0 .. utc /\ report.pos \in 0 .. D /\ D \in Nat
      /\ rate \in Nat /\ at \in 0 .. D /\ utc' = utc + 1 /\ now' = now + 1
      /\ clock.updated <= utc
    BY <1>1, SongNumbers DEF SongTypeOK, utc, Tick
<1>3. /\ UNCHANGED <<kind, song, status, rate, report, smtc, current, fresh, events>>
      /\ anew' \in BOOLEAN
      /\ Playing' = Playing /\ Duration(song)' = D
      /\ at' = IF Playing THEN Clamp(at + rate, D) ELSE at
    BY DEF Tick, Playing, Duration
<1>4. at' \in 0 .. D
    BY <1>2, <1>3 DEF Clamp
<1>5. ClockAt(clock, now + 1) /\ LineAt(Timeline, now + 1) /\ now + 1 \in Nat
    BY <1>1, SongNumbers DEF LineAt, ClockAt, Clocks, Lines, Bases, Timeline, Line
<1>. DEFINE m == UpdateCurrentPosition(Timeline, now + 1)
<1>6. LineAt(m, now + 1) /\ Show(m, floor) /\ shown \in Nat \cup {-1} /\ floor \in {-1, shown}
      /\ m.clock = clock
    BY <1>1, <1>5, UpdatePositionTyped DEF Tick, UpdateCurrentPosition, Timeline, Line, SongTypeOK
<1>7. SongTypeOK'
    <2>1. now' \in 0 .. MaxNow
        BY <1>1, SongNumbers DEF Tick, SongTypeOK
    <2>2. /\ ClockAt(clock', now') /\ position' \in Nat /\ base' \in [pos : Nat, at : 0 .. now']
          /\ hasTimeline' \in BOOLEAN /\ isPlaying' \in BOOLEAN /\ shown' \in Nat \cup {-1}
          /\ floor' \in {-1, shown'}
        BY <1>2, <1>5, <1>6, ShowTyped
    <2>3. report' \in [pos : 0 .. D, stamp : 0 .. utc']
        BY <1>1, <1>2, <1>3 DEF SongTypeOK
    <2>. QED BY <1>1, <1>3, <1>4, <2>1, <2>2, <2>3 DEF SongTypeOK, ClockAt, utc
<1>8. clock' = clock /\ position' = m.position
    BY <1>5, <1>6, ShowTyped
<1>9. ASSUME kind = "stamped" PROVE Close(Corrected(report.stamp))'
    <2>. DEFINE gone == (utc - report.stamp) * rate
                old == report.pos + gone
    <2>1. Close(Corrected(report.stamp)) /\ Jitter \in Nat
        BY <1>1, <1>9, SongNumbers DEF ReportInv
    <2>2. CASE Playing
        <3>1. \A k, r \in Nat : k * r \in Nat /\ (k + 1) * r = k * r + r
            OBVIOUS
        <3>2. utc - report.stamp \in Nat /\ utc' - report.stamp = (utc - report.stamp) + 1
            BY <1>2
        <3>3. gone \in Nat /\ (utc' - report.stamp) * rate = gone + rate
            BY <1>2, <3>1, <3>2
        <3>4. Corrected(report.stamp) = Clamp(old, D)
            BY <1>2, <2>2 DEF Corrected, Aim
        <3>5. Corrected(report.stamp)' = Clamp(report.pos + (utc' - report.stamp) * rate, D)
            BY <1>2, <1>3, <2>2 DEF Corrected, Aim
        <3>. HIDE DEF gone
        <3>6. report.pos + (utc' - report.stamp) * rate = old + rate /\ old \in Nat
            BY <1>2, <3>3
        <3>. HIDE DEF old, D
        <3>7. Corrected(report.stamp)' = Clamp(Clamp(old, D) + rate, D) /\ Clamp(old, D) \in 0 .. D
            <4>1. Corrected(report.stamp)' = Clamp(old + rate, D)
                BY <3>5, <3>6
            <4>2. D \in Nat /\ rate \in Nat /\ old \in Nat
                BY <1>2, <3>6
            <4>3. Clamp(Clamp(old, D) + rate, D) = Clamp(old + rate, D)
                BY <4>2, ClampSteps
            <4>4. Clamp(old, D) \in 0 .. D
                BY <4>2, ClampRange
            <4>. QED BY <4>1, <4>3, <4>4
        <3>8. Clamp(old, D) - at <= Jitter /\ at - Clamp(old, D) <= Jitter
            BY <2>1, <3>4 DEF Close
        <3>9. /\ Clamp(Clamp(old, D) + rate, D) - Clamp(at + rate, D) <= Jitter
              /\ Clamp(at + rate, D) - Clamp(Clamp(old, D) + rate, D) <= Jitter
            BY <1>2, <2>1, <3>7, <3>8, ClampClose
        <3>. QED BY <1>3, <2>2, <3>7, <3>9 DEF Close
    <2>3. CASE ~Playing
        BY <1>2, <1>3, <2>1, <2>3 DEF Corrected, Aim, Close
    <2>. QED BY <2>2, <2>3
<1>10. ReportInv'
    BY <1>1, <1>3, <1>8, <1>9 DEF ReportInv
<1>11. FreshInv'
    <2>. SUFFICES ASSUME fresh PROVE FreshInv'
        BY <1>3 DEF FreshInv
    <2>1. /\ clock.ready /\ clock.dur = D /\ clock.rate = rate /\ clock.playing = Playing
          /\ isPlaying = Playing /\ hasTimeline /\ position = Position(clock, now) /\ Tolerable(position)
        BY <1>1 DEF FreshInv
    <2>2. position \in 0 .. D
        BY <1>1, <2>1, ClockPosition
    <2>3. position' = Position(clock, now + 1) /\ hasTimeline' = hasTimeline /\ isPlaying' = isPlaying
        <3>1. m = IF Playing THEN [Timeline EXCEPT !.position = Position(clock, now + 1)] ELSE Timeline
            BY <2>1 DEF UpdateCurrentPosition, Timeline, Line
        <3>2. m.hasTimeline = hasTimeline /\ m.isPlaying = isPlaying
              /\ m.position = IF Playing THEN Position(clock, now + 1) ELSE position
            BY <3>1 DEF Timeline, Line
        <3>3. ~Playing => Position(clock, now + 1) = position
            BY <1>1, <2>1, ClockTicks
        <3>. QED BY <1>6, <1>8, <3>2, <3>3 DEF Show
    <2>4. Tolerable(position)'
        <3>1. CASE Playing
            <4>1. position' = Clamp(position + rate, D) /\ at' = Clamp(at + rate, D)
                BY <1>1, <1>3, <2>1, <2>3, <3>1, ClockTicks
            <4>2. Correction + Jitter - 1 \in Nat /\ Jitter \in Nat
                BY SongNumbers
            <4>3. at - position <= Correction + Jitter - 1 /\ position - at <= Jitter
                BY <1>2, <2>1, <2>2, SongNumbers DEF Tolerable
            <4>. HIDE DEF D
            <4>4. /\ Clamp(at + rate, D) - Clamp(position + rate, D) <= Correction + Jitter - 1
                  /\ Clamp(position + rate, D) - Clamp(at + rate, D) <= Jitter
                BY <1>2, <2>2, <4>2, <4>3, ClampClose
            <4>5. Clamp(at + rate, D) \in Int /\ Clamp(position + rate, D) \in Int
                BY <1>2, <2>2 DEF Clamp
            <4>. QED BY <4>1, <4>2, <4>4, <4>5, SongNumbers DEF Tolerable
        <3>2. CASE ~Playing
            BY <1>1, <1>3, <2>1, <2>3, <3>2, ClockTicks DEF Tolerable
        <3>. QED BY <3>1, <3>2
    <2>5. Position(clock, now)' = Position(clock, now + 1)
        BY <1>2, <1>8
    <2>. QED BY <1>3, <1>8, <2>1, <2>3, <2>4, <2>5 DEF FreshInv
<1>. QED BY <1>7, <1>10, <1>11 DEF TimelineIInv

\* What makes Milkwave forget: no session, an API that throws, a restart of the lyrics.
LEMMA ForgetKept ==
    ASSUME TimelineIInv, PollNothing \/ PollThrows \/ Restart PROVE TimelineIInv'
<1>1. SongTypeOK /\ now \in Nat /\ LineAt(Timeline, now) /\ ClockAt(NoClock, now)
    BY TimelineTyped, NoClockAt DEF TimelineIInv
<1>2. clock' = NoClock /\ ClockAt(clock', now) /\ position' \in Nat
      /\ base' \in [pos : Nat, at : 0 .. now] /\ hasTimeline' \in BOOLEAN /\ isPlaying' \in BOOLEAN
      /\ shown' \in Nat \cup {-1} /\ floor' \in {-1, shown'}
    <2>. shown \in Nat \cup {-1} /\ floor \in {-1, shown}
        BY <1>1 DEF SongTypeOK
    <2>1. CASE PollNothing
        <3>1. LineAt(Line(NoClock, 0, Here(0), FALSE, FALSE), now)
            BY <1>1 DEF LineAt, Lines, Line, Here, Bases, ClockAt
        <3>2. Line(NoClock, 0, Here(0), FALSE, FALSE).clock = NoClock
            BY DEF Line
        <3>. QED BY <1>1, <2>1, <3>1, <3>2, ShowTyped DEF PollNothing
    <2>2. CASE PollThrows
        <3>1. PICK m \in {UpdateCurrentPosition(Timeline, now), Placed, NewSong} :
                \E last \in {-1, shown} : Show([m EXCEPT !.clock = NoClock], last)
            BY <2>2 DEF PollThrows
        <3>2. LineAt(m, now)
            BY <1>1, <3>1, UpdatePositionTyped, ReadTyped
        <3>3. LineAt([m EXCEPT !.clock = NoClock], now) /\ [m EXCEPT !.clock = NoClock].clock = NoClock
            BY <1>1, <3>2 DEF LineAt, Lines, ClockAt
        <3>. QED BY <1>1, <3>1, <3>3, ShowTyped
    <2>3. CASE Restart
        <3>1. hasTimeline \in BOOLEAN
            BY <1>1 DEF SongTypeOK
        <3>2. LineAt(ResetTimeline(Timeline, hasTimeline), now)
              /\ ResetTimeline(Timeline, hasTimeline).clock = NoClock
            BY <1>1, <3>1, ResetTyped DEF ResetTimeline, Timeline, Line
        <3>. QED BY <1>1, <2>3, <3>2, ShowTyped DEF Restart
    <2>. QED BY <2>1, <2>2, <2>3
<1>3. smtc' \in BOOLEAN /\ current' \in Songs \cup {-1} /\ fresh' = FALSE /\ anew' = FALSE
      /\ events' \in 0 .. MaxEvents /\ UNCHANGED <<now, player>>
    <2>1. Happens /\ UNCHANGED <<now, player>>
        BY DEF PollNothing, PollThrows, Restart
    <2>2. smtc' \in {FALSE, smtc} /\ current' \in {-1, current, song}
        BY DEF PollNothing, PollThrows, Restart
    <2>3. smtc' \in BOOLEAN /\ current' \in Songs \cup {-1}
        BY <1>1, <2>2 DEF SongTypeOK
    <2>4. events' \in 0 .. MaxEvents
        BY <1>1, <2>1, SongNumbers DEF Happens, SongTypeOK
    <2>. QED BY <2>1, <2>3, <2>4 DEF Happens
<1>4. SongTypeOK'
    BY <1>1, <1>2, <1>3 DEF SongTypeOK, player, ClockAt, utc
<1>5. ReportInv'
    <2>1. UNCHANGED <<Corrected(report.stamp), at, kind, report>>
        BY <1>3 DEF Corrected, Aim, Playing, player, utc
    <2>2. clock'.updated = 0 /\ 0 <= report.stamp
        BY <1>1, <1>2 DEF NoClock, SongTypeOK
    <2>3. Close(Corrected(report.stamp))' <=> Close(Corrected(report.stamp))
        BY <2>1 DEF Close
    <2>. QED BY <2>1, <2>2, <2>3 DEF TimelineIInv, ReportInv
<1>. QED BY <1>3, <1>4, <1>5 DEF TimelineIInv, FreshInv

\* New lyrics only take the floor away.
LEMMA NewLyricsKept == ASSUME TimelineIInv, NewLyrics PROVE TimelineIInv'
    BY DEF NewLyrics, TimelineIInv, SongTypeOK, ReportInv, FreshInv, Tolerable, Close, Corrected, Aim,
           Playing, Position, Duration, utc, player

-----------------------------------------------------------------------------
(***************************************************************************)
(* The theorems about the timeline.                                        *)
(***************************************************************************)
LEMMA TimelineInitially == SongInit => TimelineIInv
<1>. SUFFICES ASSUME SongInit PROVE TimelineIInv
    OBVIOUS
<1>1. song \in Songs /\ Duration(song) \in Nat /\ 0 \in 0 .. Duration(song) /\ at = 0 /\ rate = 1
      /\ utc = Epoch /\ Epoch \in Nat /\ Epoch > 0
    BY SongNumbers DEF SongInit, utc
<1>2. SongTypeOK
    <2>1. clock = NoClock /\ ClockAt(NoClock, 0) /\ now = 0
        BY NoClockAt DEF SongInit
    <2>2. report \in [pos : 0 .. Duration(song), stamp : 0 .. utc]
        BY <1>1 DEF SongInit
    <2>3. now \in 0 .. MaxNow /\ events \in 0 .. MaxEvents /\ rate \in Rates
        BY <1>1, SongNumbers, SongsAssumption DEF SongInit
    <2>4. ClockAt(clock, now) /\ base \in [pos : Nat, at : 0 .. now]
        BY <2>1 DEF SongInit
    <2>5. clock \in Clocks /\ clock.anchorAt <= now /\ clock.updated <= utc /\ clock.anchorPos <= clock.dur
        BY <2>4 DEF ClockAt, utc
    <2>6. /\ kind \in Tracked /\ status = "playing" /\ smtc = FALSE /\ current = -1 /\ position = 0
          /\ hasTimeline = FALSE /\ isPlaying = FALSE /\ shown = -1 /\ fresh = FALSE
        BY DEF SongInit
    <2>7. at \in 0 .. Duration(song) /\ song \in Songs
        BY <1>1
    <2>8. floor = -1 /\ anew = FALSE
        BY DEF SongInit
    <2>. QED BY <2>1, <2>2, <2>3, <2>4, <2>5, <2>6, <2>7, <2>8 DEF SongTypeOK
<1>3. ReportInv
    <2>1. report.pos = 0 /\ (kind = "stamped" => report.stamp = Epoch)
          /\ (kind = "unstamped" => report.stamp = 0) /\ clock.updated = 0
        BY DEF SongInit, NoClock
    <2>2. (utc - Epoch) * rate = 0
        BY <1>1
    <2>3. kind = "stamped" => Corrected(report.stamp) = 0
        BY <1>1, <2>1, <2>2 DEF Corrected, Aim, Clamp
    <2>. QED BY <1>1, <2>1, <2>3, SongNumbers DEF ReportInv, Close
<1>. QED BY <1>2, <1>3 DEF TimelineIInv, FreshInv, SongInit

LEMMA TimelineInductive == TimelineIInv /\ [SongNext]_songVars => TimelineIInv'
<1>. SUFFICES ASSUME TimelineIInv, [SongNext]_songVars PROVE TimelineIInv'
    OBVIOUS
<1>1. song \in Songs /\ at \in 0 .. Duration(song) /\ status \in {"playing", "paused", "stopped"}
      /\ rate \in Rates /\ (\A s \in Songs : 0 \in 0 .. Duration(s))
    BY SongNumbers DEF TimelineIInv, SongTypeOK
<1>2. CASE Tick
    BY <1>2, TickKept
<1>3. CASE \E metadata, requests \in BOOLEAN : PollTimeline(metadata, requests)
    BY <1>3, SilentPollKept, ReportedPollKept
<1>4. CASE PollNothing \/ PollThrows \/ Restart
    BY <1>4, ForgetKept
<1>5. CASE Pause \/ Stop \/ Resume
    BY <1>1, <1>5, ChangeKept DEF Pause, Stop, Resume
<1>6. CASE \E r \in Rates : SetRate(r)
    BY <1>1, <1>6, ChangeKept DEF SetRate
<1>7. CASE \E p \in 0 .. Duration(song) : Seek(p)
    BY <1>1, <1>7, ChangeKept DEF Seek
<1>8. CASE \E s \in Songs : NextSong(s)
    BY <1>1, <1>8, ChangeKept DEF NextSong
<1>9. CASE \E s \in Songs : \E k \in Tracked : AnotherPlayer(k, s)
    BY <1>9, AnotherPlayerKept
<1>10. CASE Report
    BY <1>10, ReportKept
<1>11. CASE NewLyrics
    BY <1>11, NewLyricsKept
<1>12. CASE UNCHANGED songVars
    BY <1>12 DEF TimelineIInv, SongTypeOK, ReportInv, FreshInv, Tolerable, Close, Corrected, Aim, Playing,
                 Position, Duration, utc, songVars, player, milkwaveVars, screen
<1>. QED BY <1>2, <1>3, <1>4, <1>5, <1>6, <1>7, <1>8, <1>9, <1>10, <1>11, <1>12 DEF SongNext

\* The invariant both theorems rest on.
THEOREM TimelineInvariants == SongSpec => []TimelineIInv
    BY TimelineInitially, TimelineInductive, PTL DEF SongSpec

\* From a poll until the player does something else, the position is within the tolerance of the
\* player's (UpdateCurrentPosition, SongTimelineClock::Update): for songs of any length, any rates,
\* any jitter and any number of polls.
THEOREM StaysAccurate == SongSpec => []Accurate
<1>1. TimelineIInv => Accurate
    BY DEF TimelineIInv, FreshInv, Tolerable, Accurate
<1>. QED BY <1>1, TimelineInvariants, PTL

\* With a floor, a step back by no more than the corrections and the jitter is not shown; without
\* one it is shown, and is no longer than that.
LEMMA HoldsBack ==
    ASSUME NEW a \in Nat, NEW b \in Nat, NEW p \in Nat, NEW last \in Nat \cup {-1},
           a <= b, b - p < Correction + Jitter, last <= a + Jitter
    PROVE  Shown(p, last) >= last /\ last - Shown(p, -1) < Correction + 2 * Jitter
<1>1. Backward >= Correction + 2 * Jitter /\ Jitter \in Nat /\ Correction \in Nat /\ Backward \in Nat
    BY SongNumbers, ToleranceAssumption
<1>2. last - p < Correction + 2 * Jitter /\ Shown(p, -1) = p
    BY <1>1 DEF Shown
<1>3. last - p <= Backward
    BY <1>1, <1>2
<1>. QED BY <1>1, <1>2, <1>3 DEF Shown

\* Lyrics that are where the player is do not go back while it only plays, but for the first frame of
\* new lyrics, and then by less than the corrections and the jitter (EffectiveLyricsPosition).
THEOREM NeverGoesBack == SongSpec => NeverBack
<1>. DEFINE back == shown - shown' < Correction + 2 * Jitter
            kept == shown' >= shown \/ (anew' /\ back)
<1>1. TimelineIInv /\ TimelineIInv' /\ [SongNext]_songVars
        => [fresh /\ fresh' /\ shown <= at + Jitter => kept]_songVars
    <2>. SUFFICES ASSUME TimelineIInv, TimelineIInv', SongNext, fresh, fresh', shown <= at + Jitter
                  PROVE  kept
        OBVIOUS
    <2>1. shown \in Nat \cup {-1} /\ at \in Nat /\ position' \in Nat /\ at' \in Nat /\ rate \in Nat
          /\ Duration(song) \in Nat /\ at \in 0 .. Duration(song) /\ floor \in {-1, shown}
        BY SongNumbers DEF TimelineIInv, SongTypeOK
    <2>2. at' - position' < Correction + Jitter
        BY DEF TimelineIInv, FreshInv, Tolerable
    \* A frame with a floor holds the lyrics, one without goes back by little.
    <2>3. ASSUME at' >= at, NEW last \in {-1, floor},
                 shown' = shown \/ shown' = Shown(position', last), anew' = (last = -1)
          PROVE  kept
        <3>1. Shown(position', shown) >= shown /\ shown - Shown(position', -1) < Correction + 2 * Jitter
            BY <2>1, <2>2, <2>3, HoldsBack
        <3>2. CASE last = -1
            <4>1. shown' = shown \/ shown' = Shown(position', -1)
                BY <2>3, <3>2
            <4>2. 0 < Correction + 2 * Jitter
                BY SongNumbers
            <4>3. back
                BY <2>1, <3>1, <4>1, <4>2
            <4>. QED BY <2>3, <3>2, <4>3
        <3>3. CASE last # -1
            BY <2>1, <2>3, <3>1, <3>3
        <3>. QED BY <3>2, <3>3
    <2>4. CASE Tick
        <3>1. at' >= at
            BY <2>1, <2>4 DEF Tick, Clamp
        <3>2. Show(UpdateCurrentPosition(Timeline, now + 1), floor) /\ anew' = (floor = -1)
            BY <2>4 DEF Tick
        <3>3. shown' = shown \/ shown' = Shown(position', floor)
            BY <3>2 DEF Show
        <3>. QED BY <2>3, <3>1, <3>2, <3>3
    <2>5. CASE \E metadata, requests \in BOOLEAN : PollTimeline(metadata, requests)
        <3>1. PICK metadata, requests \in BOOLEAN : PollTimeline(metadata, requests)
            BY <2>5
        <3>2. Reported /\ ~Ended /\ at' = at /\ anew' = (floor = -1 \/ requests)
            BY <3>1 DEF PollTimeline, Ended, player
        <3>. DEFINE last == IF requests THEN -1 ELSE floor
        <3>3. last \in {-1, floor} /\ (shown' = shown \/ shown' = Shown(position', last))
            BY <3>1, <3>2 DEF PollTimeline, Show
        <3>4. anew' = (last = -1) /\ at' >= at
            BY <2>1, <3>2
        <3>. HIDE DEF last
        <3>. QED BY <2>3, <3>3, <3>4
    <2>6. CASE Report \/ NewLyrics
        <3>1. shown' = shown
            BY <2>6 DEF Report, NewLyrics, milkwaveVars, screen
        <3>2. shown' >= shown
            BY ONLY <2>1, <3>1
        <3>. QED BY <3>2
    <2>7. Tick \/ Report \/ NewLyrics \/ \E metadata, requests \in BOOLEAN : PollTimeline(metadata, requests)
        BY DEF SongNext, PollNothing, PollThrows, Restart, Pause, Stop, Resume, SetRate, Seek, NextSong,
               AnotherPlayer, Change, Happens
    <2>. QED BY <2>4, <2>5, <2>6, <2>7
<1>. QED BY <1>1, TimelineInvariants, PTL DEF SongSpec, NeverBack

-----------------------------------------------------------------------------
(***************************************************************************)
(* A request that waits is the newest; a job of the newest generation is   *)
(* the newest request; a job is given up only for a newer one or the end.  *)
(***************************************************************************)
Busy == pc \in {"resolve", "backoff", "apply"}

PendingInv ==
    pending # Nothing => /\ document = Document("loading", pending)
                         /\ Busy => jobGeneration < generation

JobInv ==
    Busy => /\ job \in Tracks /\ jobGeneration <= generation
            /\ Current => document = Document("loading", job)
            /\ Current /\ pc = "apply" /\ resolution = "superseded" => stop
            /\ pc = "backoff" => attempt < MaxRetries

IInv == /\ TypeOK /\ PendingInv /\ JobInv
        /\ ShowsNewestRequest /\ FileBacksDocument /\ FollowsTrack /\ RequestHeld

USE NamesAssumption, BoundsAssumption
    DEF Document, Empty, Found, Resolutions, Subjects, Busy

LEMMA InitIInv == Init => IInv
<1> SUFFICES ASSUME Init PROVE IInv
  OBVIOUS
<1>1. TypeOK
  <2>1. generation \in 0 .. MaxRequests /\ jobGeneration \in 0 .. MaxRequests
        /\ attempt \in 0 .. MaxRetries
    BY DEF Init
  <2>2. autoLoad \in BOOLEAN /\ known \in BOOLEAN /\ stop \in BOOLEAN
    BY DEF Init
  <2> QED
    BY <2>1, <2>2 DEF Init, TypeOK
<1> QED
  BY <1>1 DEF Init, IInv, PendingInv, JobInv, ShowsNewestRequest, FileBacksDocument,
       FollowsTrack, RequestHeld

LEMMA RequestIInv ==
    ASSUME IInv, ~stop, NEW t \in Tracks \cup {Nothing}, RequestLyricsResolution(t),
           onAir' = onAir, known' \in BOOLEAN, track' = t, autoLoad' \in BOOLEAN,
           missed' \in Tracks \cup {Nothing}, UNCHANGED <<stop, worker>>
    PROVE  IInv'
<1> USE DEF IInv, RequestLyricsResolution, NewGeneration, worker
<1>1. TypeOK'
  BY DEF TypeOK
<1>2. PendingInv' /\ JobInv'
  BY DEF TypeOK, PendingInv, JobInv, Current
<1>3. ShowsNewestRequest' /\ FileBacksDocument' /\ FollowsTrack' /\ RequestHeld'
  BY DEF ShowsNewestRequest, FileBacksDocument, FollowsTrack, RequestHeld
<1> QED
  BY <1>1, <1>2, <1>3

LEMMA QuietIInv ==
    ASSUME IInv, UNCHANGED <<shared, worker, asked>>,
           onAir' \in Tracks \cup {Nothing}, known' \in BOOLEAN, track' \in Tracks \cup {Nothing},
           autoLoad' \in BOOLEAN, stop' \in BOOLEAN, stop => stop',
           missed' \in Tracks \cup {Nothing}, FollowsTrack'
    PROVE  IInv'
BY DEF IInv, shared, worker, TypeOK, PendingInv, JobInv, Current, ShowsNewestRequest,
       FileBacksDocument, RequestHeld

LEMMA PollIInv ==
    ASSUME IInv, ~stop, NEW another \in BOOLEAN, NEW metadata \in BOOLEAN,
           NEW explicit \in BOOLEAN, PollSession(another, metadata, explicit)
    PROVE  IInv'
<1> DEFINE asks == /\ metadata /\ autoLoad
                   /\ ~known \/ another \/ onAir # track \/ explicit
<1>1. /\ onAir \in Tracks \cup {Nothing} /\ track \in Tracks \cup {Nothing}
      /\ autoLoad \in BOOLEAN /\ stop \in BOOLEAN /\ missed \in Tracks \cup {Nothing}
  BY DEF IInv, TypeOK
<1>2. /\ known' = TRUE /\ track' = IF metadata THEN onAir ELSE track
      /\ missed' = IF metadata /\ ~known THEN Nothing ELSE missed
      /\ UNCHANGED <<onAir, autoLoad, stop, worker>>
  BY DEF PollSession, Poll
<1>3. CASE asks
  <2>1. RequestLyricsResolution(track') /\ track' = onAir
    BY <1>2, <1>3 DEF PollSession, Poll
  <2>2. RequestLyricsResolution(onAir)
    BY <2>1
  <2> QED
    BY <1>1, <1>2, <2>1, <2>2, RequestIInv
<1>4. CASE ~asks
  <2>1. UNCHANGED <<shared, asked>>
    BY <1>4 DEF PollSession, Poll
  <2>2. autoLoad => track' = track /\ missed' = missed
    BY <1>2, <1>4
  <2>3. FollowsTrack'
    BY <1>2, <2>1, <2>2 DEF FollowsTrack, IInv
  <2> QED
    BY <1>1, <1>2, <2>1, <2>3, QuietIInv
<1> QED
  BY <1>3, <1>4

LEMMA RenderIInv == ASSUME IInv, Render PROVE IInv'
<1> ~stop
  BY DEF Render
<1>1. ASSUME NEW another \in BOOLEAN, NEW metadata \in BOOLEAN, NEW explicit \in BOOLEAN,
             PollSession(another, metadata, explicit)
      PROVE  IInv'
  BY <1>1, PollIInv
<1>2. CASE PollNoSession
  <2> USE <1>2 DEF PollNoSession, NewGeneration, worker, IInv
  <2>1. TypeOK'
    <3>1. known' \in BOOLEAN /\ autoLoad' \in BOOLEAN /\ stop' \in BOOLEAN
      BY Zenon DEF TypeOK
    <3>2. generation' \in 0 .. MaxRequests /\ jobGeneration' \in 0 .. MaxRequests
          /\ attempt' \in 0 .. MaxRetries
      BY DEF TypeOK
    <3>3. document' \in [state : {"empty", "loading", "loaded", "unavailable"}, of : Subjects]
      OBVIOUS
    <3> QED
      BY <3>1, <3>2, <3>3 DEF TypeOK
  <2>2. PendingInv' /\ JobInv'
    BY DEF TypeOK, PendingInv, JobInv, Current
  <2>3. ShowsNewestRequest' /\ FileBacksDocument' /\ FollowsTrack' /\ RequestHeld'
    BY DEF ShowsNewestRequest, FileBacksDocument, FollowsTrack, RequestHeld
  <2> QED
    BY <2>1, <2>2, <2>3
<1>3. CASE PollFails
  BY <1>3, QuietIInv DEF PollFails, IInv, TypeOK, FollowsTrack
<1>4. ASSUME NEW f \in Manual, LoadLyricsFromFile(f) PROVE IInv'
  BY <1>4 DEF LoadLyricsFromFile, NewGeneration, session, worker, IInv, TypeOK, PendingInv,
     JobInv, Current, ShowsNewestRequest, FileBacksDocument, FollowsTrack, RequestHeld
<1>5. CASE ToggleAutoLoad
  <2>1. CASE autoLoad'
    <3>1. /\ track \in Tracks \cup {Nothing} /\ track' = track
          /\ autoLoad' \in BOOLEAN /\ known' \in BOOLEAN
          /\ onAir' = onAir /\ missed' \in Tracks \cup {Nothing}
          /\ UNCHANGED <<stop, worker>>
      BY <1>5 DEF ToggleAutoLoad, IInv, TypeOK
    <3>2. RequestLyricsResolution(track)
      BY <1>5, <2>1 DEF ToggleAutoLoad
    <3> QED
      BY <3>1, <3>2, RequestIInv
  <2>2. CASE ~autoLoad'
    BY <1>5, <2>2, QuietIInv DEF ToggleAutoLoad, IInv, TypeOK, FollowsTrack
  <2> QED
    BY <2>1, <2>2
<1>6. CASE Destroy
  BY <1>6, QuietIInv DEF Destroy, session, IInv, TypeOK, FollowsTrack
<1> QED
  BY <1>1, <1>2, <1>3, <1>4, <1>5, <1>6 DEF Render

LEMMA WorkerIInv == ASSUME IInv, Worker PROVE IInv'
<1> USE DEF IInv, session, shared, TypeOK, PendingInv, JobInv, Current, ShowsNewestRequest,
        FileBacksDocument, FollowsTrack, RequestHeld
<1>1. CASE Take
  BY <1>1 DEF Take
<1>2. CASE Resolve
  BY <1>2 DEF Resolve
<1>3. CASE BackOff
  BY <1>3 DEF BackOff
<1>4. CASE Apply
  BY <1>4 DEF Apply, Result
<1> QED
  BY <1>1, <1>2, <1>3, <1>4 DEF Worker

LEMMA NextIInv == IInv /\ [Next]_vars => IInv'
<1> SUFFICES ASSUME IInv, [Next]_vars PROVE IInv'
  OBVIOUS
<1>1. CASE SessionChanges
  BY <1>1, QuietIInv DEF SessionChanges, IInv, TypeOK, FollowsTrack
<1>2. CASE UNCHANGED vars
  BY <1>2, QuietIInv DEF vars, session, IInv, TypeOK, FollowsTrack
<1> QED
  BY <1>1, <1>2, RenderIInv, WorkerIInv DEF Next

THEOREM Inductive == Spec => []IInv
BY InitIInv, NextIInv, PTL DEF Spec

(***************************************************************************)
(* The variables keep their types; in particular no lookup is retried more *)
(* than kLyricsMaxRetries times.                                           *)
(***************************************************************************)
THEOREM TypeCorrect == Spec => []TypeOK
BY Inductive, PTL DEF IInv

(***************************************************************************)
(* Whatever lookups are in flight, the lyrics on screen are those asked    *)
(* for last.                                                               *)
(***************************************************************************)
THEOREM NewestRequestShown == Spec => []ShowsNewestRequest
BY Inductive, PTL DEF IInv

(***************************************************************************)
(* A file named as the source of the lyrics is the source of the lyrics on *)
(* screen.                                                                 *)
(***************************************************************************)
THEOREM FileNamed == Spec => []FileBacksDocument
BY Inductive, PTL DEF IInv

(***************************************************************************)
(* With automatic loading the lyrics follow the track, through any order   *)
(* of polls, failed polls, players and switches of the setting; but for    *)
(* the track of a poll that failed on its thumbnail.                       *)
(***************************************************************************)
THEOREM TrackFollowed == Spec => []FollowsTrack
BY Inductive, PTL DEF IInv

(***************************************************************************)
(* A document is not left loading without somebody to finish it.           *)
(***************************************************************************)
THEOREM NoRequestLost == Spec => []RequestHeld
BY Inductive, PTL DEF IInv
=============================================================================
