---------------------------- MODULE LyricsWorker ----------------------------
(***************************************************************************)
(* Lyrics for the song on air (milkwave.cpp).  The render thread polls the *)
(* media session, asks for the lyrics of a new track, loads files chosen   *)
(* by hand; the lyrics worker takes the one pending request, looks it up   *)
(* for seconds, retries, and puts the result up if its generation is still *)
(* the newest.  Both meet under lyricsMutex, which neither keeps while it  *)
(* waits, so a critical section is one action.                             *)
(***************************************************************************)
EXTENDS Naturals

CONSTANTS Tracks,      \* what the media session can report
          Manual,      \* lyrics files chosen by hand
          Nothing,     \* no track, no file, no request
          MaxRetries,  \* kLyricsMaxRetries
          MaxRequests  \* bound on the requests of the render thread

ASSUME NamesAssumption == Nothing \notin Tracks \cup Manual /\ Tracks \cap Manual = {}
ASSUME BoundsAssumption == MaxRetries \in Nat /\ MaxRequests \in Nat

VARIABLES
    \* the media session and what the poll made of it
    onAir,       \* the track the session plays, Nothing without a session
    known,       \* smtcSession is the session of the last poll
    track,       \* currentArtist, currentTitle, currentAlbum
    autoLoad,    \* m_bLyricsAutoLoad
    \* under lyricsMutex
    generation,  \* lyricsRequestGeneration
    pending,     \* pendingLyricsTrack
    document,    \* lyricsDocument: its state and what it is about
    file,        \* currentLyricsFile
    stop,        \* stopLyricsWorker
    \* LyricsWorkerLoop
    pc, job, jobGeneration, attempt, resolution,
    asked,       \* history: what the newest request or choice is about
    missed       \* history: the track a failed poll took over without a request

session == <<onAir, known, track, autoLoad>>
shared == <<generation, pending, document, file>>
worker == <<pc, job, jobGeneration, attempt, resolution>>
vars == <<session, shared, stop, worker, asked, missed>>

Subjects == Tracks \cup Manual \cup {Nothing}
Found == {"local", "cached", "unsaved"}             \* lyrics, and where they are kept
Resolutions == Found \cup {"none", "transient", "superseded"}
Document(state, of) == [state |-> state, of |-> of]
Empty == Document("empty", Nothing)

TypeOK ==
    /\ onAir \in Tracks \cup {Nothing} /\ track \in Tracks \cup {Nothing}
    /\ known \in BOOLEAN /\ autoLoad \in BOOLEAN /\ stop \in BOOLEAN
    /\ generation \in 0 .. MaxRequests /\ jobGeneration \in 0 .. MaxRequests
    /\ pending \in Tracks \cup {Nothing} /\ job \in Tracks \cup {Nothing}
    /\ document \in [state : {"empty", "loading", "loaded", "unavailable"}, of : Subjects]
    /\ file \in Subjects /\ asked \in Subjects /\ missed \in Tracks \cup {Nothing}
    /\ pc \in {"wait", "resolve", "backoff", "apply", "exited"}
    /\ attempt \in 0 .. MaxRetries
    /\ resolution \in Resolutions

Init ==
    /\ onAir \in Tracks \cup {Nothing} /\ known = FALSE /\ track = Nothing
    /\ autoLoad \in BOOLEAN
    /\ generation = 0 /\ pending = Nothing /\ document = Empty /\ file = Nothing
    /\ stop = FALSE
    /\ pc = "wait" /\ job = Nothing /\ jobGeneration = 0 /\ attempt = 0
    /\ resolution = "none"
    /\ asked = Nothing /\ missed = Nothing

-----------------------------------------------------------------------------
(***************************************************************************)
(* The media session: another track, another player, no player.            *)
(***************************************************************************)
SessionChanges == /\ onAir' \in (Tracks \cup {Nothing}) \ {onAir}
                  /\ UNCHANGED <<known, track, autoLoad, shared, stop, worker, asked, missed>>

-----------------------------------------------------------------------------
(***************************************************************************)
(* The render thread.  Every change of subject takes a new generation.     *)
(***************************************************************************)
NewGeneration == generation < MaxRequests /\ generation' = generation + 1

RequestLyricsResolution(t) ==
    /\ NewGeneration
    /\ document' = IF t = Nothing THEN Empty ELSE Document("loading", t)
    /\ pending' = t
    /\ file' = Nothing
    /\ asked' = t

\* What a poll does once it is known whether the track is taken for another one.
Poll(changed, metadata, explicit) ==
    /\ onAir # Nothing
    /\ known' = TRUE
    /\ track' = IF metadata THEN onAir ELSE track
    /\ missed' = IF metadata /\ ~known THEN Nothing ELSE missed
    /\ IF metadata /\ (changed \/ explicit) /\ autoLoad
       THEN RequestLyricsResolution(track')
       ELSE UNCHANGED <<shared, asked>>
    /\ UNCHANGED <<onAir, autoLoad, stop, worker>>

\* Mutant: a session that had been forgotten does not count as another one.
PollForgetful(another, metadata, explicit) ==
    Poll(another \/ onAir # track, metadata, explicit)

(***************************************************************************)
(* PollMediaInfo with a session.  `another' says that a different player   *)
(* took over, `metadata' that the track was asked for and answered: the    *)
(* throttle, a null answer and the time since the last poll decide.        *)
(***************************************************************************)
PollSession(another, metadata, explicit) ==
    Poll(~known \/ another \/ onAir # track, metadata, explicit)

(***************************************************************************)
(* Without a session everything is cleared but the name of the file.       *)
(***************************************************************************)
PollNoSession ==
    /\ onAir = Nothing
    /\ NewGeneration
    /\ known' = FALSE /\ track' = Nothing
    /\ pending' = Nothing /\ document' = Empty
    /\ asked' = Nothing
    /\ UNCHANGED <<onAir, autoLoad, file, stop, worker, missed>>

(***************************************************************************)
(* The media API throws: the session is forgotten, what is shown stays.    *)
(* If it is the thumbnail that cannot be read, the track has been taken    *)
(* over, and its lyrics have not been asked for.                           *)
(***************************************************************************)
PollFails == /\ known' = FALSE
             /\ \/ UNCHANGED <<track, missed>>
                \/ onAir \notin {Nothing, track} /\ track' = onAir /\ missed' = onAir
             /\ UNCHANGED <<onAir, autoLoad, shared, stop, worker, asked>>

LoadLyricsFromFile(f) ==
    /\ NewGeneration
    /\ pending' = Nothing
    /\ document' = Document("loaded", f)
    /\ file' = f
    /\ asked' = f
    /\ UNCHANGED <<session, stop, worker, missed>>

ToggleAutoLoad ==
    /\ autoLoad' = ~autoLoad
    /\ IF autoLoad' THEN RequestLyricsResolution(track) ELSE UNCHANGED <<shared, asked>>
    /\ UNCHANGED <<onAir, known, track, stop, worker, missed>>

Destroy == /\ stop' = TRUE
           /\ UNCHANGED <<session, shared, worker, asked, missed>>

Render == /\ ~stop
          /\ \/ \E another, metadata, explicit \in BOOLEAN :
                   PollSession(another, metadata, explicit)
             \/ PollNoSession \/ PollFails
             \/ \E f \in Manual : LoadLyricsFromFile(f)
             \/ ToggleAutoLoad \/ Destroy

-----------------------------------------------------------------------------
(***************************************************************************)
(* LyricsWorkerLoop.                                                       *)
(***************************************************************************)
Take ==
    /\ pc = "wait"
    /\ \/ stop /\ pc' = "exited" /\ UNCHANGED <<job, jobGeneration, attempt, pending>>
       \/ /\ ~stop /\ pending # Nothing
          /\ job' = pending /\ pending' = Nothing
          /\ jobGeneration' = generation
          /\ attempt' = 0
          /\ pc' = "resolve"
    /\ UNCHANGED <<session, generation, document, file, stop, resolution, asked, missed>>

(***************************************************************************)
(* ResolveLyrics: a local file, or LRCLIB and its cache file, or neither.  *)
(***************************************************************************)
Resolve ==
    /\ pc = "resolve"
    /\ resolution' \in Resolutions \ {"superseded"}
    /\ pc' = IF resolution' = "transient" /\ attempt < MaxRetries THEN "backoff" ELSE "apply"
    /\ UNCHANGED <<session, shared, stop, job, jobGeneration, attempt, asked,
                   missed>>

(***************************************************************************)
(* The wait between two attempts ends early for a newer request.           *)
(***************************************************************************)
\* Mutant: the wait has no delay.
BackOffForGood ==
    /\ pc = "backoff" /\ (stop \/ pending # Nothing)
    /\ pc' = "apply" /\ resolution' = "superseded"
    /\ UNCHANGED <<session, shared, stop, job, jobGeneration, attempt, asked,
                   missed>>

BackOff ==
    /\ pc = "backoff"
    /\ IF stop \/ pending # Nothing
       THEN pc' = "apply" /\ resolution' = "superseded" /\ UNCHANGED attempt
       ELSE pc' = "resolve" /\ attempt' = attempt + 1 /\ UNCHANGED resolution
    /\ UNCHANGED <<session, shared, stop, job, jobGeneration, asked, missed>>

Result == CASE resolution \in Found -> Document("loaded", job)
            [] resolution = "superseded" -> Empty
            [] OTHER -> Document("unavailable", job)

\* Mutant: a result is late only while a request is waiting.
NonePending == pending = Nothing
Current == jobGeneration = generation

Apply ==
    /\ pc = "apply"
    /\ pc' = "wait"
    /\ IF Current
       THEN /\ document' = Result
            /\ file' = IF resolution \in {"local", "cached"} THEN job ELSE Nothing
       ELSE UNCHANGED <<document, file>>
    /\ UNCHANGED <<session, generation, pending, stop, job, jobGeneration, attempt,
                   resolution, asked, missed>>

Worker == Take \/ Resolve \/ BackOff \/ Apply

Next == SessionChanges \/ Render \/ Worker

Spec == Init /\ [][Next]_vars

(***************************************************************************)
(* The worker is scheduled, and a lookup and a delay end.                  *)
(***************************************************************************)
FairSpec == Spec /\ WF_vars(Worker)

-----------------------------------------------------------------------------
(***************************************************************************)
(* ShowsNewestRequest: the document is about what was asked for last: no   *)
(* late lookup, retry or superseded job puts another song's lyrics up, or  *)
(* covers a file loaded by hand (milkwave.cpp:102-110, 458-505).           *)
(***************************************************************************)
ShowsNewestRequest == ~stop => document.of = asked

(***************************************************************************)
(* FileBacksDocument: a file that is named as the source of the lyrics is  *)
(* that of the lyrics on screen, but after the session has ended           *)
(* (milkwave.h:105, milkwave.cpp:301-306).                                 *)
(***************************************************************************)
FileBacksDocument ==
    file # Nothing /\ document # Empty => document = Document("loaded", file)

(***************************************************************************)
(* FollowsTrack: while lyrics load automatically, what is asked for is the *)
(* track the visualizer names as current, or a file chosen by hand.  A     *)
(* poll that fails on the thumbnail leaves its track without a request;    *)
(* the next poll makes up for it, if the player answers that one           *)
(* (milkwave.cpp:257-285, 315-319, plugin_messages.cpp:877-884).           *)
(***************************************************************************)
FollowsTrack == autoLoad => asked \in {track} \cup Manual \/ track = missed

(***************************************************************************)
(* RequestHeld: a document that says it is loading has a request that is   *)
(* still pending or in the hands of the worker.                            *)
(***************************************************************************)
RequestHeld ==
    document.state = "loading" =>
        \/ pending = document.of
        \/ pc \in {"resolve", "backoff", "apply"} /\ Current /\ job = document.of

(***************************************************************************)
(* LoadingEnds: the monitor does not say "loading" for ever, however many  *)
(* retries a lookup takes.                                                 *)
(***************************************************************************)
LoadingEnds == document.state = "loading" ~> document.state # "loading" \/ stop

(***************************************************************************)
(* WorkerJoined: the destructor's join returns, also in the middle of the  *)
(* retries (milkwave.cpp:39-46).                                           *)
(***************************************************************************)
WorkerJoined == stop ~> pc = "exited"

(***************************************************************************)
(* LookupsEnd: neither the user nor the end of the program waits for ever  *)
(* for a lookup (milkwave.cpp:39-46, 447-456).                             *)
(***************************************************************************)
LookupsEnd == LoadingEnds /\ WorkerJoined
=============================================================================
