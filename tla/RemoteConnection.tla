-------------------------- MODULE RemoteConnection --------------------------
(***************************************************************************)
(* The Remote's one connection to a visualizer (MilkwaveRemoteForm.cs,     *)
(* PipeClient.cs, TcpVisualizerClient.cs).  Everything that creates or     *)
(* disposes the active client runs on the thread of the form.  The read    *)
(* loops of the clients run on threads of their own and post what happened *)
(* to the form's message queue; a posted call names no client, and it is   *)
(* not taken back when the client it came from is replaced.                *)
(*                                                                         *)
(* A disposed pipe client leaves nothing behind.  A network client that is *)
(* disposed while it connects leaves the call that reports the failure:    *)
(* `stray' counts those.                                                   *)
(***************************************************************************)
EXTENDS Naturals, Sequences, FiniteSetsExt

CONSTANTS Pids,      \* processes that may offer the pipe of a visualizer
          Targets,   \* network targets of network-remote.json
          None,      \* no client, no entry, no process
          MaxPosted, \* bound on the posted calls waiting for the form
          MaxStray   \* bound on disposed clients whose connect has not failed yet

Connections == {"connecting", "auth", "open", "denied", "gone"}
Clients == [peer : Pids \cup Targets, conn : Connections, asked : BOOLEAN]

ASSUME PeersAssumption == /\ Pids \cap Targets = {}
                          /\ None \notin Pids \cup Targets \cup Clients
\* Process ids are numbers, and there are finitely many processes.
ASSUME PidsAssumption ==
    \A some \in SUBSET Pids : some # {} => \E p \in some : \A q \in some : p >= q
ASSUME LimitsAssumption == MaxPosted \in Nat /\ MaxStray \in Nat

VARIABLES
    alive,     \* processes whose pipe can be found
    targets,   \* _activeNetworkTargets, as configured
    phase,     \* of the form: "new", "built", "shown", "closed"
    active,    \* _activeClient: its peer, its connection, whether STATE was sent
    timer,     \* autoScanTimer.Enabled
    listed,    \* _discoveredInstances
    selected,  \* the entry cboVisualizerInstance shows
    posted,    \* calls posted with BeginInvoke, in order
    stray,     \* network clients disposed while they were connecting
    awaited,   \* the poll after a launch: processes it would take as new
    arrival    \* the process the posted end of that poll names

form == <<phase, active, timer, listed, selected, targets>>
poll == <<awaited, arrival>>
vars == <<alive, form, posted, stray, poll>>

Calls == {"disconnected", "detach", "getState", "launched", "rescan"}
Client(peer, conn, asked) == [peer |-> peer, conn |-> conn, asked |-> asked]
Connected == active # None /\ active.conn = "open"

TypeOK ==
    /\ alive \subseteq Pids /\ listed \subseteq Pids /\ targets \subseteq Targets
    /\ phase \in {"new", "built", "shown", "closed"}
    /\ active = None \/ active \in Clients
    /\ active # None /\ active.peer \in Pids => active.conn \in {"open", "gone"}
    /\ timer \in BOOLEAN
    /\ selected \in Pids \cup Targets \cup {None}
    /\ posted \in Seq(Calls) /\ Len(posted) <= MaxPosted
    /\ stray \in 0 .. MaxStray
    /\ awaited \subseteq Pids /\ arrival \in Pids \cup {None}

Init ==
    /\ alive \in SUBSET Pids /\ targets \in SUBSET Targets
    /\ phase = "new" /\ active = None /\ timer = FALSE
    /\ listed = {} /\ selected = None
    /\ posted = <<>> /\ stray = 0 /\ awaited = {} /\ arrival = None

Appears(p) == /\ alive' = alive \cup {p}
              /\ UNCHANGED <<form, posted, stray, poll>>

Vanishes(p) == /\ alive' = alive \ {p}
               /\ UNCHANGED <<form, posted, stray, poll>>

-----------------------------------------------------------------------------
(***************************************************************************)
(* The clients' own threads.                                               *)
(***************************************************************************)
BeginInvoke(call) == Len(posted) < MaxPosted /\ posted' = Append(posted, call)

Becomes(conn) == /\ active' = [active EXCEPT !.conn = conn]
                 /\ UNCHANGED <<alive, targets, phase, timer, listed, selected, stray, poll>>

\* ConnectAsync: the handshake is sent and the read loop starts.
ConnectAnswered == /\ active # None /\ active.conn = "connecting"
                   /\ Becomes("auth")
                   /\ UNCHANGED posted

ConnectFails == /\ active # None /\ active.conn = "connecting"
                /\ BeginInvoke("detach")
                /\ Becomes("gone")

\* Mutant: the state is not asked for.
ApprovedQuietly == /\ active # None /\ active.conn = "auth"
                   /\ Becomes("open")
                   /\ UNCHANGED posted

Approved == /\ active # None /\ active.conn = "auth"
            /\ BeginInvoke("getState")
            /\ Becomes("open")

Refused == /\ active # None /\ active.conn = "auth"
           /\ BeginInvoke("detach")
           /\ Becomes("denied")

(***************************************************************************)
(* A read loop ends: the visualizer has gone, the pipe broke, or the       *)
(* network refused.  The event has a subscriber while the client is active.*)
(***************************************************************************)
ReadLoopEnds == /\ active # None /\ active.conn \in {"auth", "open", "denied"}
                /\ BeginInvoke("disconnected")
                /\ Becomes("gone")

\* The connect of a disposed client fails: AuthStateChanged is still subscribed.
StrayFails == /\ stray > 0 /\ stray' = stray - 1
              /\ BeginInvoke("detach")
              /\ UNCHANGED <<alive, form, poll>>

PollFinds == \E p \in alive \cap awaited :
                /\ BeginInvoke("launched")
                /\ arrival' = p /\ awaited' = {}
                /\ UNCHANGED <<alive, form, stray>>

PollTimesOut == /\ awaited # {}
                /\ BeginInvoke("rescan")
                /\ awaited' = {}
                /\ UNCHANGED <<alive, form, stray, arrival>>

-----------------------------------------------------------------------------
(***************************************************************************)
(* The form.  Each of these is a part of a handler: it says what becomes   *)
(* of `active', `timer', `listed', `selected' or `stray'.                  *)
(***************************************************************************)
(***************************************************************************)
(* Dispose of the active client.  The connect of a network client then     *)
(* throws; the refusal of one that waits for approval may be on its way.   *)
(***************************************************************************)
Dispose ==
    /\ stray' \in IF active = None THEN {stray}
                  ELSE IF active.conn = "connecting" THEN {stray + 1}
                  ELSE IF active.conn = "auth" /\ active.peer \in Targets THEN {stray, stray + 1}
                  ELSE {stray}
    /\ stray' <= MaxStray

\* Mutant: the scan is not started again.
DetachLeavesTimer == Dispose /\ active' = None /\ timer' = timer

\* DetachAndDisposeActiveClient with its EnsureAutoScanTimerState.
Detach == Dispose /\ active' = None /\ timer' = (timer \/ active # None)

\* ScanAndPopulateVisualizers: the first entry is selected without an event.
FirstEntry == IF alive' # {} THEN alive' ELSE IF targets' # {} THEN targets' ELSE {None}
Scan == listed' = alive' /\ selected' \in FirstEntry

(***************************************************************************)
(* ConnectToInstance after the detach, from the entry of p in a list that  *)
(* may be stale.  The pipe may not be there any more, or not accept in     *)
(* time: then the process with the highest id is tried once.  The pipes    *)
(* that can be found are those of alive', a launch in the same handler     *)
(* included.                                                               *)
(***************************************************************************)
ConnectToInstance(p, list) ==
    \/ /\ p \in alive'
       /\ active' = Client(p, "open", TRUE) /\ timer' = FALSE
       /\ listed' = list /\ selected' = p
    \/ /\ alive' # {}
       /\ active' = Client(Max(alive'), "open", TRUE) /\ timer' = FALSE
       /\ listed' = alive' /\ selected' = Max(alive')
    \/ active' = None /\ timer' = TRUE /\ Scan

\* ConnectToNetworkTarget after the detach, which alone touches the timer.
ConnectToNetworkTarget(t) == active' = Client(t, "connecting", FALSE)

-----------------------------------------------------------------------------
(***************************************************************************)
(* Start and end of the form.                                              *)
(***************************************************************************)
(***************************************************************************)
(* LaunchAndConnectVisualizer keeps the form waiting for the pipe of what  *)
(* it started, or of any other visualizer.                                 *)
(***************************************************************************)
LaunchAndConnect(timerThen) ==
    \/ alive' # {} /\ \E p \in alive' : ConnectToInstance(p, alive')
    \/ alive' = {} /\ Scan /\ timer' = timerThen /\ UNCHANGED active

MayComeUp == alive' \in {alive} \cup {alive \cup {p} : p \in Pids}

(***************************************************************************)
(* The constructor: ConnectToVisualizer of a release build.  Without an    *)
(* instance and a target it launches the last visualizer, if it knows one. *)
(***************************************************************************)
Construct ==
    /\ phase = "new" /\ phase' = "built"
    /\ UNCHANGED <<targets, posted, stray, poll>>
    /\ \/ /\ UNCHANGED alive
          /\ \E p \in alive : ConnectToInstance(p, alive)
       \/ /\ alive = {} /\ UNCHANGED <<alive, timer>>
          /\ \E t \in targets : ConnectToNetworkTarget(t)
          /\ Scan
       \/ alive = {} /\ targets = {} /\ MayComeUp /\ LaunchAndConnect(timer)
       \/ alive = {} /\ targets = {} /\ UNCHANGED <<alive, timer, active>> /\ Scan

(***************************************************************************)
(* MilkwaveRemoteForm_Load launches a visualizer if none was found, and    *)
(* ends with EnsureAutoScanTimerState.                                     *)
(***************************************************************************)
Load ==
    /\ phase = "built" /\ phase' = "shown"
    /\ UNCHANGED <<targets, posted, stray, poll>>
    /\ \/ active = None /\ MayComeUp /\ LaunchAndConnect(TRUE)
       \/ timer' = (active = None) /\ UNCHANGED <<alive, active, listed, selected>>

FormClosing == /\ phase = "shown" /\ phase' = "closed"
               /\ Detach
               /\ UNCHANGED <<alive, targets, listed, selected, posted, poll>>

-----------------------------------------------------------------------------
(***************************************************************************)
(* The handlers of the form while it is shown.                             *)
(***************************************************************************)
Handler == phase = "shown" /\ UNCHANGED <<phase, alive>>

\* cboWindowTitle_SelectedIndexChanged
Select(entry) ==
    /\ Handler /\ entry # selected
    /\ UNCHANGED <<targets, posted, poll>>
    /\ Dispose
    /\ \/ entry \in listed /\ ConnectToInstance(entry, listed)
       \/ /\ entry \in targets /\ ConnectToNetworkTarget(entry)
          /\ timer' = (timer \/ active # None)
          /\ selected' = entry /\ UNCHANGED listed

\* btnVisualizerScan_Click: the targets are read again from their file.
ScanClick ==
    /\ Handler /\ targets' \in SUBSET Targets
    /\ Dispose
    /\ \/ \E p \in alive : ConnectToInstance(p, alive)
       \/ /\ alive = {} /\ Scan
          /\ timer' = (timer \/ active # None)
          /\ \/ \E t \in targets' : ConnectToNetworkTarget(t)
             \/ targets' = {} /\ active' = None
    /\ UNCHANGED <<posted, poll>>

\* LaunchVisualizerExe up to the start of its poll.
Launch ==
    /\ Handler
    /\ awaited = {} /\ arrival = None
    /\ awaited' = Pids \ alive
    /\ UNCHANGED <<targets, active, timer, listed, selected, stray, posted, arrival>>

\* Mutant: the scan looks at the list it has.
TickWithoutDiscovery ==
    /\ Handler /\ timer
    /\ UNCHANGED <<targets, stray, posted, poll>>
    /\ \/ active # None /\ timer' = FALSE /\ UNCHANGED <<active, listed, selected>>
       \/ active = None /\ \E p \in listed : ConnectToInstance(p, listed)
       \/ /\ active = None /\ listed = {}
          /\ \E t \in targets : ConnectToNetworkTarget(t)
          /\ timer' = FALSE /\ UNCHANGED <<listed, selected>>

AutoScanTimer_Tick ==
    /\ Handler /\ timer
    /\ UNCHANGED <<targets, stray, posted, poll>>
    /\ \/ active # None /\ timer' = FALSE /\ UNCHANGED <<active, listed, selected>>
       \/ active = None /\ \E p \in alive : ConnectToInstance(p, alive)
       \/ /\ active = None /\ alive = {}
          /\ \E t \in targets : ConnectToNetworkTarget(t)
          /\ timer' = FALSE /\ UNCHANGED <<listed, selected>>

(***************************************************************************)
(* Posted calls.  A disconnect disposes of whichever client is active; if  *)
(* that was the process selected, the one with the highest id takes over.  *)
(***************************************************************************)
OnPipeDisconnected ==
    /\ Dispose
    /\ IF active # None /\ selected = active.peer /\ selected \in listed /\ alive # {}
       THEN ConnectToInstance(Max(alive), alive)
       ELSE active' = None /\ timer' = TRUE /\ Scan
    /\ UNCHANGED arrival

SendGetState == /\ active' = IF Connected THEN [active EXCEPT !.asked = TRUE] ELSE active
                /\ UNCHANGED <<timer, listed, selected, stray, arrival>>

LaunchedHandler ==
    /\ IF arrival \in alive
       THEN Dispose /\ ConnectToInstance(arrival, alive)
       ELSE Scan /\ UNCHANGED <<active, timer, stray>>
    /\ arrival' = None

RescanHandler == Scan /\ UNCHANGED <<active, timer, stray, arrival>>

Handle ==
    /\ Handler /\ UNCHANGED <<targets, awaited>>
    /\ posted # <<>> /\ posted' = Tail(posted)
    /\ \/ Head(posted) = "disconnected" /\ OnPipeDisconnected
       \/ Head(posted) = "detach" /\ Detach /\ UNCHANGED <<listed, selected, arrival>>
       \/ Head(posted) = "getState" /\ SendGetState
       \/ Head(posted) = "launched" /\ LaunchedHandler
       \/ Head(posted) = "rescan" /\ RescanHandler

-----------------------------------------------------------------------------
Threads == ConnectAnswered \/ ConnectFails \/ Approved \/ Refused \/ ReadLoopEnds \/ StrayFails
               \/ PollFinds \/ PollTimesOut

User == (\E entry \in Pids \cup Targets : Select(entry)) \/ ScanClick \/ Launch \/ FormClosing

Next == \/ \E p \in Pids : Appears(p) \/ Vanishes(p)
        \/ Construct \/ Load
        \/ User \/ AutoScanTimer_Tick \/ Handle
        \/ Threads

(***************************************************************************)
(* The form's message loop serves posted calls and, when there are none,   *)
(* its timer; a pipe that is there accepts sooner or later.  A connect has *)
(* a time-out, and the loop of a visualizer that has gone ends; nobody     *)
(* promises that a network visualizer approves.                            *)
(***************************************************************************)
Accepted == AutoScanTimer_Tick /\ active' # None
Lost == ReadLoopEnds /\ active.peer \in Pids \ alive

Fairness == /\ WF_vars(Construct) /\ WF_vars(Load)
            /\ WF_vars(Handle) /\ SF_vars(Accepted)
            /\ WF_vars(ConnectAnswered \/ ConnectFails) /\ WF_vars(Lost)
            /\ WF_vars(StrayFails)

Spec == Init /\ [][Next]_vars
FairSpec == Spec /\ Fairness

-----------------------------------------------------------------------------
(***************************************************************************)
(* While the form is up it has a client or the scan that will find one:    *)
(* whichever posted call or failed connect took the client away, a second  *)
(* one in the middle of a switch included.                                 *)
(***************************************************************************)
LooksForOne == phase = "shown" => active # None \/ timer

(***************************************************************************)
(* A connection that is up has been asked for the visualizer's state, or   *)
(* the call that asks waits its turn: it is not spent on a client that     *)
(* took over in between, nor lost with one that was replaced.              *)
(***************************************************************************)
StateAskedFor == Connected => active.asked \/ \E i \in DOMAIN posted : posted[i] = "getState"

(***************************************************************************)
(* A client whose connection has ended does not stay the active one, with  *)
(* the controls of the form talking to nobody.                             *)
(***************************************************************************)
DeadClientLeaves == (active # None /\ active.conn = "gone") ~>
                        (active = None \/ active.conn # "gone" \/ phase = "closed")

(***************************************************************************)
(* A visualizer that stays up is found: clients may fail, network targets  *)
(* hang and the user may switch as often as he likes, but the form does    *)
(* not stay without a client.                                              *)
(***************************************************************************)
VisualizerFound == <>[](alive # {} /\ phase # "closed") => []<>(active # None)

\* A Remote that lost its visualizer gets over it, and is connected again.
Recovers == DeadClientLeaves /\ VisualizerFound
=============================================================================
