-------------------------- MODULE Connection_proof --------------------------
(***************************************************************************)
(* The two ends of what the Remote and the visualizer say to each other.   *)
(*                                                                         *)
(* RemoteConnection: the Remote is never left without a client and without *)
(* a scan, and every connection is asked for the visualizer's state, for   *)
(* any visualizers, targets and number of posted calls.                    *)
(*                                                                         *)
(* PipeConnection: what travels through one pipe comes out whole, in order *)
(* and once, for any sizes of messages, buffers and pipes.  The units that *)
(* are left of a message, wherever they are, are consecutive pieces of it. *)
(***************************************************************************)
EXTENDS RemoteConnection, PipeConnection, SequenceTheorems, TLAPS

LEMMA MaxIsOne ==
    ASSUME NEW some \in SUBSET Pids, some # {}
    PROVE  Max(some) \in some
<1>1. PICK p \in some : \A q \in some : p >= q
  BY PidsAssumption
<1> QED
  BY <1>1 DEF Max

LEMMA ClientTyped ==
    ASSUME NEW peer \in Pids \cup Targets, NEW conn \in Connections, NEW asked \in BOOLEAN
    PROVE  /\ Client(peer, conn, asked) \in Clients /\ Client(peer, conn, asked) # None
           /\ Client(peer, conn, asked).peer = peer
           /\ Client(peer, conn, asked).conn = conn
           /\ Client(peer, conn, asked).asked = asked
BY PeersAssumption DEF Client, Clients

(***************************************************************************)
(* The parts of the state the form's handlers share.                       *)
(***************************************************************************)
ActiveOK == /\ active = None \/ active \in Clients
            /\ active # None /\ active.peer \in Pids => active.conn \in {"open", "gone"}
ListsOK == listed \subseteq Pids /\ selected \in Pids \cup Targets \cup {None}
TimerOK == timer \in BOOLEAN
StrayOK == stray \in 0 .. MaxStray
ArrivalOK == arrival \in Pids \cup {None}
FormOK == ActiveOK /\ ListsOK /\ TimerOK /\ StrayOK

LEMMA TypeParts ==
    TypeOK <=> /\ FormOK
               /\ alive \subseteq Pids /\ targets \subseteq Targets
               /\ phase \in {"new", "built", "shown", "closed"}
               /\ posted \in Seq(Calls) /\ Len(posted) <= MaxPosted
               /\ awaited \subseteq Pids /\ arrival \in Pids \cup {None}
BY DEF TypeOK, FormOK, ActiveOK, ListsOK, TimerOK, StrayOK

LEMMA TypePartsNext ==
    TypeOK' <=> /\ FormOK'
                /\ alive' \subseteq Pids /\ targets' \subseteq Targets
                /\ phase' \in {"new", "built", "shown", "closed"}
                /\ posted' \in Seq(Calls) /\ Len(posted') <= MaxPosted
                /\ awaited' \subseteq Pids /\ arrival' \in Pids \cup {None}
BY DEF TypeOK, FormOK, ActiveOK, ListsOK, TimerOK, StrayOK

(***************************************************************************)
(* A connect, with what it leaves behind whether or not it succeeds.       *)
(***************************************************************************)
LEMMA ConnectTyped ==
    ASSUME alive' \subseteq Pids, targets' \subseteq Targets,
           NEW p, NEW list \in SUBSET Pids, ConnectToInstance(p, list)
    PROVE  /\ ActiveOK' /\ ListsOK' /\ timer' \in BOOLEAN
           /\ active' # None \/ timer'
           /\ active' # None => active'.asked
<1>1. CASE p \in alive' /\ active' = Client(p, "open", TRUE) /\ timer' = FALSE /\ listed' = list /\ selected' = p
  <2>1. p \in Pids \cup Targets /\ p \in Pids /\ "open" \in Connections /\ TRUE \in BOOLEAN
    BY <1>1 DEF Connections
  <2>2. /\ active' \in Clients /\ active' # None
        /\ active'.conn = "open" /\ active'.asked = TRUE
    BY <1>1, <2>1, ClientTyped
  <2> QED
    BY <1>1, <2>1, <2>2 DEF ActiveOK, ListsOK
<1>2. CASE /\ alive' # {}
           /\ active' = Client(Max(alive'), "open", TRUE) /\ timer' = FALSE
           /\ listed' = alive' /\ selected' = Max(alive')
  <2>1. Max(alive') \in Pids \cup Targets /\ Max(alive') \in Pids /\ "open" \in Connections /\ TRUE \in BOOLEAN
    <3>1. alive' \in SUBSET Pids /\ alive' # {}
      BY <1>2
    <3>2. Max(alive') \in alive'
      BY <3>1, MaxIsOne
    <3> QED
      BY <3>1, <3>2 DEF Connections
  <2>2. /\ active' \in Clients /\ active' # None
        /\ active'.conn = "open" /\ active'.asked = TRUE
    BY <1>2, <2>1, ClientTyped
  <2> QED
    BY <1>2, <2>1, <2>2 DEF ActiveOK, ListsOK
<1>3. CASE active' = None /\ timer' = TRUE /\ Scan
  BY <1>3 DEF ActiveOK, ListsOK, Scan, FirstEntry
<1> QED
  BY <1>1, <1>2, <1>3 DEF ConnectToInstance

LEMMA TargetTyped ==
    ASSUME NEW t \in Targets, ConnectToNetworkTarget(t)
    PROVE  ActiveOK' /\ active' # None /\ active'.conn = "connecting"
<1>1. active' = Client(t, "connecting", FALSE) /\ t \in Pids \cup Targets /\ t \notin Pids
  BY PeersAssumption DEF ConnectToNetworkTarget
<1>2. "connecting" \in Connections /\ FALSE \in BOOLEAN
  BY DEF Connections
<1>3. /\ active' \in Clients /\ active' # None
      /\ active'.conn = "connecting" /\ active'.peer = t
  BY <1>1, <1>2, ClientTyped
<1> QED
  BY <1>1, <1>3 DEF ActiveOK

LEMMA ScanTyped ==
    ASSUME alive' \subseteq Pids, targets' \subseteq Targets, Scan
    PROVE  ListsOK'
BY DEF Scan, FirstEntry, ListsOK

LEMMA DisposeTyped ==
    ASSUME stray \in 0 .. MaxStray, Dispose
    PROVE  stray' \in 0 .. MaxStray
BY LimitsAssumption DEF Dispose

LEMMA LaunchTyped ==
    ASSUME alive' \subseteq Pids, targets' \subseteq Targets, NEW timerThen \in BOOLEAN,
           ActiveOK, LaunchAndConnect(timerThen)
    PROVE  ActiveOK' /\ ListsOK' /\ timer' \in BOOLEAN
<1>1. CASE alive' # {} /\ \E p \in alive' : ConnectToInstance(p, alive')
  BY <1>1, ConnectTyped
<1>2. CASE alive' = {} /\ Scan /\ timer' = timerThen /\ UNCHANGED active
  BY <1>2, ScanTyped DEF ActiveOK
<1> QED
  BY <1>1, <1>2 DEF LaunchAndConnect

-----------------------------------------------------------------------------
LEMMA QueueAppend ==
    ASSUME NEW q \in Seq(Calls), Len(q) < MaxPosted, NEW call \in Calls
    PROVE  Append(q, call) \in Seq(Calls) /\ Len(Append(q, call)) <= MaxPosted
BY LimitsAssumption

LEMMA QueueTail ==
    ASSUME NEW q \in Seq(Calls), q # <<>>, Len(q) <= MaxPosted
    PROVE  Tail(q) \in Seq(Calls) /\ Len(Tail(q)) <= MaxPosted
BY LimitsAssumption

(***************************************************************************)
(* TypeOK: what the clients' threads and the form's handlers write.        *)
(***************************************************************************)
LEMMA BecomesTyped ==
    ASSUME TypeOK, active # None, active.conn \in {"connecting", "auth", "open", "denied"},
           NEW conn \in Connections, Becomes(conn),
           active.peer \in Pids => conn \in {"open", "gone"}
    PROVE  FormOK'
<1>1. active \in Clients
  BY DEF TypeOK
<1>2. active' \in Clients /\ active'.conn = conn /\ active'.peer = active.peer
  BY <1>1 DEF Becomes, Clients
<1> QED
  BY <1>2 DEF Becomes, FormOK, ActiveOK, ListsOK, TimerOK, StrayOK, TypeOK

LEMMA ThreadsTyped == TypeOK /\ Threads => TypeOK'
<1> SUFFICES ASSUME TypeOK, Threads PROVE TypeOK'
  OBVIOUS
<1> DEFINE Others == /\ alive' \subseteq Pids /\ targets' \subseteq Targets
                     /\ phase' \in {"new", "built", "shown", "closed"}
                     /\ awaited' \subseteq Pids /\ arrival' \in Pids \cup {None}
           Queue == posted' \in Seq(Calls) /\ Len(posted') <= MaxPosted
<1>0. \A call \in Calls : BeginInvoke(call) => Queue
  BY QueueAppend DEF BeginInvoke, TypeOK
<1>a. \A conn : Becomes(conn) => Others
  BY DEF Becomes, poll, TypeOK
<1>1. CASE ConnectAnswered
  <2>1. FormOK'
    BY <1>1, BecomesTyped, "auth" \in Connections DEF ConnectAnswered, Connections, TypeOK
  <2> QED
    BY <1>1, <1>a, <2>1, TypePartsNext DEF ConnectAnswered, TypeOK
<1>2. CASE ConnectFails
  <2>1. FormOK'
    BY <1>2, BecomesTyped, "gone" \in Connections DEF ConnectFails, Connections
  <2>2. Queue
    BY <1>2, <1>0 DEF ConnectFails, Calls
  <2> QED
    BY <1>2, <1>a, <2>1, <2>2, TypePartsNext DEF ConnectFails
<1>3. CASE Approved
  <2>1. FormOK'
    BY <1>3, BecomesTyped, "open" \in Connections DEF Approved, Connections
  <2>2. Queue
    BY <1>3, <1>0 DEF Approved, Calls
  <2> QED
    BY <1>3, <1>a, <2>1, <2>2, TypePartsNext DEF Approved
<1>4. CASE Refused
  <2>1. FormOK'
    BY <1>4, BecomesTyped, "denied" \in Connections DEF Refused, Connections, TypeOK
  <2>2. Queue
    BY <1>4, <1>0 DEF Refused, Calls
  <2> QED
    BY <1>4, <1>a, <2>1, <2>2, TypePartsNext DEF Refused
<1>5. CASE ReadLoopEnds
  <2>1. FormOK'
    BY <1>5, BecomesTyped, "gone" \in Connections DEF ReadLoopEnds, Connections
  <2>2. Queue
    BY <1>5, <1>0 DEF ReadLoopEnds, Calls
  <2> QED
    BY <1>5, <1>a, <2>1, <2>2, TypePartsNext DEF ReadLoopEnds
<1>6. CASE StrayFails
  <2>1. Queue
    BY <1>6, <1>0 DEF StrayFails, Calls
  <2>2. stray' \in 0 .. MaxStray
    BY <1>6, LimitsAssumption DEF StrayFails, TypeOK
  <2> QED
    BY <1>6, <2>1, <2>2 DEF StrayFails, form, poll, TypeOK
<1>7. CASE PollFinds
  <2>1. Queue
    BY <1>7, <1>0 DEF PollFinds, Calls
  <2> QED
    BY <1>7, <2>1 DEF PollFinds, form, TypeOK
<1>8. CASE PollTimesOut
  <2>1. Queue
    BY <1>8, <1>0 DEF PollTimesOut, Calls
  <2> QED
    BY <1>8, <2>1 DEF PollTimesOut, form, TypeOK
<1> QED
  BY <1>1, <1>2, <1>3, <1>4, <1>5, <1>6, <1>7, <1>8 DEF Threads

LEMMA StartTyped == TypeOK /\ (Construct \/ Load) => TypeOK'
<1> SUFFICES ASSUME TypeOK, Construct \/ Load PROVE TypeOK'
  OBVIOUS
<1>1. alive' \subseteq Pids /\ targets' \subseteq Targets
  BY DEF TypeOK, Construct, Load, MayComeUp
<1>2. ActiveOK /\ ListsOK /\ timer \in BOOLEAN /\ (active = None) \in BOOLEAN
  BY DEF TypeOK, ActiveOK, ListsOK
<1>3. ActiveOK' /\ ListsOK' /\ timer' \in BOOLEAN
  <2>1. CASE \E p \in alive : ConnectToInstance(p, alive)
    BY <1>1, <2>1, ConnectTyped DEF TypeOK
  <2>2. CASE timer' = timer /\ Scan /\ \E t \in targets : ConnectToNetworkTarget(t)
    BY <1>1, <1>2, <2>2, TargetTyped, ScanTyped DEF TypeOK
  <2>3. ASSUME NEW timerThen \in BOOLEAN, LaunchAndConnect(timerThen)
        PROVE  ActiveOK' /\ ListsOK' /\ timer' \in BOOLEAN
    BY <1>1, <1>2, <2>3, LaunchTyped
  <2>4. CASE Scan /\ UNCHANGED <<timer, active>>
    BY <1>1, <1>2, <2>4, ScanTyped DEF ActiveOK
  <2>5. CASE timer' = (active = None) /\ UNCHANGED <<active, listed, selected>>
    BY <1>2, <2>5 DEF ActiveOK, ListsOK
  <2> QED
    BY <1>2, <2>1, <2>2, <2>3, <2>4, <2>5 DEF Construct, Load
<1> QED
  BY <1>1, <1>3 DEF Construct, Load, TypeOK, ActiveOK, ListsOK, poll

LEMMA UserTyped == TypeOK /\ User => TypeOK'
<1> SUFFICES ASSUME TypeOK, User PROVE TypeOK'
  OBVIOUS
<1>1. alive' \subseteq Pids /\ targets' \subseteq Targets
  BY DEF TypeOK, User, Select, ScanClick, Launch, FormClosing, Handler
<1>2. ActiveOK /\ ListsOK /\ timer \in BOOLEAN /\ stray \in 0 .. MaxStray
  BY DEF TypeOK, ActiveOK, ListsOK
<1>3. (timer \/ active # None) \in BOOLEAN
  OBVIOUS
<1>4. ASSUME NEW entry \in Pids \cup Targets, Select(entry) PROVE TypeOK'
  <2>1. stray' \in 0 .. MaxStray
    BY <1>2, <1>4, DisposeTyped DEF Select
  <2>2. ActiveOK' /\ ListsOK' /\ timer' \in BOOLEAN
    <3>1. CASE entry \in listed /\ ConnectToInstance(entry, listed)
      BY <1>1, <3>1, ConnectTyped DEF TypeOK
    <3>2. CASE /\ entry \in targets /\ ConnectToNetworkTarget(entry)
               /\ timer' = (timer \/ active # None)
               /\ selected' = entry /\ UNCHANGED listed
      <4>1. entry \in Targets
        BY <3>2 DEF TypeOK
      <4> QED
        BY <1>2, <1>3, <3>2, <4>1, TargetTyped DEF ListsOK
    <3> QED
      BY <1>4, <3>1, <3>2 DEF Select
  <2> QED
    BY <1>1, <1>4, <2>1, <2>2 DEF Select, Handler, TypeOK, ActiveOK, ListsOK, poll
<1>5. CASE ScanClick
  <2>1. stray' \in 0 .. MaxStray
    BY <1>2, <1>5, DisposeTyped DEF ScanClick
  <2>2. ActiveOK' /\ ListsOK' /\ timer' \in BOOLEAN
    <3>1. CASE \E p \in alive : ConnectToInstance(p, alive)
      BY <1>1, <3>1, ConnectTyped DEF TypeOK
    <3>2. CASE /\ Scan /\ timer' = (timer \/ active # None)
               /\ \/ \E t \in targets' : ConnectToNetworkTarget(t)
                  \/ targets' = {} /\ active' = None
      <4>1. ListsOK'
        BY <1>1, <3>2, ScanTyped
      <4>2. ActiveOK'
        BY <1>1, <3>2, TargetTyped DEF ActiveOK
      <4> QED
        BY <1>3, <3>2, <4>1, <4>2
    <3> QED
      BY <1>5, <3>1, <3>2 DEF ScanClick
  <2> QED
    BY <1>1, <1>5, <2>1, <2>2 DEF ScanClick, Handler, TypeOK, ActiveOK, ListsOK, poll
<1>6. CASE Launch
  BY <1>6 DEF Launch, Handler, TypeOK
<1>7. CASE FormClosing
  <2>1. stray' \in 0 .. MaxStray
    BY <1>2, <1>7, DisposeTyped DEF FormClosing, Detach
  <2> QED
    BY <1>3, <1>7, <2>1 DEF FormClosing, Detach, TypeOK, poll
<1> QED
  BY <1>4, <1>5, <1>6, <1>7 DEF User

LEMMA TickTyped == TypeOK /\ AutoScanTimer_Tick => TypeOK'
<1> SUFFICES ASSUME TypeOK, AutoScanTimer_Tick PROVE TypeOK'
  OBVIOUS
<1>1. alive' \subseteq Pids /\ targets' \subseteq Targets
  BY DEF TypeOK, AutoScanTimer_Tick, Handler
<1>2. ActiveOK /\ ListsOK
  BY DEF TypeOK, ActiveOK, ListsOK
<1>3. ActiveOK' /\ ListsOK' /\ timer' \in BOOLEAN
  <2>1. CASE timer' = FALSE /\ UNCHANGED <<active, listed, selected>>
    BY <1>2, <2>1 DEF ActiveOK, ListsOK
  <2>2. CASE \E p \in alive : ConnectToInstance(p, alive)
    BY <1>1, <2>2, ConnectTyped DEF TypeOK
  <2>3. CASE /\ timer' = FALSE /\ UNCHANGED <<listed, selected>>
             /\ \E t \in targets : ConnectToNetworkTarget(t)
    BY <1>1, <1>2, <2>3, TargetTyped DEF TypeOK, ListsOK
  <2> QED
    BY <2>1, <2>2, <2>3 DEF AutoScanTimer_Tick
<1> QED
  BY <1>1, <1>3 DEF AutoScanTimer_Tick, Handler, TypeOK, ActiveOK, ListsOK, poll

LEMMA HandleTyped == TypeOK /\ Handle => TypeOK'
<1> SUFFICES ASSUME TypeOK, Handle PROVE TypeOK'
  OBVIOUS
<1>1. alive' = alive /\ alive \in SUBSET Pids /\ alive' \subseteq Pids /\ targets' \subseteq Targets
  BY DEF TypeOK, Handle, Handler
<1>2. ActiveOK /\ ListsOK /\ TimerOK /\ StrayOK /\ ArrivalOK
  BY DEF TypeOK, ActiveOK, ListsOK, TimerOK, StrayOK, ArrivalOK
<1>3. posted' \in Seq(Calls) /\ Len(posted') <= MaxPosted
  BY QueueTail DEF Handle, TypeOK
<1>d. Dispose => StrayOK'
  BY <1>2, DisposeTyped DEF StrayOK
<1>s. UNCHANGED stray => StrayOK'
  BY <1>2 DEF StrayOK
<1>r. UNCHANGED arrival \/ arrival' = None => ArrivalOK'
  BY <1>2 DEF ArrivalOK
<1>c. \A p : ConnectToInstance(p, alive) => ActiveOK' /\ ListsOK' /\ TimerOK'
  BY <1>1, ConnectTyped DEF TimerOK
<1>l. Scan => ListsOK'
  BY <1>1, ScanTyped
<1>u. /\ UNCHANGED active \/ active' = None => ActiveOK'
      /\ UNCHANGED <<listed, selected>> => ListsOK'
      /\ UNCHANGED timer => TimerOK'
  BY <1>2 DEF ActiveOK, ListsOK, TimerOK
<1> DEFINE Done == ActiveOK' /\ ListsOK' /\ TimerOK' /\ StrayOK' /\ ArrivalOK'
<1>p. phase' \in {"new", "built", "shown", "closed"} /\ awaited' \subseteq Pids
  BY DEF Handle, Handler, TypeOK
<1> SUFFICES Done
  BY <1>1, <1>3, <1>p, TypePartsNext DEF ArrivalOK, FormOK
<1>5. CASE OnPipeDisconnected
  <2>1. StrayOK' /\ ArrivalOK'
    BY <1>5, <1>d, <1>r DEF OnPipeDisconnected
  <2>2. CASE ConnectToInstance(Max(alive), alive)
    BY <2>1, <2>2, <1>c
  <2>3. CASE active' = None /\ timer' = TRUE /\ Scan
    BY <2>1, <2>3, <1>l, <1>u DEF TimerOK
  <2> QED
    BY <1>5, <2>2, <2>3 DEF OnPipeDisconnected
<1>6. CASE Detach /\ UNCHANGED <<listed, selected, arrival>>
  <2>1. TimerOK'
    BY <1>6 DEF Detach, TimerOK
  <2> QED
    BY <1>6, <1>d, <1>r, <1>u, <2>1 DEF Detach
<1>7. CASE SendGetState
  <2>1. ActiveOK'
    BY <1>2, <1>7 DEF SendGetState, ActiveOK, Clients, Connected
  <2> QED
    BY <1>7, <1>s, <1>r, <1>u, <2>1 DEF SendGetState
<1>8. CASE LaunchedHandler
  <2>1. CASE Dispose /\ ConnectToInstance(arrival, alive)
    BY <1>8, <2>1, <1>c, <1>d, <1>r DEF LaunchedHandler
  <2>2. CASE Scan /\ UNCHANGED <<active, timer, stray>>
    BY <1>8, <2>2, <1>l, <1>u, <1>s, <1>r DEF LaunchedHandler
  <2> QED
    BY <1>8, <2>1, <2>2 DEF LaunchedHandler
<1>9. CASE RescanHandler
  BY <1>9, <1>l, <1>u, <1>s, <1>r DEF RescanHandler
<1> QED
  BY <1>5, <1>6, <1>7, <1>8, <1>9 DEF Handle

(***************************************************************************)
(* The variables keep their types: TypeOK is inductive, for any process    *)
(* ids, targets and bounds of the queue.                                   *)
(***************************************************************************)
THEOREM TypeCorrect == Spec => []TypeOK
<1>1. Init => TypeOK
  <2>1. 0 \in 0 .. MaxStray /\ <<>> \in Seq(Calls) /\ Len(<<>>) <= MaxPosted
    BY LimitsAssumption
  <2> QED
    BY <2>1 DEF Init, TypeOK
<1>2. TypeOK /\ [Next]_vars => TypeOK'
  <2>1. TypeOK /\ UNCHANGED vars => TypeOK'
    BY DEF TypeOK, vars, form, poll
  <2>2. TypeOK /\ (\E p \in Pids : Appears(p) \/ Vanishes(p)) => TypeOK'
    BY DEF TypeOK, Appears, Vanishes, form, poll
  <2> QED
    BY <2>1, <2>2, ThreadsTyped, StartTyped, UserTyped, TickTyped, HandleTyped DEF Next
<1> QED
  BY <1>1, <1>2, PTL DEF Spec

-----------------------------------------------------------------------------
(***************************************************************************)
(* Whatever takes the client away leaves the scan running: a form that is  *)
(* shown has one or the other, after any sequence of posted calls.         *)
(***************************************************************************)
THEOREM NeverStranded == Spec => []LooksForOne
<1>1. Init => LooksForOne
  BY DEF Init, LooksForOne
<1>2. TypeOK /\ LooksForOne /\ [Next]_vars => LooksForOne'
  <2> SUFFICES ASSUME TypeOK, LooksForOne, [Next]_vars, phase' = "shown"
               PROVE  active' # None \/ timer'
    BY DEF LooksForOne
  <2>1. alive' \subseteq Pids /\ targets' \subseteq Targets
    BY DEF TypeOK, Next, vars, form, Appears, Vanishes, Construct, Load, MayComeUp,
       User, Select, ScanClick, Launch, FormClosing, Handler, AutoScanTimer_Tick, Handle, Threads,
       ConnectAnswered, ConnectFails, Approved, Refused, ReadLoopEnds, StrayFails, PollFinds,
       PollTimesOut, Becomes
  <2>2. \A p : \A list \in SUBSET Pids : ConnectToInstance(p, list) => active' # None \/ timer'
    BY <2>1, ConnectTyped
  <2>3. \A t \in Targets : ConnectToNetworkTarget(t) => active' # None
    BY TargetTyped
  <2>4. alive \in SUBSET Pids /\ listed \in SUBSET Pids /\ targets \in SUBSET Targets
    BY DEF TypeOK
  <2>5. CASE UNCHANGED vars
    BY <2>5 DEF vars, form, LooksForOne
  <2>6. CASE \E p \in Pids : Appears(p) \/ Vanishes(p)
    BY <2>6 DEF Appears, Vanishes, form, LooksForOne
  <2>7. CASE Construct
    BY <2>7 DEF Construct
  <2>8. CASE Load
    <3>1. CASE active = None /\ MayComeUp /\ LaunchAndConnect(TRUE)
      <4>1. alive' \in SUBSET Pids
        BY <2>1
      <4> QED
        BY <2>2, <3>1, <4>1 DEF LaunchAndConnect
    <3>2. CASE timer' = (active = None) /\ UNCHANGED <<alive, active, listed, selected>>
      BY <3>2
    <3> QED
      BY <2>8, <3>1, <3>2 DEF Load
  <2>9. CASE User
    <3>1. ASSUME NEW entry \in Pids \cup Targets, Select(entry) PROVE active' # None \/ timer'
      BY <2>2, <2>3, <2>4, <3>1 DEF Select
    <3>2. CASE ScanClick
      <4>1. CASE \E p \in alive : ConnectToInstance(p, alive)
        BY <2>2, <2>4, <4>1
      <4>2. CASE \E t \in targets' : ConnectToNetworkTarget(t)
        BY <2>1, <2>3, <4>2
      <4>3. CASE timer' = (timer \/ active # None) /\ active' = None
        BY <3>2, <4>3 DEF ScanClick, Handler, LooksForOne
      <4> QED
        BY <3>2, <4>1, <4>2, <4>3 DEF ScanClick
    <3>3. CASE Launch
      BY <3>3 DEF Launch, Handler, LooksForOne
    <3>4. CASE FormClosing
      BY <3>4 DEF FormClosing
    <3> QED
      BY <2>9, <3>1, <3>2, <3>3, <3>4 DEF User
  <2>10. CASE AutoScanTimer_Tick
    BY <2>2, <2>3, <2>4, <2>10 DEF AutoScanTimer_Tick
  <2>11. CASE Handle
    <3>1. CASE OnPipeDisconnected
      BY <2>2, <2>4, <3>1 DEF OnPipeDisconnected
    <3>2. CASE Detach
      BY <2>11, <3>2 DEF Detach, Handle, Handler, LooksForOne
    <3>3. CASE SendGetState
      <4>1. active # None => active' # None
        <5>1. CASE Connected
          <6>1. active \in Clients /\ active' \in Clients
            BY <3>3, <5>1 DEF SendGetState, Connected, TypeOK, Clients
          <6> QED
            BY <6>1, PeersAssumption
        <5>2. CASE ~Connected
          BY <3>3, <5>2 DEF SendGetState
        <5> QED
          BY <5>1, <5>2
      <4> QED
        BY <2>11, <3>3, <4>1 DEF SendGetState, Handle, Handler, LooksForOne
    <3>4. CASE LaunchedHandler
      BY <2>2, <2>4, <2>11, <3>4 DEF LaunchedHandler, Handle, Handler, LooksForOne
    <3>5. CASE RescanHandler
      BY <2>11, <3>5 DEF RescanHandler, Handle, Handler, LooksForOne
    <3> QED
      BY <2>11, <3>1, <3>2, <3>3, <3>4, <3>5 DEF Handle
  <2>12. CASE Threads
    <3>1. ASSUME NEW conn \in Connections, active # None, Becomes(conn) PROVE active' # None
      <4>1. active \in Clients /\ active' \in Clients
        BY <3>1 DEF Becomes, TypeOK, Clients
      <4> QED
        BY <4>1, PeersAssumption
    <3>2. CASE ConnectAnswered \/ ConnectFails \/ Approved \/ Refused \/ ReadLoopEnds
      BY <3>1, <3>2 DEF ConnectAnswered, ConnectFails, Approved, Refused, ReadLoopEnds, Connections
    <3>3. CASE StrayFails \/ PollFinds \/ PollTimesOut
      BY <3>3 DEF StrayFails, PollFinds, PollTimesOut, form, LooksForOne
    <3> QED
      BY <2>12, <3>2, <3>3 DEF Threads
  <2> QED
    BY <2>5, <2>6, <2>7, <2>8, <2>9, <2>10, <2>11, <2>12 DEF Next
<1> QED
  BY <1>1, <1>2, TypeCorrect, PTL DEF Spec

-----------------------------------------------------------------------------
Asks(q) == \E i \in DOMAIN q : q[i] = "getState"

LEMMA AppendAsks ==
    ASSUME NEW q \in Seq(Calls), NEW call \in Calls
    PROVE  /\ Asks(q) => Asks(Append(q, call))
           /\ Asks(Append(q, "getState"))
<1>1. ASSUME Asks(q) PROVE Asks(Append(q, call))
  <2>1. PICK i \in DOMAIN q : q[i] = "getState"
    BY <1>1 DEF Asks
  <2>2. i \in DOMAIN Append(q, call) /\ Append(q, call)[i] = "getState"
    BY <2>1
  <2> QED
    BY <2>2 DEF Asks
<1>2. /\ Len(q) + 1 \in DOMAIN Append(q, "getState")
      /\ Append(q, "getState")[Len(q) + 1] = "getState"
  BY DEF Calls
<1> QED
  BY <1>1, <1>2 DEF Asks

LEMMA TailAsks ==
    ASSUME NEW q \in Seq(Calls), q # <<>>, Head(q) # "getState", Asks(q)
    PROVE  Asks(Tail(q))
<1>1. PICK i \in DOMAIN q : q[i] = "getState"
  BY DEF Asks
<1>2. i \in 1 .. Len(q) /\ i # 1
  BY <1>1
<1>3. i - 1 \in DOMAIN Tail(q) /\ Tail(q)[i - 1] = "getState"
  BY <1>1, <1>2
<1> QED
  BY <1>3 DEF Asks

(***************************************************************************)
(* A connection that is up has been asked for its state or will be by a    *)
(* call in the queue, however connections and posted calls follow one      *)
(* another.                                                                *)
(***************************************************************************)
THEOREM EveryConnectionAsked == Spec => []StateAskedFor
<1>1. Init => StateAskedFor
  BY DEF Init, StateAskedFor, Connected
<1>2. TypeOK /\ StateAskedFor /\ [Next]_vars => StateAskedFor'
  <2> SUFFICES ASSUME TypeOK, StateAskedFor, [Next]_vars
               PROVE  Connected' => active'.asked \/ Asks(posted')
    BY DEF StateAskedFor, Asks
  <2>0. Connected => active.asked \/ Asks(posted)
    BY DEF StateAskedFor, Asks
  <2>1. alive' \subseteq Pids /\ targets' \subseteq Targets
    BY DEF TypeOK, Next, vars, form, Appears, Vanishes, Construct, Load, MayComeUp,
       User, Select, ScanClick, Launch, FormClosing, Handler, AutoScanTimer_Tick, Handle, Threads,
       ConnectAnswered, ConnectFails, Approved, Refused, ReadLoopEnds, StrayFails, PollFinds,
       PollTimesOut, Becomes
  <2>2. \A p : \A list \in SUBSET Pids : ConnectToInstance(p, list) => active' = None \/ active'.asked
    BY <2>1, ConnectTyped
  <2>3. \A t \in Targets : ConnectToNetworkTarget(t) => ~Connected'
    BY TargetTyped DEF Connected
  <2>4. alive \in SUBSET Pids /\ listed \in SUBSET Pids /\ targets \in SUBSET Targets
    BY DEF TypeOK
  <2>s. UNCHANGED <<active, posted>> => (Connected' => active'.asked \/ Asks(posted'))
    BY <2>0 DEF Connected, Asks
  <2>n. active' = None => ~Connected'
    BY DEF Connected
  <2>5. CASE UNCHANGED vars
    BY <2>5, <2>s DEF vars, form
  <2>6. CASE \E p \in Pids : Appears(p) \/ Vanishes(p)
    BY <2>6, <2>s DEF Appears, Vanishes, form
  <2>l. \A timerThen : LaunchAndConnect(timerThen) /\ UNCHANGED posted
                          => (Connected' => active'.asked \/ Asks(posted'))
    <3>1. alive' \in SUBSET Pids
      BY <2>1
    <3> QED
      BY <2>2, <2>n, <2>s, <3>1 DEF LaunchAndConnect
  <2>7. CASE Construct
    BY <2>2, <2>3, <2>4, <2>7, <2>l, <2>n, <2>s DEF Construct
  <2>8. CASE Load
    BY <2>8, <2>l, <2>s DEF Load
  <2>9. CASE User
    <3>1. ASSUME NEW entry \in Pids \cup Targets, Select(entry)
          PROVE  Connected' => active'.asked \/ Asks(posted')
      BY <2>2, <2>3, <2>4, <2>n, <3>1 DEF Select
    <3>2. CASE ScanClick
      BY <2>1, <2>2, <2>3, <2>4, <2>n, <3>2 DEF ScanClick
    <3>3. CASE Launch
      BY <2>s, <3>3 DEF Launch
    <3>4. CASE FormClosing
      BY <2>n, <3>4 DEF FormClosing, Detach
    <3> QED
      BY <2>9, <3>1, <3>2, <3>3, <3>4 DEF User
  <2>10. CASE AutoScanTimer_Tick
    BY <2>2, <2>3, <2>4, <2>10, <2>n, <2>s DEF AutoScanTimer_Tick
  <2>11. CASE Handle
    <3>0. Head(posted) # "getState" /\ UNCHANGED active => (Connected' => active'.asked \/ Asks(posted'))
      BY <2>0, <2>11, TailAsks DEF Handle, TypeOK, Connected
    <3>1. CASE OnPipeDisconnected
      BY <2>2, <2>4, <2>n, <3>1 DEF OnPipeDisconnected
    <3>2. CASE Detach
      BY <2>n, <3>2 DEF Detach
    <3>3. CASE SendGetState
      <4>1. CASE Connected
        <5>1. active \in Clients
          BY <4>1 DEF TypeOK, Connected
        <5> QED
          BY <3>3, <4>1, <5>1 DEF SendGetState, Clients
      <4>2. CASE ~Connected
        BY <3>3, <4>2 DEF SendGetState, Connected
      <4> QED
        BY <4>1, <4>2
    <3>4. CASE Head(posted) = "launched" /\ LaunchedHandler
      BY <2>2, <2>4, <2>n, <3>0, <3>4 DEF LaunchedHandler
    <3>5. CASE Head(posted) = "rescan" /\ RescanHandler
      BY <3>0, <3>5 DEF RescanHandler
    <3> QED
      BY <2>11, <3>1, <3>2, <3>3, <3>4, <3>5 DEF Handle
  <2>12. CASE Threads
    <3>0. \A call \in Calls : BeginInvoke(call) /\ UNCHANGED active => (Connected' => active'.asked \/ Asks(posted'))
      BY <2>0, AppendAsks DEF BeginInvoke, TypeOK, Connected
    <3>1. ASSUME NEW conn \in Connections \ {"open"}, active # None, Becomes(conn) PROVE ~Connected'
      BY <3>1 DEF Becomes, TypeOK, Clients, Connected
    <3>2. CASE ConnectAnswered \/ ConnectFails \/ Refused \/ ReadLoopEnds
      BY <3>1, <3>2 DEF ConnectAnswered, ConnectFails, Refused, ReadLoopEnds, Connections
    <3>3. CASE Approved
      <4>1. posted \in Seq(Calls) /\ "getState" \in Calls /\ posted' = Append(posted, "getState")
        BY <3>3 DEF Approved, BeginInvoke, TypeOK, Calls
      <4> QED
        BY <4>1, AppendAsks
    <3>4. CASE StrayFails \/ PollFinds \/ PollTimesOut
      BY <3>0, <3>4 DEF StrayFails, PollFinds, PollTimesOut, form, Calls
    <3> QED
      BY <2>12, <3>2, <3>3, <3>4 DEF Threads
  <2> QED
    BY <2>5, <2>6, <2>7, <2>8, <2>9, <2>10, <2>11, <2>12 DEF Next
<1> QED
  BY <1>1, <1>2, TypeCorrect, PTL DEF Spec

-----------------------------------------------------------------------------
(***************************************************************************)
(* PipeConnection.                                                         *)
(***************************************************************************)
\* Units a + 1 to b of message i.
Piece(i, a, b) == [k \in 1 .. b - a |-> <<i, a + k>>]

\* The number of the first message in the pipe to the visualizer, and how much of it is taken.
First == Len(commands) - Len(toVis) + 1
Off == IF toVis = <<>> THEN 0 ELSE commands[First] - Len(toVis[1])

\* The handler has absorbed n units of message i, and is done with those before it.
Absorbed(i, n) ==
    /\ IF overlong THEN assembled = <<>> /\ n > 0 /\ commands[i] > Cap
                   ELSE assembled = Piece(i, 0, n) /\ n <= Cap
    /\ \A k \in DOMAIN delivered : Number(delivered[k]) < i
    /\ \A j \in Sent : j < i => Among(delivered, j)

\* The message a completed read is of, and where in it the read began.
ReadOf == IF read.more THEN First ELSE First - 1
ReadTo == IF read.more THEN Off ELSE commands[First - 1]
ReadFrom == ReadTo - Len(read.units)

VisPipe ==
    /\ Len(toVis) <= Len(commands)
    /\ toVis # <<>> => /\ Off \in 0 .. commands[First] - 1
                       /\ toVis[1] = Piece(First, Off, commands[First])
    /\ \A j \in 2 .. Len(toVis) : toVis[j] = Text(First + j - 1, commands[First + j - 1])

ReadInv ==
    IF read.is = "done"
      THEN /\ IF read.more THEN toVis # <<>> ELSE Off = 0 /\ First > 1
           /\ ReadFrom \in 0 .. ReadTo - 1 /\ read.units = Piece(ReadOf, ReadFrom, ReadTo)
           /\ Absorbed(ReadOf, ReadFrom)
      ELSE Absorbed(First, Off)

CommandsInv == CommandsInOrder /\ (pc # "gone" => VisPipe /\ ReadInv)

\* What is queued and not yet written.
Unwritten == IF pc = "write" THEN Tail(outQueue) ELSE outQueue

UnwrittenInv ==
    /\ pc = "write" => outQueue # <<>>
    /\ \A k \in DOMAIN Unwritten : Unwritten[k] \in Taken
    /\ \A k, l \in DOMAIN Unwritten : k < l => Unwritten[k] < Unwritten[l]

RemotePipe ==
    /\ IF toRemote = <<>> THEN pending = <<>> ELSE
         LET i == Number(toRemote[1])
         IN /\ Len(pending) < news[i].size /\ pending = Piece(i, 0, Len(pending))
            /\ toRemote[1] = Piece(i, Len(pending), news[i].size)
    /\ \A j \in DOMAIN toRemote : Number(toRemote[j]) \in Taken
    /\ \A j \in 2 .. Len(toRemote) :
         toRemote[j] = Text(Number(toRemote[j]), news[Number(toRemote[j])].size)

\* What the Remote has comes before what is in the pipe, and that before what is queued.
NewsOrder ==
    /\ \A j, k \in DOMAIN toRemote : j < k => Number(toRemote[j]) < Number(toRemote[k])
    /\ \A j \in DOMAIN toRemote, k \in DOMAIN Unwritten : Number(toRemote[j]) < Unwritten[k]
    /\ \A k \in DOMAIN received, j \in DOMAIN toRemote : Number(received[k]) < Number(toRemote[j])
    /\ \A k \in DOMAIN received, l \in DOMAIN Unwritten : Number(received[k]) < Unwritten[l]

\* Message i comes after everything that was got, written or queued.
Later(i) ==
    /\ \A k \in DOMAIN received : Number(received[k]) < i
    /\ \A j \in DOMAIN toRemote : Number(toRemote[j]) < i
    /\ \A k \in DOMAIN Unwritten : Unwritten[k] < i

NoneSkipped ==
    \A i \in Taken : \/ Among(received, i) \/ Among(toRemote, i)
                     \/ \E k \in DOMAIN Unwritten : Unwritten[k] = i
                     \/ shutdown /\ Later(i)

NewsInv ==
    /\ NewsInOrder /\ UnwrittenInv
    /\ pc = "gone" \/ remote = "closed" => toRemote = <<>>
    /\ pc # "gone" => RemotePipe /\ NewsOrder /\ (remote # "closed" => NoneSkipped)

\* The shapes of the data.
Unit == (Nat \ {0}) \X (Nat \ {0})

PipeData ==
    /\ PipeTypeOK
    /\ commands \in Seq(Nat \ {0})
    /\ news \in Seq([size : NewsSizes, force : BOOLEAN, sent : BOOLEAN])
    /\ read \in [is : {"none", "pending", "done"}, units : Seq(Unit), more : BOOLEAN]
    /\ toVis \in Seq(Seq(Unit)) /\ delivered \in Seq(Seq(Unit)) /\ assembled \in Seq(Unit)
    /\ toRemote \in Seq(Seq(Unit)) /\ received \in Seq(Seq(Unit)) /\ pending \in Seq(Unit)
    /\ outQueue \in Seq(Nat \ {0})

-----------------------------------------------------------------------------
(***************************************************************************)
(* Pieces of messages.                                                     *)
(***************************************************************************)
LEMMA PieceIs ==
    ASSUME NEW i \in Nat \ {0}, NEW a \in Nat, NEW b \in Nat, a <= b
    PROVE  Piece(i, a, b) \in Seq(Unit) /\ Len(Piece(i, a, b)) = b - a
<1>1. \A k \in 1 .. b - a : <<i, a + k>> \in Unit
    BY DEF Unit
<1>. QED BY <1>1, IsASeq DEF Piece

LEMMA PieceAt ==
    ASSUME NEW i \in Nat \ {0}, NEW a \in Nat, NEW b \in Nat, a <= b, NEW k \in 1 .. b - a
    PROVE  Piece(i, a, b)[k] = <<i, a + k>>
BY DEF Piece

LEMMA StartIs ==
    ASSUME NEW i \in Nat \ {0}, NEW b \in Nat
    PROVE  Piece(i, 0, b) \in Seq(Unit) /\ Len(Piece(i, 0, b)) = b
<1>1. 0 \in Nat /\ 0 <= b /\ b - 0 = b
    OBVIOUS
<1>. QED BY <1>1, PieceIs

LEMMA TextIsPiece ==
    ASSUME NEW i \in Nat \ {0}, NEW z \in Nat
    PROVE  Text(i, z) = Piece(i, 0, z)
<1>1. \A k \in 1 .. z : <<i, k>> = <<i, 0 + k>>
    OBVIOUS
<1>. QED BY <1>1 DEF Text, Piece

LEMMA PieceNumber ==
    ASSUME NEW i \in Nat \ {0}, NEW a \in Nat, NEW b \in Nat, a < b
    PROVE  Number(Piece(i, a, b)) = i /\ Piece(i, a, b) # <<>>
<1>1. Piece(i, a, b)[1] = <<i, a + 1>>
    BY PieceAt
<1>2. Len(Piece(i, a, b)) = b - a
    BY PieceIs
<1>. QED BY <1>1, <1>2 DEF Number

LEMMA PieceJoins ==
    ASSUME NEW i \in Nat \ {0}, NEW a \in Nat, NEW b \in Nat, NEW c \in Nat, a <= b, b <= c
    PROVE  Piece(i, a, b) \o Piece(i, b, c) = Piece(i, a, c)
<1>1. PICK p : p = Piece(i, a, b)
    OBVIOUS
<1>2. PICK q : q = Piece(i, b, c)
    OBVIOUS
<1>3. PICK r : r = Piece(i, a, c)
    OBVIOUS
<1>4. p \in Seq(Unit) /\ Len(p) = b - a
    BY <1>1, PieceIs
<1>5. q \in Seq(Unit) /\ Len(q) = c - b
    BY <1>2, PieceIs
<1>0. a <= c
    OBVIOUS
<1>6. r \in Seq(Unit) /\ Len(r) = c - a
    BY <1>0, <1>3, PieceIs
<1>7. /\ p \o q \in Seq(Unit) /\ Len(p \o q) = Len(p) + Len(q)
      /\ \A k \in 1 .. Len(p) + Len(q) :
           (p \o q)[k] = IF k <= Len(p) THEN p[k] ELSE q[k - Len(p)]
    BY <1>4, <1>5, ConcatProperties
<1>8. ASSUME NEW k \in 1 .. c - a PROVE (p \o q)[k] = r[k]
    <2>0. k <= b - a \/ k > b - a
        OBVIOUS
    <2>1. r[k] = <<i, a + k>>
        BY <1>0, <1>3, PieceAt
    <2>2. CASE k <= b - a
        <3>1. PICK j \in 1 .. b - a : j = k
            BY <2>2
        <3>2. p[j] = <<i, a + j>>
            BY <1>1, PieceAt
        <3>. QED BY <1>4, <1>5, <1>7, <2>1, <2>2, <3>1, <3>2
    <2>3. CASE k > b - a
        <3>1. PICK j \in 1 .. c - b : j = k - (b - a)
            BY <2>3
        <3>2. q[j] = <<i, b + j>>
            BY <1>2, PieceAt
        <3>. QED BY <1>4, <1>5, <1>7, <2>1, <2>3, <3>1, <3>2
    <2>. QED BY <2>0, <2>2, <2>3
<1>9. Len(p \o q) = Len(r)
    BY <1>4, <1>5, <1>6, <1>7
<1>. QED BY <1>1, <1>2, <1>3, <1>6, <1>7, <1>8, <1>9, SeqEqual

\* The first n units of piece p, and the rest of it, are pieces.
CutAt(i, a, b, p, n) ==
    \E m \in Nat : /\ m = a + n /\ m <= b
                   /\ SubSeq(p, 1, n) = Piece(i, a, m)
                   /\ SubSeq(p, n + 1, Len(p)) = Piece(i, m, b)

LEMMA PieceCut ==
    ASSUME NEW i \in Nat \ {0}, NEW a \in Nat, NEW b \in Nat, a <= b,
           NEW p, p = Piece(i, a, b), NEW n \in Nat, n <= Len(p)
    PROVE  CutAt(i, a, b, p, n)
<1>1. p \in Seq(Unit) /\ Len(p) = b - a
    BY PieceIs
<1>2. PICK m \in Nat : m = a + n
    OBVIOUS
<1>0. a <= m /\ m <= b
    BY <1>1, <1>2
<1>3. ASSUME NEW k \in 1 .. b - a PROVE p[k] = <<i, a + k>> /\ p[k] \in Unit
    BY <1>1, PieceAt, ElementOfSeq
<1>4. SubSeq(p, 1, n) = Piece(i, a, m)
    <2>1. PICK x : x = SubSeq(p, 1, n)
        OBVIOUS
    <2>2. n = m - a
        BY <1>2
    <2>3. \A k \in 1 .. n : p[k] \in Unit
        BY <1>1, <1>3
    <2>4. /\ x \in Seq(Unit) /\ Len(x) = IF 1 <= n THEN n - 1 + 1 ELSE 0
          /\ \A k \in 1 .. n - 1 + 1 : x[k] = p[1 + k - 1]
        BY <2>1, <2>2, <2>3, SubSeqProperties
    <2>5. Piece(i, a, m) \in Seq(Unit) /\ Len(Piece(i, a, m)) = m - a
        BY <1>0, PieceIs
    <2>6. ASSUME NEW k \in 1 .. m - a PROVE x[k] = Piece(i, a, m)[k]
        <3>1. Piece(i, a, m)[k] = <<i, a + k>>
            BY <1>0, PieceAt
        <3>2. x[k] = p[k] /\ k \in 1 .. b - a
            BY <1>0, <2>2, <2>4
        <3>. QED BY <1>3, <3>1, <3>2
    <2>7. Len(x) = Len(Piece(i, a, m))
        BY <2>2, <2>4, <2>5
    <2>. QED BY <2>1, <2>4, <2>5, <2>6, <2>7, SeqEqual
<1>5. SubSeq(p, n + 1, Len(p)) = Piece(i, m, b)
    <2>1. PICK y : y = SubSeq(p, n + 1, Len(p))
        OBVIOUS
    <2>2. PICK l \in Nat, z \in Nat : l = n + 1 /\ z = Len(p)
        BY <1>1
    <2>3. \A k \in l .. z : p[k] \in Unit
        BY <1>1, <1>3, <2>2
    <2>4. /\ y \in Seq(Unit) /\ Len(y) = IF l <= z THEN z - l + 1 ELSE 0
          /\ \A k \in 1 .. z - l + 1 : y[k] = p[l + k - 1]
        BY <2>1, <2>2, <2>3, SubSeqProperties
    <2>5. Piece(i, m, b) \in Seq(Unit) /\ Len(Piece(i, m, b)) = b - m
        BY <1>0, PieceIs
    <2>6. ASSUME NEW k \in 1 .. b - m PROVE y[k] = Piece(i, m, b)[k]
        <3>1. Piece(i, m, b)[k] = <<i, m + k>>
            BY <1>0, PieceAt
        <3>2. PICK j \in 1 .. b - a : j = n + k
            BY <1>0, <1>2
        <3>3. y[k] = p[j]
            BY <1>1, <2>2, <2>4, <3>2
        <3>4. a + j = m + k
            BY <1>2, <3>2
        <3>. QED BY <1>3, <3>1, <3>3, <3>4
    <2>7. Len(y) = Len(Piece(i, m, b))
        BY <1>0, <1>1, <1>2, <2>2, <2>4, <2>5
    <2>. QED BY <2>1, <2>4, <2>5, <2>6, <2>7, SeqEqual
<1>. QED BY <1>0, <1>2, <1>4, <1>5 DEF CutAt

(***************************************************************************)
(* A read of a pipe.                                                       *)
(***************************************************************************)
Pipes == Seq(Seq(Unit))

LEMMA RestOfPipe ==
    ASSUME NEW p \in Pipes, p # <<>>, NEW n \in Nat \ {0}
    PROVE  /\ Len(p) \in Nat \ {0} /\ Chunk(p, n) \in Seq(Unit) /\ Rest(p, n) \in Pipes
           /\ Len(Chunk(p, n)) <= n
           /\ Len(Rest(p, n)) = IF More(p, n) THEN Len(p) ELSE Len(p) - 1
           /\ More(p, n) => /\ Rest(p, n)[1] = SubSeq(p[1], n + 1, Len(p[1]))
                            /\ \A j \in 2 .. Len(p) : Rest(p, n)[j] = p[j]
           /\ ~More(p, n) => \A j \in 1 .. Len(p) - 1 : Rest(p, n)[j] = p[j + 1]
<1>1. /\ Len(p) \in Nat \ {0} /\ p[1] \in Seq(Unit) /\ Head(p) = p[1] /\ Tail(p) \in Pipes
      /\ Len(Tail(p)) = Len(p) - 1 /\ \A j \in 1 .. Len(p) - 1 : Tail(p)[j] = p[j + 1]
    BY HeadTailProperties, EmptySeq, ElementOfSeq DEF Pipes
<1>2. CASE More(p, n)
    <2> DEFINE m == Len(p[1])
               x == SubSeq(p[1], 1, n)
               y == SubSeq(p[1], n + 1, m)
    <2>1. m \in Nat /\ m > n /\ \A k \in 1 .. m : p[1][k] \in Unit
        BY <1>1, <1>2, LenProperties, ElementOfSeq DEF More
    <2>2. x \in Seq(Unit) /\ Len(x) = n
        <3>1. \A k \in 1 .. n : p[1][k] \in Unit
            BY <2>1
        <3>. QED BY <3>1, SubSeqProperties
    <2>3. y \in Seq(Unit)
        <3>1. \A k \in n + 1 .. m : p[1][k] \in Unit
            BY <2>1
        <3>. QED BY <2>1, <3>1, SubSeqProperties
    <2>4. Chunk(p, n) = x /\ Rest(p, n) = <<y>> \o Tail(p)
        BY <1>1, <1>2 DEF Chunk, Rest
    <2>. HIDE DEF x, y, m
    <2>5. <<y>> \in Pipes /\ Len(<<y>>) = 1 /\ <<y>>[1] = y
        BY <2>3 DEF Pipes
    <2>6. /\ <<y>> \o Tail(p) \in Pipes /\ Len(<<y>> \o Tail(p)) = 1 + (Len(p) - 1)
          /\ \A j \in 1 .. 1 + (Len(p) - 1) :
               (<<y>> \o Tail(p))[j] = IF j <= 1 THEN <<y>>[j] ELSE Tail(p)[j - 1]
        BY <1>1, <2>5, ConcatProperties DEF Pipes
    <2>7. (<<y>> \o Tail(p))[1] = y
        BY <1>1, <2>5, <2>6
    <2>8. ASSUME NEW j \in 2 .. Len(p) PROVE (<<y>> \o Tail(p))[j] = p[j]
        <3>1. j - 1 \in 1 .. Len(p) - 1 /\ (j - 1) + 1 = j
            BY <1>1
        <3>. QED BY <1>1, <2>6, <3>1
    <2>. QED BY <1>1, <1>2, <2>2, <2>4, <2>6, <2>7, <2>8 DEF y, m
<1>3. CASE ~More(p, n)
    <2>1. Chunk(p, n) = p[1] /\ Rest(p, n) = Tail(p)
        BY <1>1, <1>3 DEF Chunk, Rest
    <2>2. Len(p[1]) <= n
        BY <1>1, <1>3, LenProperties DEF More
    <2>. QED BY <1>1, <1>3, <2>1, <2>2
<1>. QED BY <1>2, <1>3

\* A read of a pipe whose first message is a piece of message i gets the next piece of it.
GetsPiece(p, n, i, s, z) ==
    /\ More(p, n) => \E m \in Nat : /\ s < m /\ m < z
                                    /\ Chunk(p, n) = Piece(i, s, m)
                                    /\ Rest(p, n)[1] = Piece(i, m, z)
    /\ ~More(p, n) => Chunk(p, n) = Piece(i, s, z)

LEMMA ReadsPiece ==
    ASSUME NEW p \in Pipes, p # <<>>, NEW n \in Nat \ {0},
           NEW i \in Nat \ {0}, NEW s \in Nat, NEW z \in Nat, s < z, p[1] = Piece(i, s, z)
    PROVE  GetsPiece(p, n, i, s, z)
<1>1. PICK q : q = p[1]
    OBVIOUS
<1>0. Head(p) = p[1] /\ s <= z
    BY DEF Pipes
<1>2. Head(p) = q /\ q = Piece(i, s, z) /\ Len(q) = z - s
    BY <1>0, <1>1, PieceIs
<1>3. CASE More(p, n)
    <2>1. Len(q) > n /\ n <= Len(q) /\ n \in Nat /\ s <= z
        BY <1>2, <1>3 DEF More
    <2>2. CutAt(i, s, z, q, n)
        BY <1>2, <2>1, PieceCut
    <2>3. PICK m \in Nat : /\ m = s + n /\ m <= z
                           /\ SubSeq(q, 1, n) = Piece(i, s, m)
                           /\ SubSeq(q, n + 1, Len(q)) = Piece(i, m, z)
        BY <2>2 DEF CutAt
    <2>4. Rest(p, n)[1] = SubSeq(q, n + 1, Len(q))
        BY <1>1, <1>3, RestOfPipe
    <2>5. Chunk(p, n) = SubSeq(q, 1, n)
        BY <1>2, <1>3 DEF Chunk
    <2>6. m < z /\ s < m
        BY <1>2, <2>1, <2>3
    <2>. QED BY <1>3, <2>3, <2>4, <2>5, <2>6 DEF GetsPiece
<1>4. CASE ~More(p, n)
    BY <1>2, <1>4 DEF Chunk, GetsPiece
<1>. QED BY <1>3, <1>4

(***************************************************************************)
(* Messages that were got in order, one more of them, and one more due.    *)
(***************************************************************************)
LEMMA NumberDue ==
    ASSUME NEW got, NEW due \in SUBSET (Nat \ {0}), NEW sizes, InOrder(got, due, sizes),
           \A i \in due : sizes[i] \in Nat \ {0},
           NEW k \in DOMAIN got
    PROVE  Number(got[k]) \in due /\ Number(got[k]) \in Nat
<1>1. PICK i \in due : got[k] = Text(i, sizes[i])
    BY DEF InOrder
<1>2. 0 < sizes[i] /\ sizes[i] \in Nat /\ i \in Nat \ {0}
    OBVIOUS
<1>3. Number(got[k]) = i
    BY <1>1, <1>2, TextIsPiece, PieceNumber
<1>. QED BY <1>2, <1>3

Adds(new, got, i) ==
    /\ \A k \in DOMAIN new : Number(new[k]) <= i
    /\ \A j : Among(new, j) <=> Among(got, j) \/ j = i

LEMMA OneMoreGot ==
    ASSUME NEW got \in Pipes, NEW due \in SUBSET (Nat \ {0}), NEW sizes, InOrder(got, due, sizes),
           \A j \in due : sizes[j] \in Nat \ {0},
           NEW i \in due, \A k \in DOMAIN got : Number(got[k]) < i,
           \A j \in due : j < i => Among(got, j),
           NEW new, new = Append(got, Text(i, sizes[i]))
    PROVE  InOrder(new, due, sizes) /\ new \in Pipes /\ Adds(new, got, i)
<1>1. PICK t : t = Text(i, sizes[i])
    OBVIOUS
<1>2. t \in Seq(Unit) /\ Number(t) = i /\ i \in Nat
    <2>1. sizes[i] \in Nat /\ 0 < sizes[i] /\ i \in Nat \ {0}
        OBVIOUS
    <2>2. t = Piece(i, 0, sizes[i])
        BY <1>1, <2>1, TextIsPiece
    <2>4. Piece(i, 0, sizes[i]) \in Seq(Unit)
        BY <2>1, StartIs
    <2>. QED BY <2>1, <2>2, <2>4, PieceNumber
<1>3. /\ new \in Pipes /\ Len(new) = Len(got) + 1 /\ Len(got) \in Nat
      /\ DOMAIN new = 1 .. Len(got) + 1 /\ DOMAIN got = 1 .. Len(got)
      /\ \A k \in 1 .. Len(got) : new[k] = got[k]
      /\ new[Len(got) + 1] = t
    BY <1>1, <1>2, AppendProperties, LenProperties DEF Pipes
<1>4. \A k \in DOMAIN new : (k \in DOMAIN got /\ new[k] = got[k]) \/ (k = Len(got) + 1 /\ new[k] = t)
    BY <1>3
<1>5. \A k \in DOMAIN got : k \in DOMAIN new /\ new[k] = got[k] /\ k < Len(got) + 1
    BY <1>3
<1>6. \A k \in DOMAIN got : Number(got[k]) \in Nat /\ Number(got[k]) < i
    BY NumberDue
<1>7. \A j : Among(new, j) <=> Among(got, j) \/ j = i
    BY <1>2, <1>3, <1>4, <1>5 DEF Among
<1>8. \A k \in DOMAIN new : Number(new[k]) <= i
    BY <1>2, <1>4, <1>6
<1>9. \A k \in DOMAIN new : \E j \in due : new[k] = Text(j, sizes[j])
    BY <1>1, <1>4 DEF InOrder
<1>10. ASSUME NEW k \in DOMAIN new, NEW l \in DOMAIN new, k < l
       PROVE  Number(new[k]) < Number(new[l])
    <2>1. k \in DOMAIN got
        BY <1>3, <1>10
    <2>2. CASE l \in DOMAIN got
        BY <1>5, <1>10, <2>1, <2>2 DEF InOrder
    <2>3. CASE new[l] = t
        BY <1>2, <1>5, <1>6, <2>1, <2>3
    <2>. QED BY <1>4, <2>2, <2>3
<1>11. ASSUME NEW k \in DOMAIN new, NEW j \in due, j < Number(new[k]) PROVE Among(new, j)
    <2>1. CASE k \in DOMAIN got
        BY <1>5, <1>7, <1>11, <2>1 DEF InOrder
    <2>2. CASE new[k] = t
        BY <1>2, <1>7, <1>11, <2>2
    <2>. QED BY <1>4, <2>1, <2>2
<1>. QED BY <1>3, <1>7, <1>8, <1>9, <1>10, <1>11 DEF InOrder, Adds

LEMMA MoreDue ==
    ASSUME NEW got, NEW due \in SUBSET (Nat \ {0}), NEW sizes, InOrder(got, due, sizes),
           \A j \in due : sizes[j] \in Nat \ {0},
           NEW due2, NEW sizes2, due \subseteq due2, \A j \in due : sizes2[j] = sizes[j],
           \A j \in due2 : j \notin due => \A k \in due : k < j,
           due2 \in SUBSET Nat
    PROVE  InOrder(got, due2, sizes2)
<1>1. \A k \in DOMAIN got : Number(got[k]) \in due /\ Number(got[k]) \in Nat
    BY NumberDue
<1>2. \A k \in DOMAIN got : \E j \in due2 : got[k] = Text(j, sizes2[j])
    <2>. SUFFICES ASSUME NEW k \in DOMAIN got PROVE \E j \in due2 : got[k] = Text(j, sizes2[j])
        OBVIOUS
    <2>1. PICK j \in due : got[k] = Text(j, sizes[j])
        BY DEF InOrder
    <2>. QED BY <2>1
<1>3. ASSUME NEW k \in DOMAIN got, NEW j \in due2, j < Number(got[k]) PROVE Among(got, j)
    <2>1. j \in due
        BY <1>1, <1>3
    <2>. QED BY <1>3, <2>1 DEF InOrder
<1>. QED BY <1>2, <1>3 DEF InOrder

-----------------------------------------------------------------------------
(***************************************************************************)
(* Commands.                                                               *)
(***************************************************************************)
LEMMA SentDue ==
    ASSUME PipeData
    PROVE  /\ Sent \in SUBSET (Nat \ {0}) /\ \A i \in Sent : commands[i] \in Nat \ {0}
           /\ Len(commands) \in Nat /\ DOMAIN commands = 1 .. Len(commands)
           /\ \A i \in 1 .. Len(commands) : commands[i] \in Nat \ {0}
BY LenProperties, ElementOfSeq DEF PipeData, Sent

LEMMA EmptyPiece ==
    ASSUME NEW i \in Nat \ {0} PROVE Piece(i, 0, 0) = <<>>
<1>1. Piece(i, 0, 0) \in Seq(Unit) /\ Len(Piece(i, 0, 0)) = 0
    BY StartIs
<1>. QED BY <1>1, EmptySeq

\* What absorb leaves of a message of which m units are taken now.
AbsorbedTo(i, m) ==
    IF m < commands[i] THEN Absorbed(i, m)'
                       ELSE \A j \in Nat : j = i + 1 => Absorbed(j, 0)'

LEMMA AbsorbKeeps ==
    ASSUME PipeData, CommandsInOrder, UNCHANGED commands,
           NEW i \in 1 .. Len(commands), NEW n \in Nat, NEW m \in Nat, n < m, m <= commands[i],
           Absorbed(i, n), NEW units, units = Piece(i, n, m),
           NEW more \in BOOLEAN, more <=> m < commands[i], Absorb(units, more)
    PROVE  /\ CommandsInOrder' /\ AbsorbedTo(i, m)
           /\ delivered' \in Seq(Seq(Unit)) /\ assembled' \in Seq(Unit)
           /\ overlong' \in BOOLEAN /\ Len(assembled') <= Cap
<1>0. /\ Cap \in Nat /\ i \in Nat \ {0} /\ n <= m /\ 0 <= n /\ 0 <= m
      /\ commands[i] \in Nat \ {0} /\ overlong \in BOOLEAN
      /\ delivered \in Pipes /\ assembled \in Seq(Unit)
    <2>1. Cap \in Nat
        BY BufAssumption
    <2>2. overlong \in BOOLEAN
        BY DEF PipeData, PipeTypeOK
    <2>3. delivered \in Pipes /\ assembled \in Seq(Unit)
        BY DEF PipeData, Pipes
    <2>4. Len(commands) \in Nat /\ commands[i] \in Nat \ {0}
        BY SentDue
    <2>. QED BY <2>1, <2>2, <2>3, <2>4
<1>1. units \in Seq(Unit) /\ Len(units) = m - n
    BY <1>0, PieceIs
<1>2. ~overlong => /\ assembled = Piece(i, 0, n) /\ Len(assembled) = n
                   /\ assembled \o units = Piece(i, 0, m)
    <2>1. Len(Piece(i, 0, n)) = n
        BY <1>0, StartIs
    <2>2. Piece(i, 0, n) \o Piece(i, n, m) = Piece(i, 0, m)
        BY <1>0, PieceJoins
    <2>. QED BY <2>1, <2>2 DEF Absorbed
<1>3. overlong => commands[i] > Cap
    BY DEF Absorbed
<1>4. Piece(i, 0, m) \in Seq(Unit) /\ Len(Piece(i, 0, m)) = m
    BY <1>0, StartIs
<1>5. PICK over \in BOOLEAN : over <=> overlong \/ Len(assembled) + Len(units) > Cap
    OBVIOUS
<1>6. /\ over => commands[i] > Cap /\ m > 0
      /\ ~over => assembled \o units = Piece(i, 0, m) /\ m <= Cap
    BY <1>0, <1>1, <1>2, <1>3, <1>5
<1>7. PICK whole : whole = IF over THEN <<>> ELSE Piece(i, 0, m)
    OBVIOUS
<1>8. /\ overlong' = (over /\ more) /\ assembled' = IF more THEN whole ELSE <<>>
      /\ delivered' = IF more \/ over THEN delivered ELSE Append(delivered, whole)
    BY <1>5, <1>6, <1>7 DEF Absorb
<1>9. assembled' \in Seq(Unit) /\ Len(assembled') <= Cap /\ overlong' \in BOOLEAN
    BY <1>0, <1>4, <1>6, <1>7, <1>8, EmptySeq
<1>10. /\ CommandsInOrder' /\ delivered' \in Pipes
       /\ more => delivered' = delivered
       /\ ~more => /\ \A k \in DOMAIN delivered' : Number(delivered'[k]) < i + 1
                   /\ \A j \in Sent : j < i + 1 => Among(delivered', j)
    <2>1. Sent' = Sent /\ Sent \in SUBSET (Nat \ {0}) /\ \A j \in Sent : commands[j] \in Nat \ {0}
        BY SentDue DEF Sent
    <2>2. InOrder(delivered, Sent, commands)
        BY DEF CommandsInOrder
    <2>3. /\ \A k \in DOMAIN delivered : Number(delivered[k]) < i
          /\ \A j \in Sent : j < i => Among(delivered, j)
        BY DEF Absorbed
    <2>4. \A k \in DOMAIN delivered : Number(delivered[k]) \in Nat
        BY <2>1, <2>2, NumberDue
    <2>5. CASE more \/ over
        <3>1. delivered' = delivered
            BY <1>8, <2>5
        <3>2. ~more => i \notin Sent
            BY <1>0, <1>6, <2>5 DEF Sent
        <3>3. ~more => \A j \in Sent : j < i + 1 => j < i
            BY <1>0, <2>1, <3>2
        <3>. QED BY <1>0, <2>1, <2>2, <2>3, <2>4, <3>1, <3>3 DEF CommandsInOrder
    <2>6. CASE ~more /\ ~over
        <3>1. m = commands[i] /\ i \in Sent
            BY <1>0, <1>6, <2>6, SentDue DEF Sent
        <3>2. whole = Text(i, commands[i])
            BY <1>0, <1>7, <2>6, <3>1, TextIsPiece
        <3>3. delivered' = Append(delivered, Text(i, commands[i]))
            BY <1>8, <2>6, <3>2
        <3>a. /\ InOrder(delivered', Sent, commands) /\ delivered' \in Pipes
              /\ Adds(delivered', delivered, i)
            BY <1>0, <2>1, <2>2, <2>3, <3>1, <3>3, OneMoreGot
        <3>4. /\ InOrder(delivered', Sent, commands) /\ delivered' \in Pipes
              /\ \A k \in DOMAIN delivered' : Number(delivered'[k]) <= i
              /\ \A j : Among(delivered', j) <=> Among(delivered, j) \/ j = i
            BY <3>a DEF Adds
        <3>5. CommandsInOrder'
            BY <2>1, <3>4 DEF CommandsInOrder
        <3>6. \A k \in DOMAIN delivered' : Number(delivered'[k]) < i + 1
            <4>1. \A k \in DOMAIN delivered' : Number(delivered'[k]) \in Nat
                BY <2>1, <3>4, NumberDue
            <4>. QED BY <1>0, <3>4, <4>1
        <3>7. \A j \in Sent : j < i + 1 => Among(delivered', j)
            BY <1>0, <2>1, <2>3, <3>4
        <3>. QED BY <2>6, <3>4, <3>5, <3>6, <3>7
    <2>. QED BY <2>5, <2>6
<1>11. CASE more
    <2>1. Absorbed(i, m)'
        <3>1. delivered' = delivered /\ Sent' = Sent
            BY <1>10, <1>11 DEF Sent
        <3>2. IF overlong' THEN assembled' = <<>> /\ m > 0 /\ commands'[i] > Cap
                           ELSE assembled' = Piece(i, 0, m) /\ m <= Cap
            BY <1>0, <1>6, <1>7, <1>8, <1>11
        <3>. QED BY <3>1, <3>2 DEF Absorbed
    <2>. QED BY <1>9, <1>10, <1>11, <2>1 DEF AbsorbedTo, Pipes
<1>12. CASE ~more
    <2>1. ASSUME NEW j \in Nat, j = i + 1 PROVE Absorbed(j, 0)'
        <3>1. Piece(j, 0, 0) = <<>>
            BY <1>0, <2>1, EmptyPiece
        <3>2. overlong' = FALSE /\ assembled' = <<>>
            BY <1>8, <1>12
        <3>3. Sent' = Sent
            BY DEF Sent
        <3>. QED BY <1>0, <1>10, <1>12, <2>1, <3>1, <3>2, <3>3 DEF Absorbed
    <2>. QED BY <1>9, <1>10, <1>12, <2>1 DEF AbsorbedTo, Pipes
<1>. QED BY <1>11, <1>12

\* The head of the pipe is what is left of message First.
LEMMA VisHead ==
    ASSUME PipeData, VisPipe
    PROVE  /\ Len(toVis) \in Nat /\ Len(toVis) <= Len(commands) /\ First \in Nat \ {0}
           /\ First = Len(commands) - Len(toVis) + 1
           /\ toVis = <<>> => Off = 0 /\ First = Len(commands) + 1
           /\ toVis # <<>> => /\ First \in 1 .. Len(commands) /\ commands[First] \in Nat \ {0}
                              /\ Off \in Nat /\ Off < commands[First]
                              /\ toVis[1] = Piece(First, Off, commands[First])
                              /\ Len(toVis) > 0
<1>1. Len(toVis) \in Nat /\ (toVis # <<>> => Len(toVis) > 0) /\ Len(commands) \in Nat
    BY SentDue, EmptySeq, LenProperties DEF PipeData
<1>2. Len(toVis) <= Len(commands)
    BY DEF VisPipe
<1>3. First \in Nat \ {0} /\ First = Len(commands) - Len(toVis) + 1
    BY <1>1, <1>2 DEF First
<1>4. CASE toVis = <<>>
    <2>1. Len(toVis) = 0
        BY <1>4
    <2>. QED BY <1>1, <1>2, <1>3, <1>4, <2>1 DEF Off
<1>5. CASE toVis # <<>>
    <2>1. First \in 1 .. Len(commands)
        BY <1>1, <1>2, <1>3, <1>5
    <2>2. commands[First] \in Nat \ {0}
        BY <2>1, SentDue
    <2>3. Off \in 0 .. commands[First] - 1 /\ toVis[1] = Piece(First, Off, commands[First])
        BY <1>5 DEF VisPipe
    <2>. QED BY <1>1, <1>2, <1>3, <1>5, <2>1, <2>2, <2>3
<1>. QED BY <1>4, <1>5

\* A read takes the next piece of message First, or the rest of it.
TakesChunk ==
    /\ VisPipe' /\ toVis' \in Pipes
    /\ More(toVis, Buf) =>
         \E m \in Nat : /\ Off < m /\ m < commands[First] /\ Chunk(toVis, Buf) = Piece(First, Off, m)
                        /\ First' = First /\ Off' = m /\ toVis' # <<>>
    /\ ~More(toVis, Buf) => /\ Chunk(toVis, Buf) = Piece(First, Off, commands[First])
                            /\ First' = First + 1 /\ Off' = 0

LEMMA VisTakes ==
    ASSUME PipeData, VisPipe, toVis # <<>>, toVis' = Rest(toVis, Buf), UNCHANGED commands
    PROVE  TakesChunk
<1>1. PICK F \in 1 .. Len(commands), s \in Nat, z \in Nat \ {0} :
        F = First /\ s = Off /\ z = commands[F] /\ s < z /\ toVis[1] = Piece(F, s, z)
    BY VisHead
<1>2. PICK l \in Nat \ {0}, c \in Nat : l = Len(toVis) /\ c = Len(commands) /\ l <= c /\ F = c - l + 1
    <2>1. /\ Len(toVis) \in Nat /\ Len(toVis) <= Len(commands) /\ Len(toVis) > 0
          /\ First = Len(commands) - Len(toVis) + 1
        BY VisHead
    <2>2. Len(commands) \in Nat /\ Len(toVis) \in Nat \ {0}
        BY <2>1, SentDue
    <2>. QED BY <1>1, <2>1, <2>2
<1>3. Buf \in Nat \ {0} /\ toVis \in Pipes /\ F \in Nat \ {0} /\ z \in Nat
    BY BufAssumption DEF PipeData, Pipes
<1>4. /\ toVis' \in Pipes /\ Len(toVis') = IF More(toVis, Buf) THEN l ELSE l - 1
      /\ More(toVis, Buf) => \A j \in 2 .. l : toVis'[j] = toVis[j]
      /\ ~More(toVis, Buf) => \A j \in 1 .. l - 1 : toVis'[j] = toVis[j + 1]
    BY <1>2, <1>3, RestOfPipe
<1>5. GetsPiece(toVis, Buf, F, s, z)
    BY <1>1, <1>3, ReadsPiece
<1>6. \A j \in 2 .. l : toVis[j] = Text(F + j - 1, commands[F + j - 1])
    BY <1>1, <1>2 DEF VisPipe
<1>7. CASE More(toVis, Buf)
    <2>1. PICK m \in Nat : /\ s < m /\ m < z /\ Chunk(toVis, Buf) = Piece(F, s, m)
                           /\ toVis'[1] = Piece(F, m, z)
        BY <1>5, <1>7 DEF GetsPiece
    <2>2. First' = F /\ Len(toVis') = l /\ toVis' # <<>>
        BY <1>2, <1>4, <1>7, EmptySeq DEF First
    <2>3. Off' = m
        <3>1. m <= z
            BY <2>1
        <3>2. Len(Piece(F, m, z)) = z - m
            BY <1>3, <3>1, PieceIs
        <3>. QED BY <1>1, <2>1, <2>2, <3>2 DEF Off
    <2>4. \A j \in 2 .. l : toVis'[j] = Text(F + j - 1, commands[F + j - 1])
        BY <1>4, <1>6, <1>7
    <2>5. VisPipe'
        <3>1. Len(toVis') <= Len(commands')
            BY <1>2, <2>2
        <3>2. Off' \in 0 .. commands'[First'] - 1
            BY <1>1, <2>1, <2>2, <2>3
        <3>3. toVis'[1] = Piece(First', Off', commands'[First'])
            BY <1>1, <2>1, <2>2, <2>3
        <3>4. \A j \in 2 .. Len(toVis') : toVis'[j] = Text(First' + j - 1, commands'[First' + j - 1])
            BY <2>2, <2>4
        <3>. QED BY <3>1, <3>2, <3>3, <3>4 DEF VisPipe
    <2>. QED BY <1>1, <1>4, <1>7, <2>1, <2>2, <2>3, <2>5 DEF TakesChunk
<1>8. CASE ~More(toVis, Buf)
    <2>1. First' = F + 1 /\ Len(toVis') = l - 1
        BY <1>2, <1>4, <1>8 DEF First
    <2>2. \A j \in 1 .. l - 1 : toVis'[j] = Text(F + j, commands[F + j])
        <3>. SUFFICES ASSUME NEW j \in 1 .. l - 1 PROVE toVis'[j] = Text(F + j, commands[F + j])
            OBVIOUS
        <3>1. PICK k \in 2 .. l : k = j + 1 /\ F + k - 1 = F + j
            BY <1>2
        <3>2. toVis'[j] = toVis[k]
            BY <1>4, <1>8, <3>1
        <3>3. toVis[k] = Text(F + k - 1, commands[F + k - 1])
            BY <1>6
        <3>. QED BY <3>1, <3>2, <3>3
    <2>3. toVis' # <<>> => /\ toVis'[1] = Piece(F + 1, 0, commands[F + 1])
                           /\ commands[F + 1] \in Nat \ {0} /\ Off' = 0
        <3>. SUFFICES ASSUME toVis' # <<>>
                      PROVE  /\ toVis'[1] = Piece(F + 1, 0, commands[F + 1])
                             /\ commands[F + 1] \in Nat \ {0} /\ Off' = 0
            OBVIOUS
        <3>1. Len(toVis') > 0
            BY <1>4, EmptySeq DEF Pipes
        <3>2. 1 \in 1 .. l - 1
            BY <1>2, <2>1, <3>1
        <3>a. F + 1 \in 1 .. Len(commands)
            BY <1>2, <3>2
        <3>3. PICK G \in 1 .. Len(commands) : G = F + 1
            BY <3>a
        <3>4. commands[G] \in Nat \ {0} /\ G \in Nat \ {0}
            BY SentDue
        <3>5. toVis'[1] = Text(G, commands[G])
            BY <2>2, <3>2, <3>3
        <3>6. toVis'[1] = Piece(G, 0, commands[G]) /\ Len(toVis'[1]) = commands[G]
            <4>1. commands[G] \in Nat
                BY <3>4
            <4>2. Text(G, commands[G]) = Piece(G, 0, commands[G])
                BY <3>4, <4>1, TextIsPiece
            <4>3. Len(Piece(G, 0, commands[G])) = commands[G]
                BY <3>4, <4>1, StartIs
            <4>. QED BY <3>5, <4>2, <4>3
        <3>7. Off' = 0
            BY <2>1, <3>3, <3>4, <3>6 DEF Off
        <3>. QED BY <3>3, <3>4, <3>6, <3>7
    <2>4. Off' = 0
        BY <2>3 DEF Off
    <2>5. \A j \in 2 .. Len(toVis') : toVis'[j] = Text(First' + j - 1, commands[First' + j - 1])
        <3>. SUFFICES ASSUME NEW j \in 2 .. Len(toVis')
                      PROVE  toVis'[j] = Text(First' + j - 1, commands[First' + j - 1])
            OBVIOUS
        <3>1. j \in 1 .. l - 1 /\ First' + j - 1 = F + j
            BY <1>2, <2>1
        <3>. QED BY <2>2, <3>1
    <2>6. VisPipe'
        BY <1>2, <2>1, <2>3, <2>4, <2>5 DEF VisPipe
    <2>7. Chunk(toVis, Buf) = Piece(F, s, z)
        BY <1>5, <1>8 DEF GetsPiece
    <2>. QED BY <1>1, <1>4, <1>8, <2>1, <2>4, <2>6, <2>7 DEF TakesChunk
<1>. QED BY <1>7, <1>8

\* Steps that touch neither what is read nor what it is put together to, and the end.
LEMMA CommandsQuiet ==
    ASSUME CommandsInv, UNCHANGED <<commands, toVis, readVars>>, pc' # "gone" => pc # "gone"
    PROVE  CommandsInv'
BY DEF CommandsInv, CommandsInOrder, VisPipe, ReadInv, First, Off, Absorbed, ReadOf, ReadTo, ReadFrom,
       Sent, readVars

LEMMA CommandsEnd ==
    ASSUME CommandsInv, UNCHANGED <<commands, delivered>>, pc' = "gone"
    PROVE  CommandsInv'
BY DEF CommandsInv, CommandsInOrder, Sent

\* The invariant while no read is done.
LEMMA NotDone ==
    ASSUME read.is # "done" PROVE ReadInv <=> Absorbed(First, Off)
BY DEF ReadInv

LEMMA ArmReadsKeeps ==
    ASSUME PipeData, CommandsInv, ArmReads
    PROVE  /\ CommandsInv' /\ toVis' \in Pipes
           /\ delivered' \in Seq(Seq(Unit)) /\ assembled' \in Seq(Unit)
           /\ overlong' \in BOOLEAN /\ Len(assembled') <= Cap
<1>1. /\ pc = "arm" /\ read.is = "none" /\ toVis # <<>> /\ toVis' = Rest(toVis, Buf) /\ pc' = "wait"
      /\ Absorb(Chunk(toVis, Buf), More(toVis, Buf)) /\ UNCHANGED <<commands, read>>
    BY DEF ArmReads, remoteVars
<1>2. VisPipe /\ CommandsInOrder /\ Absorbed(First, Off)
    BY <1>1, NotDone DEF CommandsInv
<1>3. TakesChunk
    BY <1>1, <1>2, VisTakes
<1>4. PICK F \in 1 .. Len(commands), s \in Nat, z \in Nat \ {0} :
        F = First /\ s = Off /\ z = commands[F] /\ s < z
    BY <1>1, <1>2, VisHead
<1>5. PICK more \in BOOLEAN : more <=> More(toVis, Buf)
    OBVIOUS
<1>6. PICK units : units = Chunk(toVis, Buf)
    OBVIOUS
<1>7. Absorb(units, more) /\ Absorbed(F, s)
    <2>1. more = More(toVis, Buf)
        BY <1>5 DEF More
    <2>. QED BY <1>1, <1>2, <1>4, <1>6, <2>1
<1>8. CASE more
    <2>1. PICK m \in Nat : /\ s < m /\ m < z /\ units = Piece(F, s, m)
                           /\ First' = First /\ Off' = m /\ toVis' # <<>>
        BY <1>3, <1>4, <1>5, <1>6, <1>8 DEF TakesChunk
    <2>2. /\ CommandsInOrder' /\ AbsorbedTo(F, m)
          /\ delivered' \in Seq(Seq(Unit)) /\ assembled' \in Seq(Unit)
          /\ overlong' \in BOOLEAN /\ Len(assembled') <= Cap
        <3>1. m <= commands[F] /\ (more <=> m < commands[F])
            BY <1>4, <1>8, <2>1
        <3>. QED BY <1>1, <1>2, <1>4, <1>7, <2>1, <3>1, AbsorbKeeps
    <2>3. Absorbed(F, m)'
        BY <1>4, <2>1, <2>2 DEF AbsorbedTo
    <2>4. Absorbed(First, Off)'
        BY <1>4, <2>1, <2>3 DEF Absorbed
    <2>5. ReadInv'
        BY <1>1, <2>4 DEF ReadInv
    <2>. QED BY <1>3, <2>2, <2>5 DEF CommandsInv, TakesChunk
<1>9. CASE ~more
    <2>1. units = Piece(F, s, z) /\ First' = F + 1 /\ Off' = 0
        BY <1>3, <1>4, <1>5, <1>6, <1>9 DEF TakesChunk
    <2>2. /\ CommandsInOrder' /\ AbsorbedTo(F, z)
          /\ delivered' \in Seq(Seq(Unit)) /\ assembled' \in Seq(Unit)
          /\ overlong' \in BOOLEAN /\ Len(assembled') <= Cap
        <3>1. z \in Nat /\ z <= commands[F] /\ (more <=> z < commands[F])
            BY <1>4, <1>9
        <3>. QED BY <1>1, <1>2, <1>4, <1>7, <2>1, <3>1, AbsorbKeeps
    <2>3. PICK G \in Nat : G = F + 1
        BY <1>4
    <2>4. Absorbed(G, 0)'
        BY <1>4, <2>2, <2>3 DEF AbsorbedTo
    <2>5. Absorbed(First, Off)'
        BY <2>1, <2>3, <2>4 DEF Absorbed
    <2>6. ReadInv'
        BY <1>1, <2>5 DEF ReadInv
    <2>. QED BY <1>3, <2>2, <2>6 DEF CommandsInv, TakesChunk
<1>. QED BY <1>8, <1>9

LEMMA ReadCompletesKeeps ==
    ASSUME PipeData, CommandsInv, pc # "gone", ReadCompletes
    PROVE  /\ CommandsInv' /\ toVis' \in Pipes
           /\ read' \in [is : {"none", "pending", "done"}, units : Seq(Unit), more : BOOLEAN]
           /\ Len(read'.units) <= Buf
<1>1. /\ read.is = "pending" /\ toVis # <<>> /\ toVis' = Rest(toVis, Buf) /\ pc' = pc
      /\ read' = [is |-> "done", units |-> Chunk(toVis, Buf), more |-> More(toVis, Buf)]
      /\ UNCHANGED <<commands, assembled, overlong, delivered>>
    BY DEF ReadCompletes, remoteVars
<1>2. VisPipe /\ CommandsInOrder /\ Absorbed(First, Off)
    BY <1>1, NotDone DEF CommandsInv
<1>3. TakesChunk
    BY <1>1, <1>2, VisTakes
<1>4. PICK F \in 1 .. Len(commands), s \in Nat, z \in Nat \ {0} :
        F = First /\ s = Off /\ z = commands[F] /\ s < z
    BY <1>1, <1>2, VisHead
<1>5. read'.is = "done" /\ read'.units = Chunk(toVis, Buf) /\ read'.more = More(toVis, Buf)
    BY <1>1
<1>6. Absorbed(F, s)'
    BY <1>1, <1>2, <1>4 DEF Absorbed, Sent
<1>7. CommandsInOrder'
    BY <1>1, <1>2 DEF CommandsInOrder, Sent
<1>8. ReadInv'
    <2>1. CASE More(toVis, Buf)
        <3>1. PICK m \in Nat : /\ s < m /\ m < z /\ Chunk(toVis, Buf) = Piece(F, s, m)
                               /\ First' = F /\ Off' = m /\ toVis' # <<>>
            BY <1>3, <1>4, <2>1 DEF TakesChunk
        <3>2. Len(Piece(F, s, m)) = m - s
            <4>1. s <= m /\ F \in Nat \ {0}
                BY <1>4, <3>1
            <4>. QED BY <1>4, <4>1, PieceIs
        <3>3. ReadOf' = F /\ ReadTo' = m
            BY <1>5, <2>1, <3>1 DEF ReadOf, ReadTo
        <3>4. ReadFrom' = s
            BY <1>4, <1>5, <3>1, <3>2, <3>3 DEF ReadFrom
        <3>5. Absorbed(ReadOf, ReadFrom)'
            BY <1>6, <3>3, <3>4 DEF Absorbed
        <3>6. ReadFrom' \in 0 .. ReadTo' - 1
            BY <1>4, <3>1, <3>3, <3>4
        <3>. QED BY <1>5, <2>1, <3>1, <3>3, <3>4, <3>5, <3>6 DEF ReadInv
    <2>2. CASE ~More(toVis, Buf)
        <3>1. Chunk(toVis, Buf) = Piece(F, s, z) /\ First' = F + 1 /\ Off' = 0
            BY <1>3, <1>4, <2>2 DEF TakesChunk
        <3>2. Len(Piece(F, s, z)) = z - s
            <4>1. s <= z /\ F \in Nat \ {0} /\ z \in Nat
                BY <1>4
            <4>. QED BY <1>4, <4>1, PieceIs
        <3>3. ReadOf' = F /\ ReadTo' = z
            BY <1>1, <1>4, <1>5, <2>2, <3>1 DEF ReadOf, ReadTo
        <3>4. ReadFrom' = s
            BY <1>4, <1>5, <3>1, <3>2, <3>3 DEF ReadFrom
        <3>5. Absorbed(ReadOf, ReadFrom)'
            BY <1>6, <3>3, <3>4 DEF Absorbed
        <3>6. ReadFrom' \in 0 .. ReadTo' - 1 /\ First' > 1
            BY <1>4, <3>1, <3>3, <3>4
        <3>. QED BY <1>5, <2>2, <3>1, <3>3, <3>4, <3>5, <3>6 DEF ReadInv
    <2>. QED BY <2>1, <2>2
<1>9. /\ Chunk(toVis, Buf) \in Seq(Unit) /\ Len(Chunk(toVis, Buf)) <= Buf
    BY <1>1, BufAssumption, RestOfPipe DEF PipeData, Pipes
<1>10. More(toVis, Buf) \in BOOLEAN
    BY DEF More
<1>. QED BY <1>1, <1>3, <1>5, <1>7, <1>8, <1>9, <1>10 DEF CommandsInv, TakesChunk

LEMMA WaitReturnsKeeps ==
    ASSUME PipeData, CommandsInv, WaitReturns
    PROVE  /\ CommandsInv'
           /\ read' \in [is : {"none", "pending", "done"}, units : Seq(Unit), more : BOOLEAN]
           /\ Len(read'.units) <= Buf
           /\ delivered' \in Seq(Seq(Unit)) /\ assembled' \in Seq(Unit)
           /\ overlong' \in BOOLEAN /\ Len(assembled') <= Cap
<1>1. pc = "wait" /\ pc' = "drain" /\ UNCHANGED <<commands, toVis>>
    BY DEF WaitReturns, remoteVars
<1>2. CASE read.is # "done"
    <2>1. UNCHANGED readVars
        BY <1>2 DEF WaitReturns
    <2>2. CommandsInv'
        BY <1>1, <2>1, CommandsQuiet
    <2>. QED BY <2>1, <2>2 DEF PipeData, PipeTypeOK, readVars
<1>3. CASE read.is = "done"
    <2>1. Absorb(read.units, read.more) /\ read' = NoRead
        BY <1>3 DEF WaitReturns
    <2>2. VisPipe /\ CommandsInOrder /\ ReadInv
        BY <1>1 DEF CommandsInv
    <2>3. /\ IF read.more THEN toVis # <<>> ELSE Off = 0 /\ First > 1
          /\ ReadFrom \in 0 .. ReadTo - 1 /\ read.units = Piece(ReadOf, ReadFrom, ReadTo)
          /\ Absorbed(ReadOf, ReadFrom)
        BY <1>3, <2>2 DEF ReadInv
    <2>4. First' = First /\ Off' = Off
        BY <1>1 DEF First, Off
    <2>5. read.more \in BOOLEAN /\ Len(commands) \in Nat
        BY SentDue DEF PipeData
    <2>6. VisPipe'
        BY <1>1, <2>2, <2>4 DEF VisPipe
    <2>7. read'.is = "none"
        BY <2>1 DEF NoRead
    <2>8. CASE read.more
        <3>1. ReadOf = First /\ ReadTo = Off
            BY <2>8 DEF ReadOf, ReadTo
        <3>2. /\ First \in 1 .. Len(commands) /\ commands[First] \in Nat \ {0}
              /\ Off \in Nat /\ Off < commands[First]
            BY <2>2, <2>3, <2>8, VisHead
        <3>3. PICK i \in 1 .. Len(commands), n \in Nat, m \in Nat :
                i = First /\ n = ReadFrom /\ m = Off /\ n < m
            BY <2>3, <3>1, <3>2
        <3>4. /\ m <= commands[i] /\ (read.more <=> m < commands[i])
              /\ read.units = Piece(i, n, m) /\ Absorbed(i, n)
            BY <2>3, <2>8, <3>1, <3>2, <3>3
        <3>5. /\ CommandsInOrder' /\ AbsorbedTo(i, m)
              /\ delivered' \in Seq(Seq(Unit)) /\ assembled' \in Seq(Unit)
              /\ overlong' \in BOOLEAN /\ Len(assembled') <= Cap
            BY <1>1, <2>1, <2>2, <2>5, <3>3, <3>4, AbsorbKeeps
        <3>6. Absorbed(i, m)'
            BY <2>8, <3>4, <3>5 DEF AbsorbedTo
        <3>7. Absorbed(First, Off)'
            BY <2>4, <3>3, <3>6 DEF Absorbed
        <3>8. ReadInv'
            BY <2>7, <3>7 DEF ReadInv
        <3>9. CommandsInv'
            BY <2>6, <3>5, <3>8 DEF CommandsInv
        <3>. QED BY <2>1, <3>5, <3>9, EmptySeq, BufAssumption DEF NoRead
    <2>9. CASE ~read.more
        <3>1. ReadOf = First - 1 /\ ReadTo = commands[First - 1]
            BY <2>9 DEF ReadOf, ReadTo
        <3>2. /\ First \in Nat \ {0} /\ First <= Len(commands) + 1 /\ First > 1
            BY <2>2, <2>3, <2>5, <2>9, VisHead
        <3>3. PICK i \in 1 .. Len(commands) : i = First - 1
            BY <2>5, <3>2
        <3>4. PICK n \in Nat, m \in Nat : n = ReadFrom /\ m = commands[i] /\ n < m
            <4>1. PICK z \in Nat : z = commands[i]
                BY SentDue
            <4>2. ReadTo = z
                BY <3>1, <3>3, <4>1
            <4>3. ReadFrom \in 0 .. z - 1
                BY <2>3, <4>2
            <4>. QED BY <4>1, <4>3
        <3>5. /\ m <= commands[i] /\ (read.more <=> m < commands[i])
              /\ read.units = Piece(i, n, m) /\ Absorbed(i, n)
            BY <2>3, <2>9, <3>1, <3>3, <3>4
        <3>6. /\ CommandsInOrder' /\ AbsorbedTo(i, m)
              /\ delivered' \in Seq(Seq(Unit)) /\ assembled' \in Seq(Unit)
              /\ overlong' \in BOOLEAN /\ Len(assembled') <= Cap
            BY <1>1, <2>1, <2>2, <2>5, <3>3, <3>4, <3>5, AbsorbKeeps
        <3>7. PICK G \in Nat : G = First /\ G = i + 1
            BY <3>2, <3>3
        <3>8. Absorbed(G, 0)'
            BY <2>9, <3>5, <3>6, <3>7 DEF AbsorbedTo
        <3>9. Absorbed(First, Off)'
            BY <2>3, <2>4, <2>9, <3>7, <3>8 DEF Absorbed
        <3>10. ReadInv'
            BY <2>7, <3>9 DEF ReadInv
        <3>11. CommandsInv'
            BY <2>6, <3>6, <3>10 DEF CommandsInv
        <3>. QED BY <2>1, <3>6, <3>11, EmptySeq, BufAssumption DEF NoRead
    <2>. QED BY <2>5, <2>8, <2>9
<1>. QED BY <1>2, <1>3

LEMMA RemoteSendsKeeps ==
    ASSUME PipeData, CommandsInv, NEW size \in Sizes, RemoteSends(size)
    PROVE  CommandsInv' /\ commands' \in Seq(Nat \ {0}) /\ toVis' \in Seq(Seq(Unit))
<1>1. /\ pc # "gone" /\ pc' = pc /\ UNCHANGED readVars /\ size \in Nat \ {0}
      /\ commands' = Append(commands, size) /\ toVis' = Append(toVis, Text(Len(commands'), size))
    BY SizesAssumption DEF RemoteSends
<1>2. PICK c \in Nat, l \in Nat : c = Len(commands) /\ l = Len(toVis)
    BY LenProperties DEF PipeData
<1>3. /\ commands' \in Seq(Nat \ {0}) /\ Len(commands') = c + 1
      /\ \A i \in 1 .. c : commands'[i] = commands[i]
      /\ commands'[c + 1] = size
    BY <1>1, <1>2, AppendProperties DEF PipeData
<1>4. PICK N \in Nat \ {0} : N = c + 1
    BY <1>2
<1>5. PICK t : t = Text(N, size)
    OBVIOUS
<1>6. t = Piece(N, 0, size) /\ t \in Seq(Unit) /\ Len(t) = size
    <2>1. size \in Nat
        BY <1>1
    <2>2. Text(N, size) = Piece(N, 0, size)
        BY <2>1, TextIsPiece
    <2>3. Piece(N, 0, size) \in Seq(Unit) /\ Len(Piece(N, 0, size)) = size
        BY <2>1, StartIs
    <2>. QED BY <1>5, <2>2, <2>3
<1>7. /\ toVis \in Pipes /\ toVis' \in Pipes /\ Len(toVis') = l + 1
      /\ \A j \in 1 .. l : toVis'[j] = toVis[j]
      /\ toVis'[l + 1] = t
    <2>1. toVis \in Seq(Seq(Unit)) /\ toVis' = Append(toVis, t)
        BY <1>1, <1>3, <1>4, <1>5 DEF PipeData
    <2>. QED BY <1>2, <1>6, <2>1, AppendProperties DEF Pipes
<1>8. VisPipe /\ CommandsInOrder /\ ReadInv
    BY <1>1 DEF CommandsInv
<1>9. PICK F \in Nat \ {0} : F = First /\ F = c - l + 1 /\ l <= c /\ First' = F
    BY <1>2, <1>3, <1>7, <1>8, VisHead DEF First
<1>10. toVis' # <<>> /\ (toVis = <<>> => l = 0) /\ (toVis # <<>> => l > 0)
    BY <1>2, <1>7, EmptySeq DEF Pipes
<1>11. Off' = Off /\ Off' \in 0 .. commands'[F] - 1 /\ toVis'[1] = Piece(F, Off', commands'[F])
    <2>1. CASE toVis = <<>>
        <3>1. F = N /\ toVis'[1] = t /\ commands'[F] = size /\ Off = 0
            BY <1>3, <1>4, <1>7, <1>9, <1>10, <2>1 DEF Off
        <3>2. Off' = 0
            <4>1. Off' = commands'[F] - Len(toVis'[1])
                BY <1>9, <1>10 DEF Off
            <4>. QED BY <1>1, <1>6, <3>1, <4>1
        <3>. QED BY <1>1, <1>6, <3>1, <3>2
    <2>2. CASE toVis # <<>>
        <3>1. /\ F \in 1 .. c /\ Off \in Nat /\ Off < commands[F] /\ commands[F] \in Nat \ {0}
              /\ toVis[1] = Piece(F, Off, commands[F])
            BY <1>2, <1>8, <1>9, <2>2, VisHead
        <3>2. commands'[F] = commands[F] /\ toVis'[1] = toVis[1]
            BY <1>2, <1>3, <1>7, <1>10, <2>2, <3>1
        <3>3. Off' = Off
            BY <1>9, <1>10, <2>2, <3>2 DEF Off
        <3>. QED BY <3>1, <3>2, <3>3
    <2>. QED BY <2>1, <2>2
<1>12. VisPipe'
    <2>1. Len(toVis') <= Len(commands')
        BY <1>3, <1>7, <1>9
    <2>2. ASSUME NEW j \in 2 .. Len(toVis')
          PROVE  toVis'[j] = Text(F + j - 1, commands'[F + j - 1])
        <3>1. CASE j \in 2 .. l
            <4>1. toVis[j] = Text(F + j - 1, commands[F + j - 1])
                BY <1>2, <1>8, <1>9, <3>1 DEF VisPipe
            <4>2. PICK i \in 1 .. c : i = F + j - 1
                BY <1>9, <3>1
            <4>. QED BY <1>3, <1>7, <3>1, <4>1, <4>2
        <3>2. CASE j = l + 1
            <4>1. F + j - 1 = N
                BY <1>4, <1>9, <3>2
            <4>. QED BY <1>3, <1>4, <1>5, <1>7, <3>2, <4>1
        <3>. QED BY <1>7, <3>1, <3>2
    <2>3. \A j \in 2 .. Len(toVis') : toVis'[j] = Text(First' + j - 1, commands'[First' + j - 1])
        BY <1>9, <2>2
    <2>. QED BY <1>9, <1>11, <2>1, <2>3 DEF VisPipe
<1>13. /\ Sent \subseteq Sent' /\ \A j \in Sent' : j \notin Sent => j = N
       /\ \A j \in Sent : j < N /\ commands'[j] = commands[j]
       /\ Sent' \in SUBSET Nat
    BY <1>2, <1>3, <1>4, SentDue, LenProperties DEF Sent
<1>14. CommandsInOrder'
    <2>1. delivered' = delivered
        BY <1>1 DEF readVars
    <2>2. \A j \in Sent' : j \notin Sent => \A k \in Sent : k < j
        BY <1>13
    <2>3. InOrder(delivered, Sent, commands)
        BY <1>8 DEF CommandsInOrder
    <2>4. Sent \in SUBSET (Nat \ {0}) /\ \A j \in Sent : commands[j] \in Nat \ {0}
        BY SentDue
    <2>5. \A j \in Sent : commands'[j] = commands[j]
        BY <1>13
    <2>6. InOrder(delivered, Sent', commands')
        BY <1>13, <2>2, <2>3, <2>4, <2>5, MoreDue
    <2>. QED BY <2>1, <2>6 DEF CommandsInOrder
<1>15. ASSUME NEW i \in Nat, NEW n \in Nat, i <= N, n > 0 => i < N, i > 0, Absorbed(i, n)
       PROVE  Absorbed(i, n)'
    <2>1. n > 0 => commands'[i] = commands[i]
        BY <1>3, <1>4, <1>15
    <2>2. ASSUME NEW j \in Sent', j < i PROVE j \in Sent
        <3>1. j # N
            BY <1>15, <2>2
        <3>. QED BY <1>13, <3>1
    <2>. QED BY <1>1, <1>15, <2>1, <2>2 DEF Absorbed, readVars
<1>16. ReadInv'
    <2>1. CASE read.is # "done"
        <3>1. Absorbed(First, Off)
            BY <1>8, <2>1, NotDone
        <3>2. PICK s \in Nat : s = Off /\ (s > 0 => F < N)
            BY <1>2, <1>4, <1>8, <1>9, VisHead
        <3>3. Absorbed(F, s)'
            BY <1>4, <1>9, <1>15, <3>1, <3>2
        <3>4. Absorbed(First, Off)'
            BY <1>9, <1>11, <3>2, <3>3 DEF Absorbed
        <3>. QED BY <1>1, <2>1, <3>4 DEF ReadInv, readVars
    <2>2. CASE read.is = "done"
        <3>1. /\ IF read.more THEN toVis # <<>> ELSE Off = 0 /\ First > 1
              /\ ReadFrom \in 0 .. ReadTo - 1 /\ read.units = Piece(ReadOf, ReadFrom, ReadTo)
              /\ Absorbed(ReadOf, ReadFrom)
            BY <1>8, <2>2 DEF ReadInv
        <3>2. PICK i \in Nat : i = ReadOf /\ 0 < i /\ i < N
            <4>1. CASE read.more
                BY <1>2, <1>4, <1>8, <3>1, <4>1, VisHead DEF ReadOf
            <4>2. CASE ~read.more
                BY <1>4, <1>9, <3>1, <4>2 DEF ReadOf
            <4>. QED BY <4>1, <4>2
        <3>3. read' = read /\ ReadOf' = i
            BY <1>1, <1>9, <3>2 DEF ReadOf, readVars
        <3>4. ReadTo' = ReadTo
            <4>1. CASE read.more
                BY <1>11, <3>3, <4>1 DEF ReadTo
            <4>2. CASE ~read.more
                <5>1. i = F - 1 /\ i \in 1 .. c
                    <6>1. i = F - 1
                        BY <1>9, <3>2, <4>2 DEF ReadOf
                    <6>. QED BY <1>4, <3>2, <6>1
                <5>. QED BY <1>3, <1>9, <3>3, <4>2, <5>1 DEF ReadTo
            <4>. QED BY <4>1, <4>2
        <3>5. ReadFrom' = ReadFrom
            BY <3>3, <3>4 DEF ReadFrom
        <3>6. PICK n \in Nat : n = ReadFrom
            BY <3>1
        <3>7. Absorbed(i, n)'
            BY <1>4, <1>15, <3>1, <3>2, <3>6
        <3>8. Absorbed(ReadOf, ReadFrom)'
            BY <3>3, <3>5, <3>6, <3>7 DEF Absorbed
        <3>9. IF read'.more THEN toVis' # <<>> ELSE Off' = 0 /\ First' > 1
            BY <1>9, <1>10, <1>11, <3>1, <3>3
        <3>10. ReadFrom' \in 0 .. ReadTo' - 1 /\ read'.units = Piece(ReadOf', ReadFrom', ReadTo')
            BY <3>1, <3>2, <3>3, <3>4, <3>5
        <3>. QED BY <2>2, <3>3, <3>8, <3>9, <3>10 DEF ReadInv
    <2>. QED BY <2>1, <2>2
<1>. QED BY <1>3, <1>7, <1>12, <1>14, <1>16 DEF CommandsInv, Pipes


-----------------------------------------------------------------------------
(***************************************************************************)
(* News.                                                                   *)
(***************************************************************************)
SizeOf == [i \in DOMAIN news |-> news[i].size]

LEMMA NewsFacts ==
    ASSUME PipeData
    PROVE  /\ Len(news) \in Nat /\ DOMAIN news = 1 .. Len(news)
           /\ Taken \in SUBSET (Nat \ {0}) /\ Taken \subseteq 1 .. Len(news)
           /\ \A i \in Taken : /\ SizeOf[i] = news[i].size /\ news[i].size \in Nat \ {0}
                               /\ news[i].size <= RCap
           /\ toRemote \in Pipes /\ received \in Pipes /\ pending \in Seq(Unit)
           /\ Len(toRemote) \in Nat /\ DOMAIN toRemote = 1 .. Len(toRemote)
           /\ Len(received) \in Nat /\ DOMAIN received = 1 .. Len(received)
           /\ outQueue \in Seq(Nat \ {0}) /\ Len(outQueue) \in Nat
           /\ DOMAIN outQueue = 1 .. Len(outQueue)
<1>1. /\ Len(news) \in Nat /\ DOMAIN news = 1 .. Len(news)
      /\ \A i \in 1 .. Len(news) : news[i] \in [size : NewsSizes, force : BOOLEAN, sent : BOOLEAN]
    BY LenProperties, ElementOfSeq DEF PipeData
<1>2. Taken \subseteq 1 .. Len(news)
    BY <1>1 DEF Taken
<1>3. \A i \in Taken : news[i].size \in NewsSizes
    BY <1>1, <1>2
<1>4. \A i \in Taken : news[i].size \in Nat \ {0} /\ news[i].size <= RCap
    BY <1>3, SizesAssumption, NewsAssumption
<1>5. \A i \in Taken : SizeOf[i] = news[i].size
    BY <1>1, <1>2 DEF SizeOf
<1>6. Taken \in SUBSET (Nat \ {0})
    BY <1>1, <1>2
<1>7. /\ toRemote \in Pipes /\ received \in Pipes /\ pending \in Seq(Unit)
      /\ Len(toRemote) \in Nat /\ DOMAIN toRemote = 1 .. Len(toRemote)
      /\ Len(received) \in Nat /\ DOMAIN received = 1 .. Len(received)
      /\ outQueue \in Seq(Nat \ {0}) /\ Len(outQueue) \in Nat
      /\ DOMAIN outQueue = 1 .. Len(outQueue)
    BY LenProperties DEF PipeData, Pipes
<1>. QED BY <1>1, <1>2, <1>4, <1>5, <1>6, <1>7

\* Steps that touch none of it.
LEMMA NewsQuiet ==
    ASSUME NewsInv, UNCHANGED <<news, outQueue, toRemote, pending, received>>,
           pc' = pc \/ (pc \notin {"write", "gone"} /\ pc' \notin {"write", "gone"}),
           remote' = "closed" <=> remote = "closed", shutdown => shutdown'
    PROVE  NewsInv'
<1>1. Unwritten' = Unwritten /\ Taken' = Taken /\ (pc' = "write" <=> pc = "write")
    BY DEF Unwritten, Taken
<1>2. NewsInOrder' /\ UnwrittenInv'
    BY <1>1 DEF NewsInv, NewsInOrder, UnwrittenInv
<1>3. /\ RemotePipe => RemotePipe'
      /\ NewsOrder => NewsOrder'
      /\ NoneSkipped => NoneSkipped'
    BY <1>1 DEF RemotePipe, NewsOrder, NoneSkipped, Later
<1>. QED BY <1>2, <1>3 DEF NewsInv

\* The handler ends.
LEMMA NewsEnd ==
    ASSUME NewsInv, UNCHANGED <<news, outQueue, received>>, pc # "write", pc' = "gone",
           toRemote' = <<>>
    PROVE  NewsInv'
<1>1. Unwritten' = Unwritten /\ Taken' = Taken
    BY DEF Unwritten, Taken
<1>. QED BY <1>1 DEF NewsInv, NewsInOrder, UnwrittenInv

\* The Remote closes its end.
LEMMA ClosesKeeps ==
    ASSUME NewsInv, Closes
    PROVE  NewsInv'
<1>1. /\ UNCHANGED <<news, outQueue, received, pc>> /\ remote' = "closed"
      /\ toRemote' = <<>> /\ pending' = <<>>
    BY DEF Closes, newsVars
<1>2. Unwritten' = Unwritten /\ Taken' = Taken
    BY <1>1 DEF Unwritten, Taken
<1>3. NewsInOrder' /\ UnwrittenInv'
    BY <1>1, <1>2 DEF NewsInv, NewsInOrder, UnwrittenInv
<1>4. DOMAIN toRemote' = {} /\ Len(toRemote') = 0
    BY <1>1
<1>5. RemotePipe'
    BY <1>1, <1>4 DEF RemotePipe
<1>6. NewsOrder => NewsOrder'
    BY <1>1, <1>2, <1>4 DEF NewsOrder
<1>. QED BY <1>1, <1>3, <1>5, <1>6 DEF NewsInv

LEMMA QueueRest ==
    ASSUME PipeData, outQueue # <<>>
    PROVE  /\ Tail(outQueue) \in Seq(Nat \ {0}) /\ Len(Tail(outQueue)) = Len(outQueue) - 1
           /\ Len(outQueue) \in Nat \ {0} /\ Head(outQueue) = outQueue[1]
           /\ 1 \in DOMAIN outQueue
           /\ \A k \in DOMAIN Tail(outQueue) :
                k \in Nat /\ k + 1 \in DOMAIN outQueue /\ Tail(outQueue)[k] = outQueue[k + 1]
           /\ \A k \in DOMAIN outQueue :
                k = 1 \/ (k - 1 \in DOMAIN Tail(outQueue) /\ Tail(outQueue)[k - 1] = outQueue[k])
<1>1. outQueue \in Seq(Nat \ {0}) /\ Len(outQueue) \in Nat /\ DOMAIN outQueue = 1 .. Len(outQueue)
    BY NewsFacts
<1>2. /\ Tail(outQueue) \in Seq(Nat \ {0}) /\ Len(Tail(outQueue)) = Len(outQueue) - 1
      /\ Head(outQueue) = outQueue[1]
      /\ \A k \in 1 .. Len(Tail(outQueue)) : Tail(outQueue)[k] = outQueue[k + 1]
    BY <1>1, HeadTailProperties
<1>3. Len(outQueue) \in Nat \ {0}
    BY <1>1, EmptySeq
<1>4. DOMAIN Tail(outQueue) = 1 .. Len(outQueue) - 1
    BY <1>2, LenProperties
<1>5. \A k \in DOMAIN Tail(outQueue) :
        k \in Nat /\ k + 1 \in DOMAIN outQueue /\ Tail(outQueue)[k] = outQueue[k + 1]
    BY <1>1, <1>2, <1>3, <1>4
<1>6. ASSUME NEW k \in DOMAIN outQueue, k # 1
      PROVE  k - 1 \in DOMAIN Tail(outQueue) /\ Tail(outQueue)[k - 1] = outQueue[k]
    <2>1. PICK j \in 1 .. Len(outQueue) - 1 : j = k - 1 /\ k = j + 1
        BY <1>1, <1>6
    <2>. QED BY <1>2, <1>4, <2>1
<1>. QED BY <1>1, <1>2, <1>3, <1>5, <1>6

LEMMA WriteEndsKeeps ==
    ASSUME NewsInv, WriteEnds
    PROVE  NewsInv'
<1>1. /\ pc = "write" /\ pc' = "drain" /\ outQueue' = Tail(outQueue)
      /\ UNCHANGED <<news, toRemote, pending, received, remote, shutdown>>
    BY DEF WriteEnds, remoteVars, newsVars, listenVars
<1>2. Unwritten' = Unwritten /\ Taken' = Taken
    BY <1>1 DEF Unwritten, Taken
<1>3. NewsInOrder' /\ UnwrittenInv'
    BY <1>1, <1>2 DEF NewsInv, NewsInOrder, UnwrittenInv
<1>4. RemotePipe' /\ NewsOrder' /\ (remote # "closed" => NoneSkipped')
    BY <1>1, <1>2 DEF NewsInv, RemotePipe, NewsOrder, NoneSkipped, Later
<1>. QED BY <1>1, <1>3, <1>4 DEF NewsInv

LEMMA WriteFailsKeeps ==
    ASSUME PipeData, NewsInv, WriteFails
    PROVE  NewsInv'
<1>1. /\ pc = "drain" /\ pc' = "arm" /\ outQueue # <<>> /\ outQueue' = Tail(outQueue)
      /\ remote = "closed" /\ UNCHANGED <<news, toRemote, pending, received, remote, shutdown>>
    BY DEF WriteFails, remoteVars, newsVars, listenVars
<1>2. Unwritten = outQueue /\ Unwritten' = Tail(outQueue) /\ Taken' = Taken
    BY <1>1 DEF Unwritten, Taken
<1>3. \A k \in DOMAIN Unwritten' : k \in Nat /\ k + 1 \in DOMAIN Unwritten /\ Unwritten'[k] = Unwritten[k + 1]
    BY <1>1, <1>2, QueueRest
<1>4. NewsInOrder'
    BY <1>1, <1>2 DEF NewsInv, NewsInOrder
<1>5. UnwrittenInv'
    <2>1. \A k \in DOMAIN Unwritten' : Unwritten'[k] \in Taken'
        BY <1>2, <1>3 DEF NewsInv, UnwrittenInv
    <2>2. ASSUME NEW k \in DOMAIN Unwritten', NEW l \in DOMAIN Unwritten', k < l
          PROVE  Unwritten'[k] < Unwritten'[l]
        <3>1. k + 1 < l + 1
            BY <1>3, <2>2
        <3>. QED BY <1>3, <3>1 DEF NewsInv, UnwrittenInv
    <2>. QED BY <1>1, <2>1, <2>2 DEF UnwrittenInv
<1>6. toRemote = <<>> /\ DOMAIN toRemote = {}
    BY <1>1 DEF NewsInv
<1>7. RemotePipe'
    BY <1>1, <1>2 DEF NewsInv, RemotePipe
<1>8. NewsOrder'
    <2>1. \A k \in DOMAIN received', l \in DOMAIN Unwritten' : Number(received'[k]) < Unwritten'[l]
        BY <1>1, <1>3 DEF NewsInv, NewsOrder
    <2>. QED BY <1>1, <1>6, <2>1 DEF NewsOrder
<1>. QED BY <1>1, <1>4, <1>5, <1>6, <1>7, <1>8 DEF NewsInv

\* Numbers in the pipe to the Remote, in what it has got, and in the queue, are of messages taken.
LEMMA NewsTaken ==
    ASSUME PipeData, NewsInv, pc # "gone"
    PROVE  /\ \A j \in DOMAIN toRemote : Number(toRemote[j]) \in Taken
           /\ \A j \in DOMAIN received : Number(received[j]) \in Taken
           /\ \A j \in DOMAIN Unwritten : Unwritten[j] \in Taken
<1>1. InOrder(received, Taken, SizeOf)
    BY DEF NewsInv, NewsInOrder, SizeOf
<1>2. Taken \in SUBSET (Nat \ {0}) /\ \A i \in Taken : SizeOf[i] \in Nat \ {0}
    BY NewsFacts
<1>3. \A j \in DOMAIN received : Number(received[j]) \in Taken
    BY <1>1, <1>2, NumberDue
<1>. QED BY <1>3 DEF NewsInv, RemotePipe, UnwrittenInv

LEMMA TellsKeeps ==
    ASSUME PipeData, NewsInv, NEW size \in NewsSizes, NEW force \in BOOLEAN, Tells(size, force)
    PROVE  /\ NewsInv' /\ outQueue' \in Seq(Nat \ {0})
           /\ news' \in Seq([size : NewsSizes, force : BOOLEAN, sent : BOOLEAN])
           /\ \A k \in DOMAIN outQueue' : outQueue'[k] \in DOMAIN news'
<1>1. PICK sent \in BOOLEAN : sent <=> ~Throttled(force)
    OBVIOUS
<1>2. PICK item : item = [size |-> size, force |-> force, sent |-> sent]
    OBVIOUS
<1>3. PICK c \in Nat, N \in Nat \ {0} : c = Len(news) /\ N = c + 1
    <2>1. Len(news) \in Nat
        BY NewsFacts
    <2>. QED BY <2>1
<1>4. /\ pc \notin {"drain", "write", "gone"} /\ pc' = pc /\ news' = Append(news, item)
      /\ outQueue' = IF ~sent \/ shutdown THEN outQueue ELSE Append(outQueue, Len(news'))
      /\ UNCHANGED <<toRemote, pending, received, remote, shutdown>>
    <2>1. sent = ~Throttled(force)
        BY <1>1 DEF Throttled
    <2>2. news' = Append(news, item)
        BY <1>2, <2>1 DEF Tells
    <2>. QED BY <1>1, <2>2 DEF Tells, remoteVars, listenVars
<1>5. item \in [size : NewsSizes, force : BOOLEAN, sent : BOOLEAN]
    BY <1>2
<1>6. /\ news' \in Seq([size : NewsSizes, force : BOOLEAN, sent : BOOLEAN])
      /\ Len(news') = N /\ DOMAIN news' = 1 .. N /\ DOMAIN news = 1 .. c
      /\ \A i \in 1 .. c : news'[i] = news[i]
      /\ news'[N] = item
    BY <1>3, <1>4, <1>5, AppendProperties, LenProperties DEF PipeData
<1>7. /\ \A i \in Taken : i \in 1 .. c /\ i < N /\ i \in Nat /\ news'[i] = news[i]
      /\ Taken' = IF sent THEN Taken \cup {N} ELSE Taken
    <2>1. Taken \subseteq 1 .. c
        BY <1>3, NewsFacts
    <2>2. \A i \in 1 .. N : i \in 1 .. c \/ i = N
        BY <1>3
    <2>3. N \notin 1 .. c
        BY <1>3
    <2>4. item.sent = sent
        BY <1>2
    <2>5. \A i : i \in Taken' <=> i \in Taken \/ (i = N /\ sent)
        BY <1>3, <1>6, <2>2, <2>3, <2>4 DEF Taken
    <2>. QED BY <1>3, <1>6, <2>1, <2>5
<1>8. Unwritten = outQueue /\ Unwritten' = outQueue'
    BY <1>4 DEF Unwritten
<1>9. /\ \A j \in DOMAIN toRemote : Number(toRemote[j]) \in Taken
      /\ \A j \in DOMAIN received : Number(received[j]) \in Taken
      /\ \A j \in DOMAIN outQueue : outQueue[j] \in Taken
    BY <1>4, <1>8, NewsTaken
<1>10. NewsInOrder'
    <2>1. InOrder(received, Taken, SizeOf)
        BY DEF NewsInv, NewsInOrder, SizeOf
    <2>2. Taken \in SUBSET (Nat \ {0}) /\ \A i \in Taken : SizeOf[i] \in Nat \ {0}
        BY NewsFacts
    <2>3. \A i \in Taken : SizeOf'[i] = SizeOf[i]
        BY <1>3, <1>6, <1>7, NewsFacts DEF SizeOf
    <2>4. \A j \in Taken' : j \notin Taken => \A k \in Taken : k < j
        BY <1>7
    <2>5. Taken \subseteq Taken' /\ Taken' \in SUBSET Nat
        BY <1>3, <1>7
    <2>6. InOrder(received, Taken', SizeOf')
        BY <2>1, <2>2, <2>3, <2>4, <2>5, MoreDue
    <2>. QED BY <1>4, <2>6 DEF NewsInOrder, SizeOf
<1>11. /\ outQueue' \in Seq(Nat \ {0}) /\ DOMAIN outQueue' = 1 .. Len(outQueue')
       /\ \A k \in DOMAIN outQueue' :
            \/ k \in DOMAIN outQueue /\ outQueue'[k] = outQueue[k]
            \/ k = Len(outQueue) + 1 /\ outQueue'[k] = N /\ sent /\ ~shutdown
       /\ \A k \in DOMAIN outQueue : k \in DOMAIN outQueue' /\ outQueue'[k] = outQueue[k]
       /\ sent /\ ~shutdown => \E k \in DOMAIN outQueue' : outQueue'[k] = N
    <2>1. /\ outQueue \in Seq(Nat \ {0}) /\ DOMAIN outQueue = 1 .. Len(outQueue)
          /\ Len(outQueue) \in Nat
        BY NewsFacts
    <2>2. CASE ~sent \/ shutdown
        BY <1>4, <2>1, <2>2
    <2>3. CASE sent /\ ~shutdown
        <3>1. outQueue' = Append(outQueue, N)
            BY <1>4, <1>6, <2>3
        <3>2. /\ outQueue' \in Seq(Nat \ {0}) /\ Len(outQueue') = Len(outQueue) + 1
              /\ \A k \in 1 .. Len(outQueue) : outQueue'[k] = outQueue[k]
              /\ outQueue'[Len(outQueue) + 1] = N
            BY <2>1, <3>1, AppendProperties
        <3>3. DOMAIN outQueue' = 1 .. Len(outQueue) + 1
            BY <3>2, LenProperties
        <3>. QED BY <2>1, <2>3, <3>2, <3>3
    <2>. QED BY <2>2, <2>3
<1>12. \A k \in DOMAIN outQueue' : outQueue'[k] \in Taken' /\ outQueue'[k] \in DOMAIN news'
    BY <1>3, <1>6, <1>7, <1>9, <1>11
<1>13. UnwrittenInv'
    <2>1. ASSUME NEW k \in DOMAIN outQueue', NEW l \in DOMAIN outQueue', k < l
          PROVE  outQueue'[k] < outQueue'[l]
        <3>1. DOMAIN outQueue = 1 .. Len(outQueue) /\ Len(outQueue) \in Nat
            BY NewsFacts
        <3>2. k \in DOMAIN outQueue /\ outQueue'[k] = outQueue[k]
            BY <1>11, <2>1, <3>1
        <3>3. CASE l \in DOMAIN outQueue /\ outQueue'[l] = outQueue[l]
            BY <1>8, <2>1, <3>2, <3>3 DEF NewsInv, UnwrittenInv
        <3>4. CASE outQueue'[l] = N
            BY <1>7, <1>9, <3>2, <3>4
        <3>. QED BY <1>11, <3>3, <3>4
    <2>. QED BY <1>4, <1>8, <1>12, <2>1 DEF UnwrittenInv
<1>14. RemotePipe'
    <2>1. \A j \in DOMAIN toRemote : news'[Number(toRemote[j])] = news[Number(toRemote[j])]
        BY <1>7, <1>9
    <2>2. RemotePipe
        BY <1>4 DEF NewsInv
    <2>3. DOMAIN toRemote = 1 .. Len(toRemote) /\ Len(toRemote) \in Nat /\ toRemote \in Pipes
        BY NewsFacts
    <2>4. toRemote # <<>> => 1 \in DOMAIN toRemote
        BY <2>3, EmptySeq DEF Pipes
    <2>5. \A j \in 2 .. Len(toRemote) : j \in DOMAIN toRemote
        BY <2>3
    <2>. QED BY <1>4, <1>7, <2>1, <2>2, <2>4, <2>5 DEF RemotePipe
<1>15. NewsOrder'
    <2>1. NewsOrder
        BY <1>4 DEF NewsInv
    <2>2. /\ \A j \in DOMAIN toRemote, k \in DOMAIN outQueue' : Number(toRemote[j]) < outQueue'[k]
          /\ \A j \in DOMAIN received, k \in DOMAIN outQueue' : Number(received[j]) < outQueue'[k]
        BY <1>7, <1>8, <1>9, <1>11, <2>1 DEF NewsOrder
    <2>. QED BY <1>4, <1>8, <2>1, <2>2 DEF NewsOrder
<1>16. ASSUME remote' # "closed" PROVE NoneSkipped'
    <2>1. NoneSkipped
        BY <1>4, <1>16 DEF NewsInv
    <2>2. ASSUME NEW i \in Taken
          PROVE  \/ Among(received, i) \/ Among(toRemote, i)
                 \/ \E k \in DOMAIN outQueue' : outQueue'[k] = i
                 \/ shutdown /\ Later(i)'
        <3>1. shutdown => outQueue' = outQueue
            BY <1>4
        <3>2. shutdown /\ Later(i) => Later(i)'
            BY <1>4, <1>8, <3>1 DEF Later
        <3>. QED BY <1>8, <1>11, <2>1, <3>2 DEF NoneSkipped
    <2>3. shutdown => Later(N)'
        BY <1>4, <1>7, <1>8, <1>9 DEF Later
    <2>. QED BY <1>4, <1>7, <1>8, <1>11, <2>2, <2>3 DEF NoneSkipped
<1>17. NewsInv'
    BY <1>4, <1>10, <1>13, <1>14, <1>15, <1>16 DEF NewsInv
<1>. QED BY <1>6, <1>11, <1>12, <1>17

LEMMA WriteBeginsKeeps ==
    ASSUME PipeData, NewsInv, WriteBegins
    PROVE  NewsInv' /\ toRemote' \in Pipes
<1>1. /\ pc = "drain" /\ pc' = "write" /\ outQueue # <<>> /\ remote # "closed"
      /\ toRemote' = Append(toRemote, Text(Head(outQueue), news[Head(outQueue)].size))
      /\ UNCHANGED <<news, pending, received, remote, shutdown, outQueue>>
    BY DEF WriteBegins, remoteVars, newsVars, listenVars
<1>2. Unwritten = outQueue /\ Unwritten' = Tail(outQueue) /\ Taken' = Taken
    BY <1>1 DEF Unwritten, Taken
<1>3. PICK h : h = outQueue[1]
    OBVIOUS
<1>4. /\ Head(outQueue) = h /\ 1 \in DOMAIN Unwritten /\ Unwritten[1] = h
      /\ \A k \in DOMAIN Unwritten' : k \in Nat /\ k + 1 \in DOMAIN Unwritten /\ Unwritten'[k] = Unwritten[k + 1]
      /\ \A k \in DOMAIN Unwritten : k = 1 \/ (k - 1 \in DOMAIN Unwritten' /\ Unwritten'[k - 1] = Unwritten[k])
    BY <1>1, <1>2, <1>3, QueueRest
<1>5. UnwrittenInv /\ RemotePipe /\ NewsOrder /\ NoneSkipped /\ NewsInOrder
    BY <1>1 DEF NewsInv
<1>6. /\ \A j \in DOMAIN toRemote : Number(toRemote[j]) \in Taken
      /\ \A j \in DOMAIN received : Number(received[j]) \in Taken
      /\ \A j \in DOMAIN Unwritten : Unwritten[j] \in Taken
    BY <1>1, NewsTaken
<1>7. /\ h \in Taken /\ \A j \in DOMAIN Unwritten' : Unwritten'[j] \in Taken
    BY <1>4, <1>6
<1>8. PICK z \in Nat \ {0} : z = news[h].size
    BY <1>7, NewsFacts
<1>9. PICK t : t = Text(h, z)
    OBVIOUS
<1>10. /\ h \in Nat \ {0} /\ t = Piece(h, 0, z) /\ t \in Seq(Unit) /\ Number(t) = h
       /\ Piece(h, 0, 0) = <<>>
    <2>1. h \in Nat \ {0} /\ z \in Nat /\ 0 < z
        BY <1>7, NewsFacts
    <2>2. t = Piece(h, 0, z)
        BY <1>9, <2>1, TextIsPiece
    <2>3. Piece(h, 0, z) \in Seq(Unit)
        BY <2>1, StartIs
    <2>4. Number(Piece(h, 0, z)) = h
        BY <2>1, PieceNumber
    <2>5. Piece(h, 0, 0) = <<>>
        BY <2>1, EmptyPiece
    <2>. QED BY <2>1, <2>2, <2>3, <2>4, <2>5
<1>11. PICK l \in Nat : l = Len(toRemote) /\ DOMAIN toRemote = 1 .. l
    BY NewsFacts
<1>12. /\ toRemote' \in Pipes /\ Len(toRemote') = l + 1 /\ DOMAIN toRemote' = 1 .. l + 1
       /\ \A j \in 1 .. l : toRemote'[j] = toRemote[j]
       /\ toRemote'[l + 1] = t
    <2>1. toRemote' = Append(toRemote, t) /\ toRemote \in Pipes
        BY <1>1, <1>4, <1>8, <1>9, NewsFacts
    <2>. QED BY <1>10, <1>11, <2>1, AppendProperties, LenProperties DEF Pipes
<1>13. \A j \in DOMAIN toRemote' : (j \in DOMAIN toRemote /\ toRemote'[j] = toRemote[j])
                                   \/ (j = l + 1 /\ toRemote'[j] = t)
    BY <1>11, <1>12
<1>14. \A k \in DOMAIN Unwritten' : h < Unwritten'[k]
    <2>. SUFFICES ASSUME NEW k \in DOMAIN Unwritten' PROVE h < Unwritten'[k]
        OBVIOUS
    <2>1. 1 < k + 1 /\ k + 1 \in DOMAIN Unwritten /\ Unwritten'[k] = Unwritten[k + 1]
        <3>1. k \in Nat /\ k # 0
            BY <1>1, <1>2, QueueRest, LenProperties
        <3>. QED BY <1>4, <3>1
    <2>. QED BY <1>4, <1>5, <2>1 DEF UnwrittenInv
<1>15. NewsInOrder'
    BY <1>1, <1>2, <1>5 DEF NewsInOrder
<1>16. UnwrittenInv'
    <2>1. ASSUME NEW k \in DOMAIN Unwritten', NEW m \in DOMAIN Unwritten', k < m
          PROVE  Unwritten'[k] < Unwritten'[m]
        <3>1. k + 1 < m + 1
            BY <1>4, <2>1
        <3>. QED BY <1>4, <1>5, <3>1 DEF UnwrittenInv
    <2>. QED BY <1>1, <1>2, <1>7, <2>1 DEF UnwrittenInv
<1>17. RemotePipe'
    <2>1. toRemote' # <<>> /\ (toRemote = <<>> => l = 0) /\ (toRemote # <<>> => l > 0)
        <3>1. toRemote # <<>> => l # 0
            BY <1>11, NewsFacts, EmptySeq DEF Pipes
        <3>. QED BY <1>11, <1>12, <3>1, EmptySeq DEF Pipes
    <2>2. \A j \in DOMAIN toRemote' : Number(toRemote'[j]) \in Taken
        BY <1>6, <1>7, <1>10, <1>13
    <2>3. \A j \in 2 .. l + 1 :
            toRemote'[j] = Text(Number(toRemote'[j]), news[Number(toRemote'[j])].size)
        <3>. SUFFICES ASSUME NEW j \in 2 .. l + 1
             PROVE  toRemote'[j] = Text(Number(toRemote'[j]), news[Number(toRemote'[j])].size)
            OBVIOUS
        <3>1. CASE j = l + 1
            BY <1>8, <1>9, <1>10, <1>12, <3>1
        <3>2. CASE j \in 2 .. l
            <4>1. toRemote[j] = Text(Number(toRemote[j]), news[Number(toRemote[j])].size)
                BY <1>5, <1>11, <3>2 DEF RemotePipe
            <4>. QED BY <1>12, <3>2, <4>1
        <3>. QED BY <3>1, <3>2
    <2>4. CASE toRemote = <<>>
        <3>1. pending = <<>> /\ Len(pending) = 0
            BY <1>5, <2>4 DEF RemotePipe
        <3>2. toRemote'[1] = t
            BY <1>12, <2>1, <2>4
        <3>. QED BY <1>1, <1>2, <1>8, <1>10, <1>12, <2>1, <2>2, <2>3, <3>1, <3>2 DEF RemotePipe
    <2>5. CASE toRemote # <<>>
        <3>1. toRemote'[1] = toRemote[1]
            BY <1>12, <2>1, <2>5
        <3>. QED BY <1>1, <1>2, <1>5, <1>12, <2>1, <2>2, <2>3, <2>5, <3>1 DEF RemotePipe
    <2>. QED BY <2>4, <2>5
<1>18. NewsOrder'
    <2>1. \A j \in DOMAIN toRemote : Number(toRemote[j]) < h
        BY <1>4, <1>5 DEF NewsOrder
    <2>2. \A k \in DOMAIN received : Number(received[k]) < h
        BY <1>4, <1>5 DEF NewsOrder
    <2>3. ASSUME NEW j \in DOMAIN toRemote', NEW k \in DOMAIN toRemote', j < k
          PROVE  Number(toRemote'[j]) < Number(toRemote'[k])
        <3>1. j \in DOMAIN toRemote /\ toRemote'[j] = toRemote[j]
            BY <1>11, <1>12, <2>3
        <3>2. CASE k \in DOMAIN toRemote /\ toRemote'[k] = toRemote[k]
            BY <1>5, <2>3, <3>1, <3>2 DEF NewsOrder
        <3>3. CASE toRemote'[k] = t
            BY <1>10, <2>1, <3>1, <3>3
        <3>. QED BY <1>13, <3>2, <3>3
    <2>4. \A j \in DOMAIN toRemote', k \in DOMAIN Unwritten' : Number(toRemote'[j]) < Unwritten'[k]
        BY <1>4, <1>5, <1>10, <1>13, <1>14 DEF NewsOrder
    <2>5. \A k \in DOMAIN received, j \in DOMAIN toRemote' :
            Number(received[k]) < Number(toRemote'[j])
        BY <1>5, <1>10, <1>13, <2>2 DEF NewsOrder
    <2>6. \A k \in DOMAIN received, m \in DOMAIN Unwritten' : Number(received[k]) < Unwritten'[m]
        BY <1>4, <1>5 DEF NewsOrder
    <2>. QED BY <1>1, <2>3, <2>4, <2>5, <2>6 DEF NewsOrder
<1>19. NoneSkipped'
    <2>1. l + 1 \in DOMAIN toRemote' /\ Number(toRemote'[l + 1]) = h
        BY <1>10, <1>12
    <2>2. \A j \in DOMAIN toRemote : j \in DOMAIN toRemote' /\ toRemote'[j] = toRemote[j]
        BY <1>11, <1>12
    <2>3. ASSUME NEW i \in Taken
          PROVE  \/ Among(received, i) \/ Among(toRemote', i)
                 \/ \E k \in DOMAIN Unwritten' : Unwritten'[k] = i
                 \/ shutdown /\ Later(i)'
        <3>1. CASE Among(received, i)
            BY <3>1
        <3>2. CASE Among(toRemote, i)
            BY <2>2, <3>2 DEF Among
        <3>3. CASE \E k \in DOMAIN Unwritten : Unwritten[k] = i
            BY <1>4, <2>1, <3>3 DEF Among
        <3>4. CASE shutdown /\ Later(i)
            BY <1>1, <1>4, <1>10, <1>13, <3>4 DEF Later
        <3>. QED BY <1>5, <3>1, <3>2, <3>3, <3>4 DEF NoneSkipped
    <2>. QED BY <1>1, <1>2, <2>3 DEF NoneSkipped
<1>. QED BY <1>1, <1>12, <1>15, <1>16, <1>17, <1>18, <1>19 DEF NewsInv

LEMMA RemoteReadsKeeps ==
    ASSUME PipeData, NewsInv, RemoteReads
    PROVE  /\ NewsInv' /\ toRemote' \in Pipes /\ received' \in Pipes
           /\ pending' \in Seq(Unit) /\ Len(pending') <= RCap
<1>1. /\ remote = "live" /\ toRemote # <<>> /\ toRemote' = Rest(toRemote, RBuf)
      /\ UNCHANGED <<news, outQueue, remote, shutdown, pc>>
      /\ More(toRemote, RBuf) => /\ pending' = Kept(pending \o Chunk(toRemote, RBuf))
                                 /\ received' = received
      /\ ~More(toRemote, RBuf) => /\ pending' = <<>>
                                  /\ received' = Append(received, pending \o Chunk(toRemote, RBuf))
    BY DEF RemoteReads, remoteVars, newsVars
<1>2. pc # "gone" /\ UnwrittenInv /\ RemotePipe /\ NewsOrder /\ NoneSkipped
    BY <1>1 DEF NewsInv
<1>3. /\ Unwritten' = Unwritten /\ Taken' = Taken /\ SizeOf' = SizeOf /\ UnwrittenInv'
    <2>1. Unwritten' = Unwritten /\ Taken' = Taken /\ SizeOf' = SizeOf
        BY <1>1 DEF Unwritten, Taken, SizeOf
    <2>. QED BY <1>1, <1>2, <2>1 DEF UnwrittenInv
<1>4. /\ \A j \in DOMAIN toRemote : Number(toRemote[j]) \in Taken
      /\ \A j \in DOMAIN received : Number(received[j]) \in Taken
      /\ \A j \in DOMAIN Unwritten : Unwritten[j] \in Taken
    BY <1>2, NewsTaken
<1>5. PICK l \in Nat \ {0} : l = Len(toRemote) /\ DOMAIN toRemote = 1 .. l
    <2>1. Len(toRemote) \in Nat /\ DOMAIN toRemote = 1 .. Len(toRemote)
        BY NewsFacts
    <2>2. Len(toRemote) # 0
        BY <1>1, NewsFacts, EmptySeq DEF Pipes
    <2>. QED BY <2>1, <2>2
<1>6. PICK i : i = Number(toRemote[1])
    OBVIOUS
<1>7. i \in Taken /\ i \in Nat \ {0}
    BY <1>4, <1>5, <1>6, NewsFacts
<1>8. PICK z \in Nat \ {0} : z = news[i].size /\ z <= RCap /\ SizeOf[i] = z
    BY <1>7, NewsFacts
<1>9. PICK s \in Nat : s = Len(pending)
    BY NewsFacts, LenProperties
<1>10. s < z /\ s <= z /\ pending = Piece(i, 0, s) /\ toRemote[1] = Piece(i, s, z)
    BY <1>1, <1>2, <1>6, <1>8, <1>9 DEF RemotePipe
<1>11. RBuf \in Nat \ {0} /\ RCap \in Nat /\ toRemote \in Pipes /\ received \in Pipes
    BY BufAssumption, NewsFacts
<1>12. /\ toRemote' \in Pipes /\ Len(toRemote') = IF More(toRemote, RBuf) THEN l ELSE l - 1
       /\ More(toRemote, RBuf) => \A j \in 2 .. l : toRemote'[j] = toRemote[j]
       /\ ~More(toRemote, RBuf) => \A j \in 1 .. l - 1 : toRemote'[j] = toRemote[j + 1]
       /\ DOMAIN toRemote' = 1 .. Len(toRemote')
    <2>1. /\ toRemote' \in Pipes /\ Len(toRemote') = IF More(toRemote, RBuf) THEN l ELSE l - 1
          /\ More(toRemote, RBuf) => \A j \in 2 .. l : toRemote'[j] = toRemote[j]
          /\ ~More(toRemote, RBuf) => \A j \in 1 .. l - 1 : toRemote'[j] = toRemote[j + 1]
        BY <1>1, <1>5, <1>11, RestOfPipe
    <2>. QED BY <2>1, LenProperties DEF Pipes
<1>13. GetsPiece(toRemote, RBuf, i, s, z)
    <2>1. z \in Nat
        BY <1>8
    <2>. QED BY <1>1, <1>7, <1>10, <1>11, <2>1, ReadsPiece
<1>14. \A j \in 2 .. l :
         toRemote[j] = Text(Number(toRemote[j]), news[Number(toRemote[j])].size)
    BY <1>2, <1>5 DEF RemotePipe
<1>15. CASE More(toRemote, RBuf)
    <2>1. PICK m \in Nat : /\ s < m /\ m < z /\ Chunk(toRemote, RBuf) = Piece(i, s, m)
                           /\ Rest(toRemote, RBuf)[1] = Piece(i, m, z)
        BY <1>13, <1>15 DEF GetsPiece
    <2>2. pending \o Chunk(toRemote, RBuf) = Piece(i, 0, m)
        <3>1. 0 <= s /\ s <= m /\ 0 \in Nat
            BY <2>1
        <3>2. Piece(i, 0, s) \o Piece(i, s, m) = Piece(i, 0, m)
            BY <1>7, <3>1, PieceJoins
        <3>. QED BY <1>10, <2>1, <3>2
    <2>3. Piece(i, 0, m) \in Seq(Unit) /\ Len(Piece(i, 0, m)) = m
        BY <1>7, StartIs
    <2>4. pending' = Piece(i, 0, m) /\ received' = received /\ Len(pending') = m
        <3>1. m <= RCap
            BY <1>8, <1>11, <2>1
        <3>2. ~(Len(Piece(i, 0, m)) > RCap)
            BY <1>11, <2>3, <3>1
        <3>3. Kept(Piece(i, 0, m)) = Piece(i, 0, m)
            BY <3>2 DEF Kept
        <3>. QED BY <1>1, <1>15, <2>2, <2>3, <3>3
    <2>5. toRemote'[1] = Piece(i, m, z) /\ Number(toRemote'[1]) = i
        <3>1. Number(Piece(i, m, z)) = i
            <4>1. z \in Nat
                BY <1>8
            <4>. QED BY <1>7, <2>1, <4>1, PieceNumber
        <3>. QED BY <1>1, <2>1, <3>1
    <2>6. /\ DOMAIN toRemote' = DOMAIN toRemote /\ Len(toRemote') = l
          /\ \A j \in DOMAIN toRemote : Number(toRemote'[j]) = Number(toRemote[j])
        <3>1. \A j \in DOMAIN toRemote : j = 1 \/ j \in 2 .. l
            BY <1>5
        <3>. QED BY <1>5, <1>6, <1>12, <1>15, <2>5, <3>1
    <2>7. toRemote' # <<>>
        BY <1>5, <2>6
    <2>8. RemotePipe'
        <3>1. \A j \in 2 .. l :
                toRemote'[j] = Text(Number(toRemote'[j]), news[Number(toRemote'[j])].size)
            BY <1>12, <1>14, <1>15
        <3>2. Len(pending') < news[i].size /\ pending' = Piece(i, 0, Len(pending'))
            BY <1>8, <2>1, <2>4
        <3>3. toRemote'[1] = Piece(i, Len(pending'), news[i].size)
            BY <1>8, <2>4, <2>5
        <3>. QED BY <1>1, <1>3, <1>4, <2>5, <2>6, <2>7, <3>1, <3>2, <3>3 DEF RemotePipe
    <2>9. NewsOrder'
        BY <1>2, <1>3, <2>4, <2>6 DEF NewsOrder
    <2>10. NoneSkipped'
        <3>1. \A j : Among(toRemote, j) => Among(toRemote', j)
            BY <2>6 DEF Among
        <3>2. \A j : Later(j) => Later(j)'
            BY <1>3, <2>4, <2>6 DEF Later
        <3>. QED BY <1>1, <1>2, <1>3, <2>4, <3>1, <3>2 DEF NoneSkipped
    <2>11. NewsInOrder'
        BY <1>1, <1>3, <2>4 DEF NewsInv, NewsInOrder
    <2>12. Len(pending') <= RCap
        BY <1>8, <1>11, <2>1, <2>4
    <2>. QED BY <1>1, <1>2, <1>3, <1>11, <1>12, <2>3, <2>4, <2>8, <2>9, <2>10, <2>11, <2>12 DEF NewsInv
<1>16. CASE ~More(toRemote, RBuf)
    <2>1. pending \o Chunk(toRemote, RBuf) = Text(i, SizeOf[i])
        <3>1. Chunk(toRemote, RBuf) = Piece(i, s, z)
            BY <1>13, <1>16 DEF GetsPiece
        <3>2. 0 <= s /\ s <= z /\ 0 \in Nat /\ z \in Nat
            BY <1>8, <1>10
        <3>3. Piece(i, 0, s) \o Piece(i, s, z) = Piece(i, 0, z)
            BY <1>7, <3>2, PieceJoins
        <3>4. Text(i, z) = Piece(i, 0, z)
            BY <1>7, <3>2, TextIsPiece
        <3>. QED BY <1>8, <1>10, <3>1, <3>3, <3>4
    <2>2. received' = Append(received, Text(i, SizeOf[i])) /\ pending' = <<>>
        BY <1>1, <1>16, <2>1
    <2>3. /\ DOMAIN toRemote' = 1 .. l - 1 /\ Len(toRemote') = l - 1
          /\ \A j \in DOMAIN toRemote' :
               j \in Nat \ {0} /\ j + 1 \in DOMAIN toRemote /\ toRemote'[j] = toRemote[j + 1]
          /\ \A j \in DOMAIN toRemote :
               j = 1 \/ (j - 1 \in DOMAIN toRemote' /\ toRemote'[j - 1] = toRemote[j])
        <3>1. DOMAIN toRemote' = 1 .. l - 1 /\ Len(toRemote') = l - 1
            BY <1>12, <1>16
        <3>2. ASSUME NEW j \in DOMAIN toRemote, j # 1
              PROVE  j - 1 \in DOMAIN toRemote' /\ toRemote'[j - 1] = toRemote[j]
            <4>1. PICK k \in 1 .. l - 1 : k = j - 1 /\ j = k + 1
                BY <1>5, <3>2
            <4>. QED BY <1>12, <1>16, <3>1, <4>1
        <3>3. \A j \in DOMAIN toRemote' :
                j \in Nat \ {0} /\ j + 1 \in DOMAIN toRemote /\ toRemote'[j] = toRemote[j + 1]
            BY <1>5, <1>12, <1>16, <3>1
        <3>. QED BY <3>1, <3>2, <3>3
    <2>4. InOrder(received, Taken, SizeOf)
        BY DEF NewsInv, NewsInOrder, SizeOf
    <2>5. \A k \in DOMAIN received : Number(received[k]) < i
        BY <1>2, <1>5, <1>6 DEF NewsOrder
    <2>6. \A j \in DOMAIN toRemote' : i < Number(toRemote'[j])
        <3>. SUFFICES ASSUME NEW j \in DOMAIN toRemote' PROVE i < Number(toRemote'[j])
            OBVIOUS
        <3>1. 1 < j + 1 /\ 1 \in DOMAIN toRemote
            BY <1>5, <2>3
        <3>. QED BY <1>2, <1>6, <2>3, <3>1 DEF NewsOrder
    <2>7. \A k \in DOMAIN Unwritten : i < Unwritten[k]
        BY <1>2, <1>5, <1>6 DEF NewsOrder
    <2>8. \A j \in DOMAIN toRemote : Number(toRemote[j]) = i \/ i < Number(toRemote[j])
        BY <1>6, <2>3, <2>6
    <2>9. \A j \in Taken : j < i => Among(received, j)
        <3>. SUFFICES ASSUME NEW j \in Taken, j < i PROVE Among(received, j)
            OBVIOUS
        <3>1. j \in Nat
            BY NewsFacts
        <3>2. ~Among(toRemote, j)
            BY <1>7, <2>8, <3>1 DEF Among
        <3>3. ~\E k \in DOMAIN Unwritten : Unwritten[k] = j
            BY <1>7, <2>7, <3>1
        <3>4. ~Later(j)
            BY <1>5, <1>6, <1>7, <3>1 DEF Later
        <3>. QED BY <1>2, <3>2, <3>3, <3>4 DEF NoneSkipped
    <2>10. /\ InOrder(received', Taken, SizeOf) /\ received' \in Pipes /\ Adds(received', received, i)
        <3>1. Taken \in SUBSET (Nat \ {0}) /\ \A j \in Taken : SizeOf[j] \in Nat \ {0}
            BY NewsFacts
        <3>. QED BY <1>7, <1>11, <2>2, <2>4, <2>5, <2>9, <3>1, OneMoreGot
    <2>11. NewsInOrder'
        BY <1>3, <2>10 DEF NewsInOrder, SizeOf
    <2>12. \A k \in DOMAIN received' : Number(received'[k]) <= i /\ Number(received'[k]) \in Nat
        <3>1. \A k \in DOMAIN received' : Number(received'[k]) \in Nat
            <4>1. Taken \in SUBSET (Nat \ {0}) /\ \A j \in Taken : SizeOf[j] \in Nat \ {0}
                BY NewsFacts
            <4>. QED BY <2>10, <4>1, NumberDue
        <3>. QED BY <2>10, <3>1 DEF Adds
    <2>13. RemotePipe'
        <3>1. \A j \in DOMAIN toRemote' : Number(toRemote'[j]) \in Taken
            BY <1>4, <2>3
        <3>2. ASSUME NEW j \in DOMAIN toRemote'
              PROVE  toRemote'[j] = Text(Number(toRemote'[j]), news[Number(toRemote'[j])].size)
            <4>1. j + 1 \in 2 .. l
                BY <1>5, <2>3
            <4>. QED BY <1>14, <2>3, <4>1
        <3>3. \A j \in 2 .. Len(toRemote') : j \in DOMAIN toRemote'
            BY <2>3
        <3>4. CASE toRemote' = <<>>
            BY <1>1, <1>3, <2>2, <3>1, <3>2, <3>3, <3>4 DEF RemotePipe
        <3>5. CASE toRemote' # <<>>
            <4>1. 1 \in DOMAIN toRemote'
                BY <1>12, <3>5, EmptySeq DEF Pipes
            <4>2. PICK j \in Nat \ {0} : j = Number(toRemote'[1]) /\ j \in Taken
                BY <3>1, <4>1, NewsFacts
            <4>3. PICK y \in Nat \ {0} : y = news[j].size
                BY <4>2, NewsFacts
            <4>4. toRemote'[1] = Piece(j, 0, y) /\ Piece(j, 0, 0) = <<>>
                <5>1. y \in Nat
                    OBVIOUS
                <5>2. Text(j, y) = Piece(j, 0, y)
                    BY <5>1, TextIsPiece
                <5>. QED BY <3>2, <4>1, <4>2, <4>3, <5>2, EmptyPiece
            <4>5. Len(pending') = 0 /\ pending' = Piece(j, 0, Len(pending')) /\ 0 < y
                BY <2>2, <4>4
            <4>. QED BY <1>1, <1>3, <3>1, <3>2, <3>3, <3>5, <4>2, <4>3, <4>4, <4>5 DEF RemotePipe
        <3>. QED BY <3>4, <3>5
    <2>14. NewsOrder'
        <3>1. ASSUME NEW j \in DOMAIN toRemote', NEW k \in DOMAIN toRemote', j < k
              PROVE  Number(toRemote'[j]) < Number(toRemote'[k])
            <4>1. j + 1 < k + 1
                BY <2>3, <3>1
            <4>. QED BY <1>2, <2>3, <4>1 DEF NewsOrder
        <3>2. \A j \in DOMAIN toRemote', k \in DOMAIN Unwritten : Number(toRemote'[j]) < Unwritten[k]
            BY <1>2, <2>3 DEF NewsOrder
        <3>3. \A k \in DOMAIN received', j \in DOMAIN toRemote' :
                Number(received'[k]) < Number(toRemote'[j])
            <4>1. \A j \in DOMAIN toRemote' : Number(toRemote'[j]) \in Nat
                BY <1>4, <2>3, NewsFacts
            <4>. QED BY <1>7, <2>6, <2>12, <4>1
        <3>4. \A k \in DOMAIN received', m \in DOMAIN Unwritten : Number(received'[k]) < Unwritten[m]
            <4>1. \A m \in DOMAIN Unwritten : Unwritten[m] \in Nat
                BY <1>4, NewsFacts
            <4>. QED BY <1>7, <2>7, <2>12, <4>1
        <3>. QED BY <1>3, <3>1, <3>2, <3>3, <3>4 DEF NewsOrder
    <2>15. NoneSkipped'
        <3>1. ASSUME NEW j \in Taken
              PROVE  \/ Among(received', j) \/ Among(toRemote', j)
                     \/ \E k \in DOMAIN Unwritten : Unwritten[k] = j
                     \/ shutdown /\ Later(j)'
            <4>1. \A k : Among(received', k) <=> Among(received, k) \/ k = i
                BY <2>10 DEF Adds
            <4>2. Among(toRemote, j) => j = i \/ Among(toRemote', j)
                BY <1>6, <2>3 DEF Among
            <4>3. Later(j) => Later(j)'
                <5>1. \A k \in DOMAIN toRemote' : Later(j) => Number(toRemote'[k]) < j
                    BY <2>3 DEF Later
                <5>2. Later(j) => i < j
                    BY <1>5, <1>6 DEF Later
                <5>3. j \in Nat
                    BY NewsFacts
                <5>4. \A k \in DOMAIN received' : Later(j) => Number(received'[k]) < j
                    BY <1>7, <2>12, <5>2, <5>3
                <5>. QED BY <1>3, <5>1, <5>4 DEF Later
            <4>. QED BY <1>2, <4>1, <4>2, <4>3 DEF NoneSkipped
        <3>. QED BY <1>1, <1>3, <3>1 DEF NoneSkipped
    <2>16. pending' \in Seq(Unit) /\ Len(pending') <= RCap
        BY <1>11, <2>2, EmptySeq
    <2>. QED BY <1>1, <1>2, <1>3, <1>12, <2>10, <2>11, <2>13, <2>14, <2>15, <2>16 DEF NewsInv
<1>. QED BY <1>15, <1>16

-----------------------------------------------------------------------------
(***************************************************************************)
(* The invariant of the connection, and what follows from it.              *)
(***************************************************************************)
PipeIInv == PipeData /\ CommandsInv /\ NewsInv

LEMMA NoReadIs ==
    /\ NoRead \in [is : {"none", "pending", "done"}, units : Seq(Unit), more : BOOLEAN]
    /\ Len(NoRead.units) <= Buf /\ NoRead.is = "none"
    /\ Idle \in [is : {"none", "pending", "done"}, units : Seq(Unit), more : BOOLEAN]
    /\ Len(Idle.units) <= Buf /\ Idle.is = "pending"
<1>1. <<>> \in Seq(Unit) /\ Len(<<>>) <= Buf
    BY BufAssumption
<1>2. NoRead = [is |-> "none", units |-> <<>>, more |-> FALSE]
    BY DEF NoRead
<1>3. /\ Idle \in [is : {"none", "pending", "done"}, units : Seq(Unit), more : BOOLEAN]
      /\ Idle.is = "pending" /\ Idle.units = <<>>
    BY <1>1, <1>2 DEF Idle
<1>. QED BY <1>1, <1>2, <1>3

LEMMA PipeStarts == PipeInit => PipeIInv
<1>. SUFFICES ASSUME PipeInit PROVE PipeIInv
    OBVIOUS
<1>1. PipeData
    <2>1. PipeTypeOK
        <3>1. hangs \in 0 .. MaxHangs
            BY BoundsAssumption DEF PipeInit
        <3>2. Len(assembled) <= Cap /\ Len(pending) <= RCap
            BY BufAssumption DEF PipeInit
        <3>3. read.is \in {"none", "pending", "done"} /\ Len(read.units) <= Buf
            BY NoReadIs DEF PipeInit
        <3>4. \A i \in DOMAIN outQueue : outQueue[i] \in DOMAIN news
            BY DEF PipeInit
        <3>. QED BY <3>1, <3>2, <3>3, <3>4 DEF PipeInit, PipeTypeOK
    <2>2. commands \in Seq(Nat \ {0}) /\ outQueue \in Seq(Nat \ {0})
          /\ news \in Seq([size : NewsSizes, force : BOOLEAN, sent : BOOLEAN])
        BY DEF PipeInit
    <2>3. /\ toVis \in Seq(Seq(Unit)) /\ delivered \in Seq(Seq(Unit)) /\ assembled \in Seq(Unit)
          /\ toRemote \in Seq(Seq(Unit)) /\ received \in Seq(Seq(Unit)) /\ pending \in Seq(Unit)
        BY DEF PipeInit
    <2>. QED BY <2>1, <2>2, <2>3, NoReadIs DEF PipeInit, PipeData
<1>2. Sent = {} /\ Taken = {} /\ Unwritten = <<>> /\ DOMAIN Unwritten = {}
    BY DEF PipeInit, Sent, Taken, Unwritten
<1>3. CommandsInv
    <2>1. CommandsInOrder
        BY <1>2 DEF PipeInit, CommandsInOrder, InOrder
    <2>2. Off = 0 /\ First = 1
        BY DEF PipeInit, Off, First
    <2>3. VisPipe
        BY <2>2 DEF PipeInit, VisPipe
    <2>4. Absorbed(First, Off)
        <3>1. Piece(1, 0, 0) = <<>>
            BY EmptyPiece
        <3>2. Absorbed(1, 0)
            BY <1>2, <3>1, BufAssumption DEF PipeInit, Absorbed
        <3>. QED BY <2>2, <3>2
    <2>5. ReadInv
        BY <2>4, NoReadIs DEF PipeInit, ReadInv
    <2>. QED BY <2>1, <2>3, <2>5 DEF CommandsInv
<1>4. NewsInv
    <2>1. NewsInOrder
        BY <1>2 DEF PipeInit, NewsInOrder, InOrder
    <2>2. UnwrittenInv
        BY <1>2 DEF PipeInit, UnwrittenInv
    <2>3. RemotePipe
        BY DEF PipeInit, RemotePipe
    <2>4. NewsOrder /\ NoneSkipped
        BY <1>2 DEF PipeInit, NewsOrder, NoneSkipped
    <2>. QED BY <2>1, <2>2, <2>3, <2>4 DEF PipeInit, NewsInv
<1>. QED BY <1>1, <1>3, <1>4 DEF PipeIInv

LEMMA ArmPendingKeeps ==
    ASSUME CommandsInv, ArmPending
    PROVE  CommandsInv'
<1>1. /\ pc = "arm" /\ pc' = "wait" /\ UNCHANGED <<commands, toVis, assembled, overlong, delivered>>
      /\ read' = read \/ (read.is = "none" /\ read'.is = "pending")
    BY NoReadIs DEF ArmPending, remoteVars
<1>2. CASE read' = read
    BY <1>1, <1>2, CommandsQuiet DEF readVars
<1>3. CASE read.is = "none" /\ read'.is = "pending"
    <2>1. CommandsInOrder /\ VisPipe /\ Absorbed(First, Off)
        BY <1>1, <1>3, NotDone DEF CommandsInv
    <2>2. First' = First /\ Off' = Off /\ Sent' = Sent
        BY <1>1 DEF First, Off, Sent
    <2>3. CommandsInOrder' /\ VisPipe' /\ Absorbed(First, Off)'
        BY <1>1, <2>1, <2>2 DEF CommandsInOrder, VisPipe, Absorbed
    <2>. QED BY <1>3, <2>3 DEF CommandsInv, ReadInv
<1>. QED BY <1>1, <1>2, <1>3

LEMMA ExitKeeps ==
    ASSUME PipeIInv, pc # "write", Exit
    PROVE  PipeIInv'
<1>1. /\ pc' = "gone" /\ read' = NoRead /\ toRemote' = <<>> /\ toVis' = <<>>
      /\ UNCHANGED <<remote, hangs, commands, shutdown, assembled, overlong, delivered>>
      /\ UNCHANGED <<recent, news, outQueue, pending, received>>
    BY DEF Exit, remoteVars, newsVars, listenVars
<1>2. PipeData'
    <2>1. PipeTypeOK'
        BY <1>1, NoReadIs DEF PipeIInv, PipeData, PipeTypeOK
    <2>2. toVis' \in Seq(Seq(Unit)) /\ toRemote' \in Seq(Seq(Unit))
        BY <1>1
    <2>. QED BY <1>1, <2>1, <2>2, NoReadIs DEF PipeIInv, PipeData
<1>3. CommandsInv'
    BY <1>1, CommandsEnd DEF PipeIInv
<1>4. NewsInv'
    BY <1>1, NewsEnd DEF PipeIInv
<1>. QED BY <1>2, <1>3, <1>4 DEF PipeIInv

LEMMA PipeSteps ==
    ASSUME PipeIInv, PipeNext
    PROVE  PipeIInv'
<1>. USE DEF PipeIInv
<1>1. ASSUME NEW size \in Sizes, RemoteSends(size) PROVE PipeIInv'
    <2>1. /\ pc # "gone" /\ UNCHANGED <<remote, hangs, toRemote, shutdown, pc, recent, news>>
          /\ UNCHANGED <<outQueue, pending, received, read, assembled, overlong, delivered>>
        BY <1>1 DEF RemoteSends, readVars, newsVars, listenVars
    <2>2. CommandsInv' /\ commands' \in Seq(Nat \ {0}) /\ toVis' \in Seq(Seq(Unit))
        BY <1>1, RemoteSendsKeeps
    <2>3. PipeData'
        BY <2>1, <2>2 DEF PipeData, PipeTypeOK
    <2>4. NewsInv'
        BY <2>1, NewsQuiet
    <2>. QED BY <2>2, <2>3, <2>4
<1>2. ASSUME RemoteReads PROVE PipeIInv'
    <2>1. /\ UNCHANGED <<remote, hangs, commands, toVis, shutdown, pc, recent, news, outQueue>>
          /\ UNCHANGED readVars
        BY <1>2 DEF RemoteReads, remoteVars, newsVars
    <2>2. /\ NewsInv' /\ toRemote' \in Pipes /\ received' \in Pipes
          /\ pending' \in Seq(Unit) /\ Len(pending') <= RCap
        BY <1>2, RemoteReadsKeeps
    <2>3. PipeData'
        BY <2>1, <2>2 DEF PipeData, PipeTypeOK, Pipes, readVars
    <2>4. CommandsInv'
        BY <2>1, CommandsQuiet
    <2>. QED BY <2>2, <2>3, <2>4
<1>3. ASSUME Closes PROVE PipeIInv'
    <2>1. /\ remote' = "closed" /\ toRemote' = <<>> /\ pending' = <<>>
          /\ UNCHANGED <<hangs, commands, toVis, shutdown, pc, recent, news, outQueue, received>>
          /\ UNCHANGED readVars
        BY <1>3 DEF Closes, newsVars
    <2>2. NewsInv'
        BY <1>3, ClosesKeeps
    <2>3. PipeTypeOK'
        BY <2>1, BufAssumption DEF PipeData, PipeTypeOK, readVars
    <2>4. toRemote' \in Seq(Seq(Unit)) /\ pending' \in Seq(Unit)
        BY <2>1
    <2>5. PipeData'
        BY <2>1, <2>3, <2>4 DEF PipeData, readVars
    <2>6. CommandsInv'
        BY <2>1, CommandsQuiet
    <2>. QED BY <2>2, <2>5, <2>6
<1>4. ASSUME NEW size \in NewsSizes, NEW force \in BOOLEAN, Tells(size, force) PROVE PipeIInv'
    <2>1. /\ UNCHANGED <<remote, hangs, commands, toVis, toRemote, shutdown, pc, pending, received>>
          /\ UNCHANGED readVars /\ recent' \in BOOLEAN
        <3>1. recent' \in BOOLEAN
            BY <1>4 DEF Tells
        <3>. QED BY <1>4, <3>1 DEF Tells, remoteVars, listenVars
    <2>2. /\ NewsInv' /\ outQueue' \in Seq(Nat \ {0})
          /\ news' \in Seq([size : NewsSizes, force : BOOLEAN, sent : BOOLEAN])
          /\ \A k \in DOMAIN outQueue' : outQueue'[k] \in DOMAIN news'
        BY <1>4, TellsKeeps
    <2>3. PipeData'
        BY <2>1, <2>2 DEF PipeData, PipeTypeOK, readVars
    <2>4. CommandsInv'
        BY <2>1, CommandsQuiet
    <2>. QED BY <2>2, <2>3, <2>4
<1>5. ASSUME Hangs \/ Resumes \/ Stop \/ TimePasses \/ Drained PROVE PipeIInv'
    <2>1. /\ UNCHANGED <<commands, toVis, toRemote, news, outQueue, pending, received>>
          /\ UNCHANGED <<read, assembled, overlong, delivered>>
        BY <1>5 DEF Hangs, Resumes, Stop, TimePasses, Drained, remoteVars, newsVars, listenVars, readVars
    <2>2. /\ pc' = pc \/ (pc = "drain" /\ pc' = "arm")
          /\ remote' = remote \/ {remote, remote'} = {"live", "hung"}
          /\ shutdown' = shutdown \/ shutdown' = TRUE
          /\ recent' = recent \/ recent' = FALSE
        BY <1>5 DEF Hangs, Resumes, Stop, TimePasses, Drained, remoteVars, newsVars
    <2>3. hangs' \in 0 .. MaxHangs
        <3>1. hangs \in 0 .. MaxHangs /\ MaxHangs \in Nat
            BY BoundsAssumption DEF PipeData, PipeTypeOK
        <3>. QED BY <1>5, <3>1 DEF Hangs, Resumes, Stop, TimePasses, Drained, remoteVars
    <2>4. PipeTypeOK'
        <3>1. PipeTypeOK
            BY DEF PipeData
        <3>2. shutdown' \in BOOLEAN /\ recent' \in BOOLEAN
            BY <2>2, <3>1 DEF PipeTypeOK
        <3>3. remote' \in {"live", "hung", "closed"} /\ pc' \in {"arm", "wait", "drain", "write", "gone"}
            BY <2>2, <3>1 DEF PipeTypeOK
        <3>. QED BY <2>1, <2>3, <3>1, <3>2, <3>3 DEF PipeTypeOK
    <2>5. PipeData'
        BY <2>1, <2>4 DEF PipeData
    <2>6. CommandsInv'
        BY <2>1, <2>2, CommandsQuiet DEF readVars
    <2>7. NewsInv'
        BY <2>1, <2>2, NewsQuiet
    <2>. QED BY <2>5, <2>6, <2>7
<1>6. ASSUME ReadCompletes PROVE PipeIInv'
    <2>1. /\ UNCHANGED <<remote, hangs, commands, toRemote, shutdown, pc, recent, news>>
          /\ UNCHANGED <<outQueue, pending, received, assembled, overlong, delivered>>
        BY <1>6 DEF ReadCompletes, remoteVars, newsVars, listenVars
    <2>2. CASE pc # "gone"
        <3>1. /\ CommandsInv' /\ toVis' \in Pipes
              /\ read' \in [is : {"none", "pending", "done"}, units : Seq(Unit), more : BOOLEAN]
              /\ Len(read'.units) <= Buf
            BY <1>6, <2>2, ReadCompletesKeeps
        <3>2. PipeData'
            BY <2>1, <3>1 DEF PipeData, PipeTypeOK, Pipes
        <3>3. NewsInv'
            BY <2>1, NewsQuiet
        <3>. QED BY <3>1, <3>2, <3>3
    <2>3. CASE pc = "gone"
        <3>1. toVis # <<>> /\ toVis \in Pipes /\ Buf \in Nat \ {0}
            BY <1>6, BufAssumption DEF ReadCompletes, PipeData, Pipes
        <3>2. /\ toVis' \in Pipes /\ Chunk(toVis, Buf) \in Seq(Unit) /\ Len(Chunk(toVis, Buf)) <= Buf
            BY <1>6, <3>1, RestOfPipe DEF ReadCompletes
        <3>3. /\ read' \in [is : {"none", "pending", "done"}, units : Seq(Unit), more : BOOLEAN]
              /\ Len(read'.units) <= Buf
            BY <1>6, <3>2 DEF ReadCompletes, More
        <3>4. PipeData'
            BY <2>1, <3>2, <3>3 DEF PipeData, PipeTypeOK, Pipes
        <3>5. CommandsInv'
            BY <2>1, <2>3, CommandsEnd
        <3>6. NewsInv'
            BY <2>1, NewsQuiet
        <3>. QED BY <3>4, <3>5, <3>6
    <2>. QED BY <2>2, <2>3
<1>7. ASSUME ArmPending PROVE PipeIInv'
    <2>1. /\ UNCHANGED <<remote, hangs, commands, toVis, toRemote, shutdown, recent, news>>
          /\ UNCHANGED <<outQueue, pending, received, assembled, overlong, delivered>>
          /\ pc = "arm" /\ pc' = "wait" /\ read' \in {read, Idle}
        BY <1>7 DEF ArmPending, remoteVars, newsVars, listenVars
    <2>2. CommandsInv'
        BY <1>7, ArmPendingKeeps
    <2>3. /\ read' \in [is : {"none", "pending", "done"}, units : Seq(Unit), more : BOOLEAN]
          /\ Len(read'.units) <= Buf
        BY <2>1, NoReadIs DEF PipeData, PipeTypeOK
    <2>4. PipeData'
        BY <2>1, <2>3 DEF PipeData, PipeTypeOK
    <2>5. NewsInv'
        BY <2>1, NewsQuiet
    <2>. QED BY <2>2, <2>4, <2>5
<1>8. ASSUME ArmReads PROVE PipeIInv'
    <2>1. /\ UNCHANGED <<remote, hangs, commands, toRemote, shutdown, recent, news>>
          /\ UNCHANGED <<outQueue, pending, received, read>>
          /\ pc = "arm" /\ pc' = "wait"
        BY <1>8 DEF ArmReads, remoteVars, newsVars, listenVars
    <2>2. /\ CommandsInv' /\ toVis' \in Pipes
          /\ delivered' \in Seq(Seq(Unit)) /\ assembled' \in Seq(Unit)
          /\ overlong' \in BOOLEAN /\ Len(assembled') <= Cap
        BY <1>8, ArmReadsKeeps
    <2>3. PipeData'
        BY <2>1, <2>2 DEF PipeData, PipeTypeOK, Pipes
    <2>4. NewsInv'
        BY <2>1, NewsQuiet
    <2>. QED BY <2>2, <2>3, <2>4
<1>9. ASSUME WaitReturns PROVE PipeIInv'
    <2>1. /\ UNCHANGED <<remote, hangs, commands, toVis, toRemote, shutdown, recent, news>>
          /\ UNCHANGED <<outQueue, pending, received>>
          /\ pc = "wait" /\ pc' = "drain"
        BY <1>9 DEF WaitReturns, remoteVars, newsVars, listenVars
    <2>2. /\ CommandsInv'
          /\ read' \in [is : {"none", "pending", "done"}, units : Seq(Unit), more : BOOLEAN]
          /\ Len(read'.units) <= Buf
          /\ delivered' \in Seq(Seq(Unit)) /\ assembled' \in Seq(Unit)
          /\ overlong' \in BOOLEAN /\ Len(assembled') <= Cap
        BY <1>9, WaitReturnsKeeps
    <2>3. PipeData'
        BY <2>1, <2>2 DEF PipeData, PipeTypeOK
    <2>4. NewsInv'
        BY <2>1, NewsQuiet
    <2>. QED BY <2>2, <2>3, <2>4
<1>10. ASSUME ArmStopped \/ ArmBreaks \/ WaitStopped \/ WaitBreaks PROVE PipeIInv'
    <2>1. pc # "write" /\ Exit
        BY <1>10 DEF ArmStopped, ArmBreaks, WaitStopped, WaitBreaks
    <2>. QED BY <2>1, ExitKeeps
<1>11. ASSUME WriteBegins PROVE PipeIInv'
    <2>1. /\ UNCHANGED <<remote, hangs, commands, toVis, shutdown, recent, news>>
          /\ UNCHANGED <<outQueue, pending, received>> /\ UNCHANGED readVars
          /\ pc = "drain" /\ pc' = "write"
        BY <1>11 DEF WriteBegins, remoteVars, newsVars, listenVars
    <2>2. NewsInv' /\ toRemote' \in Pipes
        BY <1>11, WriteBeginsKeeps
    <2>3. PipeData'
        BY <2>1, <2>2 DEF PipeData, PipeTypeOK, Pipes, readVars
    <2>4. CommandsInv'
        BY <2>1, CommandsQuiet
    <2>. QED BY <2>2, <2>3, <2>4
<1>12. ASSUME WriteFails \/ WriteEnds PROVE PipeIInv'
    <2>1. /\ UNCHANGED <<remote, hangs, commands, toVis, toRemote, shutdown, recent, news>>
          /\ UNCHANGED <<pending, received>> /\ UNCHANGED readVars
          /\ pc \in {"drain", "write"} /\ pc' \in {"arm", "drain"} /\ outQueue' = Tail(outQueue)
        BY <1>12 DEF WriteFails, WriteEnds, remoteVars, newsVars, listenVars
    <2>2. outQueue # <<>>
        BY <1>12 DEF WriteFails, WriteEnds, NewsInv, UnwrittenInv
    <2>3. NewsInv'
        BY <1>12, WriteFailsKeeps, WriteEndsKeeps
    <2>4. /\ outQueue' \in Seq(Nat \ {0})
          /\ \A k \in DOMAIN outQueue' : outQueue'[k] \in DOMAIN news'
        <3>1. \A k \in DOMAIN outQueue : outQueue[k] \in DOMAIN news
            BY DEF PipeData, PipeTypeOK
        <3>. QED BY <2>1, <2>2, <3>1, QueueRest
    <2>5. PipeData'
        BY <2>1, <2>4 DEF PipeData, PipeTypeOK, readVars
    <2>6. CommandsInv'
        BY <2>1, CommandsQuiet
    <2>. QED BY <2>3, <2>5, <2>6
<1>. QED BY <1>1, <1>2, <1>3, <1>4, <1>5, <1>6, <1>7, <1>8, <1>9, <1>10, <1>11, <1>12
         DEF PipeNext, HandlerStep

LEMMA PipeStutters ==
    ASSUME PipeIInv, UNCHANGED pipeVars
    PROVE  PipeIInv'
<1>1. /\ UNCHANGED <<remote, hangs, commands, toVis, toRemote, shutdown, pc, recent, news>>
      /\ UNCHANGED <<outQueue, pending, received, read, assembled, overlong, delivered>>
    BY DEF pipeVars, remoteVars, readVars, newsVars, listenVars
<1>2. PipeData'
    BY <1>1 DEF PipeIInv, PipeData, PipeTypeOK
<1>3. CommandsInv'
    BY <1>1, CommandsQuiet DEF PipeIInv, readVars
<1>4. NewsInv'
    BY <1>1, NewsQuiet DEF PipeIInv
<1>. QED BY <1>2, <1>3, <1>4 DEF PipeIInv

\* The invariant of one connection: what is in the pipes, what a read has got and what is
\* assembled are the consecutive pieces of messages that were sent, and what is queued, written
\* and received are the messages that were taken, in their order (pipe_server.cpp:463-576).
THEOREM PipeInvariants == PipeSpec => []PipeIInv
<1>1. PipeIInv /\ [PipeNext]_pipeVars => PipeIInv'
    BY PipeSteps, PipeStutters
<1>. QED BY <1>1, PipeStarts, PTL DEF PipeSpec

\* However the two ends' reads, writes, hangs and closings interleave, the window is given the
\* Remote's messages, and the Remote the visualizer's, each whole, in the order they were sent,
\* none twice and none skipped before one that came; and neither end keeps more than its cap.
THEOREM MessagesArriveWhole == PipeSpec => []MessagesWhole
<1>1. PipeIInv => MessagesWhole
    BY DEF PipeIInv, PipeData, CommandsInv, NewsInv, MessagesWhole
<1>. QED BY <1>1, PipeInvariants, PTL
=============================================================================
