---------------------------- MODULE AudioCapture ----------------------------
(***************************************************************************)
(* The audio capture (MilkwaveVisualizer.cpp, loopback-capture.cpp).  The  *)
(* main thread starts a capture thread for the chosen device and waits for *)
(* the render thread to end or for another device to be asked for, by a    *)
(* state it polls.  A change of device is a call of the same function from *)
(* within itself, and when that fails, a second one with the device before *)
(* it; when the outermost call returns the process ends.                   *)
(*                                                                         *)
(* A device is a name and a direction, and the same name may be that of an *)
(* input and of an output.  A request may ask for a direction: it is kept  *)
(* apart from the name, and outlives the device it came with.  Devices     *)
(* come and go, and one that is there may be in exclusive use.             *)
(***************************************************************************)
EXTENDS Naturals, Sequences

CONSTANTS Inputs,      \* the names of the capture endpoints
          Outputs,     \* the names of the render endpoints
          NoName,      \* no device: the empty name, or one that is half written
          MaxRequests, \* bound on the requests for another device
          MaxPlugs     \* bound on the devices plugged in and out

ASSUME NameAssumption == NoName \notin Inputs \cup Outputs
ASSUME CaptureBoundsAssumption == MaxRequests \in Nat /\ MaxPlugs \in Nat

VARIABLES
    present,     \* the devices that are there
    render,      \* threadRender # nullptr
    writing,     \* the render thread's request being written, Nothing for none
    state,       \* m_nAudioLoopState: 0 running, 1 asked for another, 2 restarting
    device,      \* m_szAudioDevice
    requestType, \* m_nAudioDeviceRequestType: 0 either direction, 1 input, 2 output
    previous,    \* m_szAudioDevicePrevious and m_nAudioDevicePreviousType
    display,     \* m_szAudioDeviceDisplayName and m_nAudioDeviceActiveType
    main,        \* where StartAudioCaptureThread is
    frames,      \* the calls it was made from, the innermost last
    result,      \* what it returns
    capture,     \* the capture thread, its device, its events and its HRESULT
    requests, plugs,
    opened,      \* history: the name the last capture that came to run was opened with
    worked,      \* history: the device it captures
    asks,        \* history: requests since then
    late,        \* history: there was one since this device was opened
    trouble,     \* history: captures in a row that failed
    raced        \* history: a request came while a restart was waiting for the old capture

audioVars == <<state, device, requestType, previous, display, main, frames, result, capture>>
historyVars == <<opened, worked, asks, late, trouble, raced>>
captureVars == <<present, render, writing, audioVars, requests, plugs, historyVars>>

Input(n) == [name |-> n, type |-> 1]
Output(n) == [name |-> n, type |-> 2]
Devices == {Input(n) : n \in Inputs} \cup {Output(n) : n \in Outputs}
Names == Inputs \cup Outputs \cup {NoName}
Shown == [name : Names, type : 1 .. 2]
Nothing == [name |-> NoName, type |-> 3]
Writings == [name : Names, type : 0 .. 2] \cup {Nothing}
Captures == [thread : {"none", "starting", "running", "ended"}, device : Shown,
             opened : Names, started : BOOLEAN, stop : BOOLEAN, ok : BOOLEAN]
Nowhere == [thread |-> "none", device |-> Output(NoName), opened |-> NoName,
            started |-> FALSE, stop |-> FALSE, ok |-> FALSE]

CaptureTypeOK ==
    /\ present \subseteq Devices /\ render \in BOOLEAN /\ writing \in Writings
    /\ state \in 0 .. 2
    /\ device \in Names /\ requestType \in 0 .. 2
    /\ previous \in Shown /\ display \in Shown
    /\ main \in {"opening", "waiting", "looping", "joining", "joined", "returning", "ended"}
    /\ frames \in Seq({"change", "again"}) /\ Len(frames) <= MaxRequests
    /\ result \in {"failed", "done", "lost"}
    /\ capture \in Captures
    /\ requests \in 0 .. MaxRequests /\ plugs \in 0 .. MaxPlugs
    /\ opened \in Names /\ worked \in Shown /\ asks \in 0 .. MaxRequests
    /\ late \in BOOLEAN /\ trouble \in Nat /\ raced \in BOOLEAN

CaptureInit ==
    /\ present \in SUBSET Devices /\ render = TRUE /\ writing = Nothing
    /\ state = 0 /\ device \in Names /\ requestType \in 0 .. 2
    /\ previous = Output(NoName) /\ display = Output(NoName)
    /\ main = "opening" /\ frames = <<>> /\ result = "done" /\ capture = Nowhere
    /\ requests = 0 /\ plugs = 0
    /\ opened = NoName /\ worked = Output(NoName) /\ asks = 0 /\ late = FALSE /\ trouble = 0 /\ raced = FALSE

-----------------------------------------------------------------------------
(***************************************************************************)
(* The system: devices, and the thread of the window.                      *)
(***************************************************************************)
Plug(d) ==
    /\ plugs < MaxPlugs /\ main # "ended" /\ plugs' = plugs + 1
    /\ present' = IF d \in present THEN present \ {d} ELSE present \cup {d}
    /\ UNCHANGED <<render, writing, audioVars, requests, historyVars>>

askRest == <<present, render, state, display, main, frames, result, capture, plugs,
             opened, worked, trouble, raced>>

\* Mutant: the device before is not kept.
AskForgets(n, t) ==
    /\ render /\ writing = Nothing /\ main # "ended"
    /\ requests < MaxRequests /\ requests' = requests + 1
    /\ writing' = [name |-> n, type |-> t]
    /\ device' = NoName
    /\ asks' = asks + 1 /\ late' = TRUE
    /\ UNCHANGED <<askRest, previous>>

(***************************************************************************)
(* The device before is kept with the direction on display, and the name   *)
(* is written while the main thread may read it.                           *)
(***************************************************************************)
Ask(n, t) ==
    /\ render /\ writing = Nothing /\ main # "ended"
    /\ requests < MaxRequests /\ requests' = requests + 1
    /\ writing' = [name |-> n, type |-> t]
    /\ previous' = [name |-> device, type |-> display.type] /\ device' = NoName
    /\ asks' = asks + 1 /\ late' = TRUE
    /\ UNCHANGED askRest

\* DEVICE=, with IN|, OUT| or neither.
Request(n, t) == Ask(n, t) /\ requestType' = t

\* Ctrl+D: the name of the default output, or none.
RequestDefault ==
    /\ \E n \in Outputs \cup {NoName} :
           /\ IF n = NoName THEN \A d \in present : d.type = 1 ELSE Output(n) \in present
           /\ Ask(n, 2)
    /\ UNCHANGED requestType

\* Without a direction, an output is shown.
ShownAs(w) == [name |-> w.name, type |-> IF w.type = 1 THEN 1 ELSE 2]

Requested ==
    /\ writing # Nothing /\ main # "ended"
    /\ writing' = Nothing
    /\ device' = writing.name /\ display' = ShownAs(writing) /\ requestType' = writing.type
    /\ state' = 1
    /\ raced' = (raced \/ (main \in {"joining", "joined"} /\ state = 2))
    /\ UNCHANGED <<present, render, previous, main, frames, result, capture, requests, plugs,
                   opened, worked, asks, late, trouble>>

\* The window is closed.
RenderEnds ==
    /\ render /\ writing = Nothing /\ main # "ended"
    /\ render' = FALSE
    /\ UNCHANGED <<present, writing, audioVars, requests, plugs, historyVars>>

-----------------------------------------------------------------------------
(***************************************************************************)
(* The capture thread.                                                     *)
(***************************************************************************)
captureRest == <<present, render, writing, state, device, requestType, previous, display, main,
                 frames, result, requests, plugs, opened, worked, asks, late, raced>>

Ended(ok) == [capture EXCEPT !.thread = "ended", !.ok = ok]

CaptureStarts ==
    /\ capture.thread = "starting" /\ capture.device \in present
    /\ capture' = [capture EXCEPT !.thread = "running", !.started = TRUE]
    /\ UNCHANGED <<captureRest, trouble>>

CaptureAborts ==
    /\ capture.thread = "starting"
    /\ capture' = Ended(FALSE) /\ trouble' = trouble + 1
    /\ UNCHANGED captureRest

\* A buffer cannot be read, after the last retry.
CaptureDies ==
    /\ capture.thread = "running"
    /\ capture' = Ended(FALSE) /\ trouble' = trouble + 1
    /\ UNCHANGED captureRest

CaptureStops ==
    /\ capture.thread = "running" /\ capture.stop
    /\ capture' = Ended(TRUE) /\ trouble' = 0
    /\ UNCHANGED captureRest

-----------------------------------------------------------------------------
(***************************************************************************)
(* StartAudioCaptureThread.                                                *)
(***************************************************************************)
mainRest == <<present, render, writing, requestType, requests, plugs>>

(***************************************************************************)
(* The device that is found: the input of that name or else the output, as *)
(* far as the direction that is asked for allows, or else whichever output *)
(* is the default.                                                         *)
(***************************************************************************)
AsInput == requestType # 2 /\ Input(device) \in present
AsOutput == requestType # 1 /\ Output(device) \in present
Found(d) ==
    \/ AsInput /\ d = Input(device)
    \/ ~AsInput /\ AsOutput /\ d = Output(device)
    \/ ~AsInput /\ ~AsOutput /\ d.type = 2

\* Mutant: the name on display stays the one asked for.
OpenQuietly ==
    /\ main = "opening"
    /\ \E d \in present :
           /\ Found(d)
           /\ capture' = [Nowhere EXCEPT !.thread = "starting", !.device = d, !.opened = device]
    /\ main' = "waiting" /\ late' = (writing # Nothing)
    /\ UNCHANGED <<mainRest, state, device, previous, display, frames, result, opened, worked, asks, trouble, raced>>

(***************************************************************************)
(* CPrefs finds the device by its name, or takes the default one; then the *)
(* thread is created.                                                      *)
(***************************************************************************)
Open ==
    /\ main = "opening"
    /\ \E d \in present :
           /\ Found(d)
           /\ capture' = [Nowhere EXCEPT !.thread = "starting", !.device = d, !.opened = device]
           /\ display' = d
    /\ main' = "waiting" /\ late' = (writing # Nothing)
    /\ UNCHANGED <<mainRest, state, device, previous, frames, result, opened, worked, asks, trouble, raced>>

\* The name is not found, and there is no default output.
OpenFails ==
    /\ main = "opening" /\ ~\E d \in present : Found(d)
    /\ main' = "returning" /\ result' = "failed" /\ trouble' = trouble + 1
    /\ UNCHANGED <<mainRest, state, device, previous, display, frames, capture, opened, worked, asks, late, raced>>

Running ==
    /\ main = "waiting" /\ capture.started
    /\ main' = "looping" /\ state' = 0
    /\ opened' = capture.opened /\ worked' = capture.device /\ asks' = IF late THEN asks ELSE 0
    /\ UNCHANGED <<mainRest, device, previous, display, frames, result, capture, late, trouble, raced>>

Aborted ==
    /\ main = "waiting" /\ capture.thread = "ended" /\ ~capture.started
    /\ main' = "returning" /\ result' = "failed"
    /\ UNCHANGED <<mainRest, state, device, previous, display, frames, capture, historyVars>>

\* Mutant: the capture is joined and not told to stop.
StopUntold ==
    /\ main = "looping" /\ (~render \/ state = 1)
    /\ state' = IF render THEN 2 ELSE state
    /\ main' = "joining"
    /\ UNCHANGED <<mainRest, device, previous, display, frames, result, capture, historyVars>>

(***************************************************************************)
(* The loop: the render thread has ended, or another device is asked for.  *)
(* Leaving it tells the capture to stop, and waits for it.                 *)
(***************************************************************************)
Stop ==
    /\ main = "looping" /\ (~render \/ state = 1)
    /\ state' = IF render THEN 2 ELSE state
    /\ capture' = [capture EXCEPT !.stop = TRUE]
    /\ main' = "joining"
    /\ UNCHANGED <<mainRest, device, previous, display, frames, result, historyVars>>

Join ==
    /\ main = "joining" /\ capture.thread = "ended"
    /\ main' = "joined"
    /\ UNCHANGED <<mainRest, state, device, previous, display, frames, result, capture, historyVars>>

\* The capture had failed: an inner call leaves the restart to its caller.
Lost == ~capture.ok /\ frames # <<>>

Restart ==
    /\ main = "joined" /\ ~Lost /\ state = 2
    /\ frames' = Append(frames, "change") /\ main' = "opening"
    /\ UNCHANGED <<mainRest, state, device, previous, display, result, capture, historyVars>>

\* Mutant: a capture that failed is as good as one that was stopped.
LeaveDone ==
    /\ main = "joined" /\ (Lost \/ state # 2)
    /\ main' = "returning" /\ result' = "done"
    /\ UNCHANGED <<mainRest, state, device, previous, display, frames, capture, historyVars>>

Leave ==
    /\ main = "joined" /\ (Lost \/ state # 2)
    /\ main' = "returning" /\ result' = IF Lost THEN "lost" ELSE "done"
    /\ UNCHANGED <<mainRest, state, device, previous, display, frames, capture, historyVars>>

Last == Len(frames)

(***************************************************************************)
(* A change that did not come to run is undone, and tried a second time.   *)
(* The name and what is shown go back; the direction asked for stays.      *)
(***************************************************************************)
TryAgain ==
    /\ main = "returning" /\ frames # <<>> /\ frames[Last] = "change" /\ result # "done"
    /\ IF result = "failed" THEN device' = previous.name /\ display' = previous
       ELSE UNCHANGED <<device, display>>
    /\ frames' = [frames EXCEPT ![Last] = "again"] /\ main' = "opening"
    /\ UNCHANGED <<mainRest, state, previous, result, capture, historyVars>>

\* The second call's result is not looked at.
Return ==
    /\ main = "returning" /\ frames # <<>> /\ (frames[Last] = "again" \/ result = "done")
    /\ frames' = SubSeq(frames, 1, Last - 1) /\ result' = "done"
    /\ UNCHANGED <<mainRest, state, device, previous, display, main, capture, historyVars>>

\* StartThreads and WinMain return.
End ==
    /\ main = "returning" /\ frames = <<>>
    /\ main' = "ended"
    /\ UNCHANGED <<mainRest, state, device, previous, display, frames, result, capture, historyVars>>

Main == \/ Open \/ OpenFails \/ Running \/ Aborted \/ Stop \/ Join
        \/ Restart \/ Leave \/ TryAgain \/ Return \/ End

Capture == CaptureStarts \/ CaptureAborts \/ CaptureStops

CaptureNext ==
    \/ Main \/ Capture \/ CaptureDies
    \/ \E d \in Devices : Plug(d)
    \/ \E n \in Inputs \cup Outputs, t \in 0 .. 2 : Request(n, t)
    \/ RequestDefault \/ Requested \/ RenderEnds

CaptureSpec == CaptureInit /\ [][CaptureNext]_captureVars

\* The threads are scheduled; a capture starts or fails, and one told to stop sees it.
FairSpec == CaptureSpec /\ WF_captureVars(Main) /\ WF_captureVars(Capture) /\ WF_captureVars(Requested)

-----------------------------------------------------------------------------
(***************************************************************************)
(* A change of device does not end the visualizer, even if the new device  *)
(* fails or the old one had: it takes two failures in a row, a request     *)
(* that comes while the old capture is waited for, or a start without any  *)
(* device that works.                                                      *)
(***************************************************************************)
StaysUp == main = "ended" /\ render => trouble >= 2 \/ raced \/ result = "failed"

(***************************************************************************)
(* Once it runs, what is captured is what the display says, the name and   *)
(* the direction, opened by the name that is asked for, whatever was       *)
(* reverted before; unless a request came while it was starting.           *)
(***************************************************************************)
UsesWhatItShows ==
    /\ CaptureTypeOK
    /\ main = "looping" /\ state = 0 /\ ~late /\ writing = Nothing
           => display = capture.device /\ device = capture.opened

\* The second call, after a change that failed and was the only request since a capture ran.
Reverting ==
    /\ frames # <<>> /\ frames[Last] = "again" /\ result = "failed"
    /\ asks = 1 /\ opened # NoName

(***************************************************************************)
(* What ran is there, by the name it was opened with, and in the direction *)
(* the request that failed has asked for: that one is not undone.  After a *)
(* request for either direction, an input of the same name would come      *)
(* first.                                                                  *)
(***************************************************************************)
StillFound ==
    /\ worked \in present /\ worked.name = opened
    /\ \/ requestType = worked.type
       \/ requestType = 0 /\ (worked.type = 1 \/ Input(opened) \notin present)

(***************************************************************************)
(* A device that fails is given up for the name that ran before it, if     *)
(* that had a name and only one was asked for since; and the device that   *)
(* ran is captured again, unless it is gone or the request asked for the   *)
(* other direction.                                                        *)
(***************************************************************************)
RevertsToWorked ==
    [][/\ TryAgain /\ result = "failed" /\ asks = 1 /\ opened # NoName => device' = opened
       /\ Open /\ Reverting /\ StillFound => capture'.device = worked]_captureVars

(***************************************************************************)
(* A request that the loop sees restarts the capture, or the process ends: *)
(* the thread that is stopped and the one that starts never wait for each  *)
(* other.                                                                  *)
(***************************************************************************)
RestartFollows == main = "looping" /\ state = 1 ~> main \in {"waiting", "ended"}

\* When the window is closed, every call returns and the process ends.
CloseEnds == ~render ~> main = "ended"

\* No call waits for ever.
CallsEnd == RestartFollows /\ CloseEnds
=============================================================================
