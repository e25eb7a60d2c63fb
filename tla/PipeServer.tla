----------------------------- MODULE PipeServer -----------------------------
(***************************************************************************)
(* The life of a pipe connection in the visualizer (pipe_server.cpp): the  *)
(* accept thread with its pool of listeners, one handler thread and one    *)
(* heap context per client, the threads that call Send, and the render     *)
(* thread that starts and stops the server, more than once when Explorer   *)
(* destroys the desktop host window.                                       *)
(*                                                                         *)
(* A critical section that cannot block is one action, enabled while       *)
(* m_clientsMutex is free; Send keeps the mutex over several steps because *)
(* it waits for each client's outMutex under it.  What travels through a   *)
(* pipe is left out: a message only counts.                                *)
(***************************************************************************)
EXTENDS Integers, FiniteSets

CONSTANTS
    Ctx,                  \* contexts, one for every connection ever made
    Listeners,            \* the pool (kListeners = 16)
    NoCtx,                \* no context
    MaxStarts,            \* bound: calls of Start
    MaxSends,             \* bound: calls of Send
    SpawnMayFail,         \* _beginthreadex may fail for a handler
    AcceptJoinMayTimeOut  \* the accept thread may outlast Stop's 5 s wait

ASSUME NoCtxAssumption == NoCtx \notin Ctx
ASSUME BoundsAssumption == MaxStarts \in Nat /\ MaxSends \in Nat
ASSUME FailureAssumption == SpawnMayFail \in BOOLEAN /\ AcceptJoinMayTimeOut \in BOOLEAN

VARIABLES
    \* PipeServer's members
    running, shutdown, connected,   \* m_bRunning, m_bShutdown, m_bClientConnected
    shutdownEvent,                  \* m_hShutdownEvent: "none", "clear" or "set"
    clients, finished,              \* m_clients, m_finishedClients
    \* PipeClientContext's members
    live, freed,                    \* contexts allocated, contexts deleted
    pipeOpen, outEventOpen,         \* hPipe and hOutEvent are open handles
    hasThread,                      \* hThread is set
    outQueue, outMutex,             \* queue length, and who holds the mutex
    \* the threads
    handlerPc,                      \* handler of each context
    acceptPc, current, done, still, \* ServerLoop's and SweepFinished's locals
    listener,                       \* state of each listener
    stopPc, active, stopFinished,   \* Stop's locals
    sendPc, sendTodo,               \* Send's loop; sendPc = "locked" holds m_clientsMutex
    leaked,                         \* history: contexts Stop gave up on
    starts, sends                   \* counted against the bounds

flagVars    == <<running, shutdown, connected, shutdownEvent>>
listVars    == <<clients, finished>>
ctxVars     == <<live, freed, pipeOpen, outEventOpen, hasThread>>
queueVars   == <<outQueue, outMutex>>
acceptVars  == <<acceptPc, current, done, still, listener>>
stopVars    == <<stopPc, active, stopFinished, leaked, starts>>
sendVars    == <<sendPc, sendTodo, sends>>
vars == <<flagVars, listVars, ctxVars, queueVars, handlerPc, acceptVars, stopVars, sendVars>>

\* Where a handler may still dereference its context.
InsideContext == {"loop", "awake", "drain", "leaving"}

TypeOK ==
    /\ running \in BOOLEAN /\ shutdown \in BOOLEAN /\ connected \in BOOLEAN
    /\ shutdownEvent \in {"none", "clear", "set"}
    /\ clients \subseteq Ctx /\ finished \subseteq Ctx
    /\ live \subseteq Ctx /\ freed \subseteq Ctx
    /\ pipeOpen \subseteq Ctx /\ outEventOpen \subseteq Ctx /\ hasThread \subseteq Ctx
    /\ outQueue \in [Ctx -> Nat]
    /\ outMutex \in [Ctx -> {"free", "handler"}]
    /\ handlerPc \in [Ctx -> {"none", "returning", "exited"} \cup InsideContext]
    /\ acceptPc \in {"none", "arm", "top", "take", "sweep", "wait", "push", "spawn",
                     "assign", "log", "erase", "cleanup", "exited"}
    /\ current \in Ctx \cup {NoCtx}
    /\ done \subseteq Ctx /\ still \subseteq Ctx
    /\ listener \in [Listeners -> {"none", "pending", "connected"}]
    /\ stopPc \in {"idle", "event", "cancel", "joinAccept", "copy", "joinHandlers",
                   "swap", "free", "close"}
    /\ active \subseteq Ctx /\ stopFinished \subseteq Ctx /\ leaked \subseteq Ctx
    /\ sendPc \in {"idle", "locked"} /\ sendTodo \subseteq Ctx
    /\ starts \in 0..MaxStarts /\ sends \in 0..MaxSends

Init ==
    /\ running = FALSE /\ shutdown = FALSE /\ connected = FALSE
    /\ shutdownEvent = "none"
    /\ clients = {} /\ finished = {}
    /\ live = {} /\ freed = {} /\ pipeOpen = {} /\ outEventOpen = {} /\ hasThread = {}
    /\ outQueue = [c \in Ctx |-> 0]
    /\ outMutex = [c \in Ctx |-> "free"]
    /\ handlerPc = [c \in Ctx |-> "none"]
    /\ acceptPc = "none" /\ current = NoCtx /\ done = {} /\ still = {}
    /\ listener = [l \in Listeners |-> "none"]
    /\ stopPc = "idle" /\ active = {} /\ stopFinished = {} /\ leaked = {}
    /\ sendPc = "idle" /\ sendTodo = {}
    /\ starts = 0 /\ sends = 0

\* m_clientsMutex can be taken.
ClientsMutexFree == sendPc = "idle"

-----------------------------------------------------------------------------
(* The render thread: Start and Stop.                                      *)

\* Start: a new shutdown event and a new accept thread.
Start ==
    /\ stopPc = "idle" /\ ~running /\ starts < MaxStarts
    /\ acceptPc \in {"none", "exited"}
    /\ starts' = starts + 1
    /\ shutdown' = FALSE
    /\ shutdownEvent' = "clear"
    /\ running' = TRUE
    /\ acceptPc' = "arm"
    /\ UNCHANGED <<connected, listVars, ctxVars, queueVars, handlerPc, current, done,
                   still, listener, stopPc, active, stopFinished, leaked, sendVars>>

StopRaise ==
    /\ stopPc = "idle" /\ running
    /\ shutdown' = TRUE
    /\ stopPc' = "event"
    /\ UNCHANGED <<running, connected, shutdownEvent, listVars, ctxVars, queueVars,
                   handlerPc, acceptVars, active, stopFinished, leaked, starts, sendVars>>

StopSetEvent ==
    /\ stopPc = "event"
    /\ shutdownEvent' = "set"
    /\ stopPc' = "cancel"
    /\ UNCHANGED <<running, shutdown, connected, listVars, ctxVars, queueVars, handlerPc,
                   acceptVars, active, stopFinished, leaked, starts, sendVars>>

\* CancelIoEx and SetEvent on every listed client, under the clients lock.
StopCancel ==
    /\ stopPc = "cancel" /\ ClientsMutexFree
    /\ stopPc' = "joinAccept"
    /\ UNCHANGED <<flagVars, listVars, ctxVars, queueVars, handlerPc, acceptVars, active,
                   stopFinished, leaked, starts, sendVars>>

\* The result of the wait is not looked at.
StopJoinAccept ==
    /\ stopPc = "joinAccept"
    /\ acceptPc = "exited" \/ AcceptJoinMayTimeOut
    /\ stopPc' = "copy"
    /\ UNCHANGED <<flagVars, listVars, ctxVars, queueVars, handlerPc, acceptVars, active,
                   stopFinished, leaked, starts, sendVars>>

StopCopy ==
    /\ stopPc = "copy" /\ ClientsMutexFree
    /\ active' = clients
    /\ stopPc' = "joinHandlers"
    /\ UNCHANGED <<flagVars, listVars, ctxVars, queueVars, handlerPc, acceptVars,
                   stopFinished, leaked, starts, sendVars>>

\* One wait of the 3 s budget: it ends with the thread or with the budget, so
\* it is enabled whatever the thread does.
StopJoinHandler(c) ==
    /\ stopPc = "joinHandlers" /\ c \in active
    /\ active' = active \ {c}
    /\ UNCHANGED <<flagVars, listVars, ctxVars, queueVars, handlerPc, acceptVars, stopPc,
                   stopFinished, leaked, starts, sendVars>>

StopJoined ==
    /\ stopPc = "joinHandlers" /\ active = {}
    /\ stopPc' = "swap"
    /\ UNCHANGED <<flagVars, listVars, ctxVars, queueVars, handlerPc, acceptVars, active,
                   stopFinished, leaked, starts, sendVars>>

\* Mutant: the pipes of the handlers that never came back are closed.
StopSwapCloses ==
    /\ stopPc = "swap" /\ ClientsMutexFree
    /\ leaked' = leaked \cup clients
    /\ clients' = {}
    /\ pipeOpen' = pipeOpen \ clients
    /\ stopFinished' = finished
    /\ finished' = {}
    /\ stopPc' = "free"
    /\ UNCHANGED <<flagVars, live, freed, outEventOpen, hasThread, queueVars, handlerPc,
                   acceptVars, active, starts, sendVars>>

\* What is still listed belongs to a thread that never came back: leaked.
StopSwap ==
    /\ stopPc = "swap" /\ ClientsMutexFree
    /\ leaked' = leaked \cup clients
    /\ clients' = {}
    /\ stopFinished' = finished
    /\ finished' = {}
    /\ stopPc' = "free"
    /\ UNCHANGED <<flagVars, ctxVars, queueVars, handlerPc, acceptVars, active, starts,
                   sendVars>>

Delete(c) ==
    /\ freed' = freed \cup {c}
    /\ live' = live \ {c}
    /\ outEventOpen' = outEventOpen \ {c}
    /\ UNCHANGED <<pipeOpen, hasThread>>

\* Mutant: the result of the join is ignored.
JoinedOrNot(c) == TRUE

\* The join of a finished handler succeeded, or there was no thread to join.
Joined(c) == c \notin hasThread \/ handlerPc[c] = "exited"

StopFree(c) ==
    /\ stopPc = "free" /\ c \in stopFinished
    /\ stopFinished' = stopFinished \ {c}
    /\ \/ /\ Joined(c)
          /\ Delete(c)
          /\ UNCHANGED leaked
       \/ /\ c \in hasThread /\ handlerPc[c] # "exited"   \* the 1 s wait expired
          /\ leaked' = leaked \cup {c}
          /\ UNCHANGED ctxVars
    /\ UNCHANGED <<flagVars, listVars, queueVars, handlerPc, acceptVars, stopPc, active,
                   starts, sendVars>>

StopFreed ==
    /\ stopPc = "free" /\ stopFinished = {}
    /\ stopPc' = "close"
    /\ UNCHANGED <<flagVars, listVars, ctxVars, queueVars, handlerPc, acceptVars, active,
                   stopFinished, leaked, starts, sendVars>>

StopClose ==
    /\ stopPc = "close"
    /\ shutdownEvent' = "none"
    /\ running' = FALSE
    /\ connected' = FALSE
    /\ stopPc' = "idle"
    /\ UNCHANGED <<shutdown, listVars, ctxVars, queueVars, handlerPc, acceptVars, active,
                   stopFinished, leaked, starts, sendVars>>

StopStep ==
    \/ StopSetEvent \/ StopCancel \/ StopJoinAccept \/ StopCopy \/ StopJoined
    \/ StopSwap \/ StopFreed \/ StopClose
    \/ \E c \in Ctx : StopJoinHandler(c) \/ StopFree(c)

-----------------------------------------------------------------------------
(* Send, from whichever thread calls it.                                   *)

SendLock ==
    /\ sendPc = "idle" /\ ~shutdown /\ sends < MaxSends
    /\ sends' = sends + 1
    /\ sendPc' = "locked"
    /\ sendTodo' = clients
    /\ UNCHANGED <<flagVars, listVars, ctxVars, queueVars, handlerPc, acceptVars, stopVars>>

\* Blocks while the handler of c drains its queue.
SendOne(c) ==
    /\ sendPc = "locked" /\ c \in sendTodo
    /\ outMutex[c] = "free"
    /\ outQueue' = [outQueue EXCEPT ![c] = @ + 1]
    /\ sendTodo' = sendTodo \ {c}
    /\ UNCHANGED <<flagVars, listVars, ctxVars, outMutex, handlerPc, acceptVars, stopVars,
                   sendPc, sends>>

SendUnlock ==
    /\ sendPc = "locked" /\ sendTodo = {}
    /\ sendPc' = "idle"
    /\ UNCHANGED <<flagVars, listVars, ctxVars, queueVars, handlerPc, acceptVars, stopVars,
                   sendTodo, sends>>

-----------------------------------------------------------------------------
(* The accept thread: ServerLoop with SweepFinished.                       *)

\* What arming a listener can leave: nothing (no instance, or ConnectNamedPipe
\* failed), a pending connect, or a client that was there first.
Armed == {"none", "pending", "connected"}

AcceptArm ==
    /\ acceptPc = "arm"
    /\ listener' \in [Listeners -> Armed]
    /\ acceptPc' = "top"
    /\ UNCHANGED <<flagVars, listVars, ctxVars, queueVars, handlerPc, current, done, still,
                   stopVars, sendVars>>

AcceptTop ==
    /\ acceptPc = "top"
    /\ acceptPc' = IF shutdown THEN "cleanup" ELSE "take"
    /\ UNCHANGED <<flagVars, listVars, ctxVars, queueVars, handlerPc, current, done, still,
                   listener, stopVars, sendVars>>

SweepTake ==
    /\ acceptPc = "take" /\ ClientsMutexFree
    /\ done' = finished
    /\ finished' = {}
    /\ still' = {}
    /\ acceptPc' = "sweep"
    /\ UNCHANGED <<flagVars, clients, ctxVars, queueVars, handlerPc, current, listener,
                   stopVars, sendVars>>

\* The 100 ms join of one finished handler; a handler that has not returned
\* when it expires is kept for the next sweep.
SweepJoin(c) ==
    /\ acceptPc = "sweep" /\ c \in done
    /\ done' = done \ {c}
    /\ \/ /\ Joined(c)
          /\ Delete(c)
          /\ UNCHANGED still
       \/ /\ c \in hasThread /\ handlerPc[c] # "exited"
          /\ still' = still \cup {c}
          /\ UNCHANGED ctxVars
    /\ UNCHANGED <<flagVars, listVars, queueVars, handlerPc, acceptPc, current, listener,
                   stopVars, sendVars>>

\* Mutant: the handlers that were still running are not put back.
SweepPutForgets ==
    /\ acceptPc = "sweep" /\ done = {}
    /\ still' = {}
    /\ acceptPc' = "wait"
    /\ UNCHANGED <<flagVars, listVars, ctxVars, queueVars, handlerPc, current, done, listener,
                   stopVars, sendVars>>

SweepPut ==
    /\ acceptPc = "sweep" /\ done = {}
    /\ still = {} \/ ClientsMutexFree
    /\ finished' = finished \cup still
    /\ still' = {}
    /\ acceptPc' = "wait"
    /\ UNCHANGED <<flagVars, clients, ctxVars, queueVars, handlerPc, current, done, listener,
                   stopVars, sendVars>>

\* Nothing is armed: sleep a second, arm everything again.
AcceptBackOff ==
    /\ acceptPc = "wait" /\ \A l \in Listeners : listener[l] = "none"
    /\ listener' \in [Listeners -> Armed]
    /\ acceptPc' = "top"
    /\ UNCHANGED <<flagVars, listVars, ctxVars, queueVars, handlerPc, current, done, still,
                   stopVars, sendVars>>

AcceptStopped ==
    /\ acceptPc = "wait" /\ \E l \in Listeners : listener[l] # "none"
    /\ \/ shutdownEvent # "clear"
       \/ shutdown /\ \E l \in Listeners : listener[l] = "connected"
    /\ acceptPc' = "cleanup"
    /\ UNCHANGED <<flagVars, listVars, ctxVars, queueVars, handlerPc, current, done, still,
                   listener, stopVars, sendVars>>

\* The connection could not be collected: the listener is armed again.
AcceptLost(l) ==
    /\ acceptPc = "wait" /\ listener[l] = "connected" /\ ~shutdown
    /\ \E a \in Armed : listener' = [listener EXCEPT ![l] = a]
    /\ acceptPc' = "top"
    /\ UNCHANGED <<flagVars, listVars, ctxVars, queueVars, handlerPc, current, done, still,
                   stopVars, sendVars>>

\* The connection is taken, the slot armed again, the context built.
AcceptTakes(l, c) ==
    /\ acceptPc = "wait" /\ listener[l] = "connected" /\ ~shutdown
    /\ c \notin live \cup freed
    /\ \E a \in Armed : listener' = [listener EXCEPT ![l] = a]
    /\ live' = live \cup {c}
    /\ pipeOpen' = pipeOpen \cup {c}
    /\ outEventOpen' = outEventOpen \cup {c}
    /\ current' = c
    /\ acceptPc' = "push"
    /\ UNCHANGED <<flagVars, listVars, freed, hasThread, queueVars, handlerPc, done, still,
                   stopVars, sendVars>>

AcceptPush ==
    /\ acceptPc = "push" /\ ClientsMutexFree
    /\ clients' = clients \cup {current}
    /\ connected' = TRUE
    /\ acceptPc' = "spawn"
    /\ UNCHANGED <<running, shutdown, shutdownEvent, finished, ctxVars, queueVars, handlerPc,
                   current, done, still, listener, stopVars, sendVars>>

\* _beginthreadex: the handler runs before hThread is assigned.
AcceptSpawn ==
    /\ acceptPc = "spawn"
    /\ handlerPc' = [handlerPc EXCEPT ![current] = "loop"]
    /\ acceptPc' = "assign"
    /\ UNCHANGED <<flagVars, listVars, ctxVars, queueVars, current, done, still, listener,
                   stopVars, sendVars>>

AcceptAssign ==
    /\ acceptPc = "assign"
    /\ hasThread' = hasThread \cup {current}
    /\ acceptPc' = "log"
    /\ UNCHANGED <<flagVars, listVars, live, freed, pipeOpen, outEventOpen, queueVars,
                   handlerPc, current, done, still, listener, stopVars, sendVars>>

\* Reads the client's number and counts the clients, under the lock.
AcceptLog ==
    /\ acceptPc = "log" /\ ClientsMutexFree
    /\ current' = NoCtx
    /\ acceptPc' = "top"
    /\ UNCHANGED <<flagVars, listVars, ctxVars, queueVars, handlerPc, done, still, listener,
                   stopVars, sendVars>>

\* No handler thread: the handles are closed before the lock is taken.
AcceptSpawnFails ==
    /\ acceptPc = "spawn" /\ SpawnMayFail
    /\ pipeOpen' = pipeOpen \ {current}
    /\ outEventOpen' = outEventOpen \ {current}
    /\ acceptPc' = "erase"
    /\ UNCHANGED <<flagVars, listVars, live, freed, hasThread, queueVars, handlerPc, current,
                   done, still, listener, stopVars, sendVars>>

AcceptErase ==
    /\ acceptPc = "erase" /\ ClientsMutexFree
    /\ clients' = clients \ {current}
    /\ connected' = (clients' # {})
    /\ live' = live \ {current}
    /\ freed' = freed \cup {current}
    /\ current' = NoCtx
    /\ acceptPc' = "top"
    /\ UNCHANGED <<running, shutdown, shutdownEvent, finished, pipeOpen, outEventOpen,
                   hasThread, queueVars, handlerPc, done, still, listener, stopVars, sendVars>>

AcceptCleanup ==
    /\ acceptPc = "cleanup"
    /\ listener' = [l \in Listeners |-> "none"]
    /\ acceptPc' = "exited"
    /\ UNCHANGED <<flagVars, listVars, ctxVars, queueVars, handlerPc, current, done, still,
                   stopVars, sendVars>>

AcceptStep ==
    \/ AcceptArm \/ AcceptTop \/ SweepTake \/ SweepPut \/ AcceptBackOff \/ AcceptStopped
    \/ AcceptPush \/ AcceptSpawn \/ AcceptAssign \/ AcceptLog \/ AcceptSpawnFails
    \/ AcceptErase \/ AcceptCleanup
    \/ \E c \in Ctx : SweepJoin(c)
    \/ \E l \in Listeners : AcceptLost(l)
    \/ \E l \in Listeners, c \in Ctx : AcceptTakes(l, c)

\* A client opens the pipe.
ClientConnects(l) ==
    /\ listener[l] = "pending"
    /\ listener' = [listener EXCEPT ![l] = "connected"]
    /\ UNCHANGED <<flagVars, listVars, ctxVars, queueVars, handlerPc, acceptPc, current,
                   done, still, stopVars, sendVars>>

-----------------------------------------------------------------------------
(* A handler: ClientThread, ClientHandler, RemoveClient.                   *)

\* The wait for a read, a message or 50 ms is over and nothing is shut down.
HandlerWakes(c) ==
    /\ handlerPc[c] = "loop" /\ ~shutdown
    /\ handlerPc' = [handlerPc EXCEPT ![c] = "awake"]
    /\ UNCHANGED <<flagVars, listVars, ctxVars, queueVars, acceptVars, stopVars, sendVars>>

HandlerDrains(c) ==
    /\ handlerPc[c] = "awake"
    /\ outMutex[c] = "free"
    /\ outMutex' = [outMutex EXCEPT ![c] = "handler"]
    /\ handlerPc' = [handlerPc EXCEPT ![c] = "drain"]
    /\ UNCHANGED <<flagVars, listVars, ctxVars, outQueue, acceptVars, stopVars, sendVars>>

\* One message is written, lost to a timeout, or found undeliverable.
HandlerWrites(c) ==
    /\ handlerPc[c] = "drain" /\ outQueue[c] > 0 /\ ~shutdown
    /\ outQueue' = [outQueue EXCEPT ![c] = @ - 1]
    /\ UNCHANGED <<flagVars, listVars, ctxVars, outMutex, handlerPc, acceptVars, stopVars,
                   sendVars>>

\* Mutant: the drain loop is left without releasing the mutex.
HandlerDrainedLocked(c) ==
    /\ handlerPc[c] = "drain"
    /\ outQueue[c] = 0 \/ shutdown
    /\ handlerPc' = [handlerPc EXCEPT ![c] = "loop"]
    /\ UNCHANGED <<flagVars, listVars, ctxVars, queueVars, acceptVars, stopVars, sendVars>>

HandlerDrained(c) ==
    /\ handlerPc[c] = "drain"
    /\ outQueue[c] = 0 \/ shutdown
    /\ outMutex' = [outMutex EXCEPT ![c] = "free"]
    /\ handlerPc' = [handlerPc EXCEPT ![c] = "loop"]
    /\ UNCHANGED <<flagVars, listVars, ctxVars, outQueue, acceptVars, stopVars, sendVars>>

\* Mutant: the handler closes its pipe itself, outside the lock.
HandlerBreaksAndCloses(c) ==
    /\ handlerPc[c] = "loop"
    /\ pipeOpen' = pipeOpen \ {c}
    /\ handlerPc' = [handlerPc EXCEPT ![c] = "leaving"]
    /\ UNCHANGED <<flagVars, listVars, live, freed, outEventOpen, hasThread, queueVars,
                   acceptVars, stopVars, sendVars>>

\* The client is gone, its read was cancelled, or the server shuts down.
HandlerBreaks(c) ==
    /\ handlerPc[c] = "loop"
    /\ handlerPc' = [handlerPc EXCEPT ![c] = "leaving"]
    /\ UNCHANGED <<flagVars, listVars, ctxVars, queueVars, acceptVars, stopVars, sendVars>>

\* RemoveClient: the pipe is retired and the context handed over.
RemoveClient(c) ==
    /\ handlerPc[c] = "leaving" /\ ClientsMutexFree
    /\ pipeOpen' = pipeOpen \ {c}
    /\ clients' = clients \ {c}
    /\ finished' = finished \cup {c}
    /\ connected' = (clients' # {})
    /\ handlerPc' = [handlerPc EXCEPT ![c] = "returning"]
    /\ UNCHANGED <<running, shutdown, shutdownEvent, live, freed, outEventOpen, hasThread,
                   queueVars, acceptVars, stopVars, sendVars>>

HandlerReturns(c) ==
    /\ handlerPc[c] = "returning"
    /\ handlerPc' = [handlerPc EXCEPT ![c] = "exited"]
    /\ UNCHANGED <<flagVars, listVars, ctxVars, queueVars, acceptVars, stopVars, sendVars>>

HandlerStep(c) ==
    \/ HandlerWakes(c) \/ HandlerDrains(c) \/ HandlerWrites(c) \/ HandlerDrained(c)
    \/ HandlerBreaks(c) \/ RemoveClient(c) \/ HandlerReturns(c)

Next ==
    \/ Start \/ StopRaise \/ StopStep
    \/ SendLock \/ SendUnlock \/ \E c \in Ctx : SendOne(c)
    \/ AcceptStep
    \/ \E l \in Listeners : ClientConnects(l)
    \/ \E c \in Ctx : HandlerStep(c)

Spec == Init /\ [][Next]_vars

(***************************************************************************)
(* Every thread is scheduled.  A handler never blocks for good: its waits  *)
(* are bounded (50 ms, 1 s) or cancelled.  The wait between two drains     *)
(* leaves outMutex free again and again, which a sender blocked on it is   *)
(* assumed to notice (strong fairness).                                    *)
(***************************************************************************)
Fairness ==
    /\ WF_vars(StopStep)
    /\ WF_vars(AcceptStep)
    /\ WF_vars(SendUnlock)
    /\ \A c \in Ctx : SF_vars(SendOne(c)) /\ WF_vars(HandlerStep(c))

FairSpec == Spec /\ Fairness

-----------------------------------------------------------------------------
(***************************************************************************)
(* Properties                                                              *)
(***************************************************************************)

\* No thread can reach a deleted context: its handler has returned, and no
\* list or local of the accept thread, of Stop or of Send still names it.
NoDanglingContext ==
    \A c \in freed :
        /\ handlerPc[c] \in {"none", "exited"}
        /\ c \notin clients \cup finished \cup done \cup still
                    \cup active \cup stopFinished \cup sendTodo
        /\ current # c

\* Whoever holds the clients lock may cancel I/O on, or signal, any listed
\* client: its handles are open whenever the lock can be taken.  The one gap is
\* a connection whose thread could not be created (pipe_server.cpp:424-431).
BeingUndone == IF acceptPc = "erase" THEN {current} ELSE {}
ListedClientsOpen ==
    ClientsMutexFree =>
        clients \ BeingUndone \subseteq live \cap pipeOpen \cap outEventOpen

\* A handler works on a context that is allocated and on a pipe nobody else
\* has retired, also when it outlives the Stop that gave it up, or a restart.
HandlerOwnsPipe ==
    \A c \in Ctx : handlerPc[c] \in InsideContext => c \in live \cap pipeOpen

\* Deleting a context leaks neither its pipe nor its event, and a context that
\* is not deleted is on exactly one list, in a thread's hands, or leaked by Stop.
NoContextLost ==
    /\ freed \cap (pipeOpen \cup outEventOpen) = {}
    /\ live \subseteq clients \cup finished \cup done \cup still \cup stopFinished
                     \cup leaked \cup {current}

\* IsConnected() tells whether a client is listed.  Stop sets it last.
ConnectedAgrees ==
    ClientsMutexFree /\ stopPc \notin {"free", "close"} => (connected <=> clients # {})

\* The list of clients can be trusted: by whoever cancels, signals or sends
\* under the lock, and by whoever asks for the flag instead of the list.
ListTruthful == ListedClientsOpen /\ ConnectedAgrees

\* Stop returns, however the joins, the senders and the handlers interleave.
StopReturns == stopPc # "idle" ~> stopPc = "idle"

\* Send returns: the locks it nests never close a cycle of waiting threads.
SendReturns == sendPc = "locked" ~> sendPc = "idle"

\* Neither keeps its caller, the thread of the window.
CallsReturn == StopReturns /\ SendReturns
=============================================================================
