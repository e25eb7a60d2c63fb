-------------------------- MODULE PipeServer_proof --------------------------
(***************************************************************************)
(* Proofs about PipeServer, for any number of connections, listeners,      *)
(* restarts and sends.  The one assumption is that the accept thread ends  *)
(* within Stop's wait: one that outlasts it uses contexts Stop deletes.    *)
(***************************************************************************)
EXTENDS PipeServer, TLAPS

\* The accept thread has a context in its hands.
Handoff == {"push", "spawn", "assign", "log", "erase"}

\* Stop is past the join of the accept thread.
AfterJoin == {"copy", "joinHandlers", "swap", "free", "close"}

\* Which local variable means something at which program counter.
PcInv ==
    /\ acceptPc # "sweep" => done = {} /\ still = {}
    /\ stopPc # "free" => stopFinished = {}
    /\ stopPc # "joinHandlers" => active = {}
    /\ sendPc = "idle" => sendTodo = {}
    /\ (current = NoCtx) <=> (acceptPc \notin Handoff)
    /\ stopPc \in AfterJoin => acceptPc = "exited"

\* The contexts whose handler has handed them over.
Retired == finished \cup done \cup still \cup stopFinished

\* Every list names allocated contexts, a retired context is on one list.
ListInv ==
    /\ live \cap freed = {}
    /\ clients \subseteq live /\ Retired \subseteq live /\ active \subseteq live
    /\ current \in live \cup {NoCtx}
    /\ sendTodo \subseteq clients
    /\ finished \cap (done \cup still \cup stopFinished) = {}
    /\ done \cap still = {}

\* How far a context's handler is tells where the context can be.
HandlerInv ==
    /\ \A c \in clients : handlerPc[c] \in InsideContext \cup {"none"}
    /\ \A c \in Retired : handlerPc[c] \in {"returning", "exited"}
    /\ \A c \in Ctx : handlerPc[c] \in InsideContext => c \in live \cap pipeOpen
    /\ \A c \in freed : handlerPc[c] \in {"none", "exited"}
    /\ \A c \in Ctx : handlerPc[c] # "none" =>
           c \in hasThread \/ (c = current /\ acceptPc = "assign")
    /\ \A c \in Ctx \ (live \cup freed) : handlerPc[c] = "none"
    /\ acceptPc \in {"push", "spawn", "erase"} => handlerPc[current] = "none"
    /\ acceptPc \in {"push", "spawn"} => current \in pipeOpen
    /\ \A c \in live : handlerPc[c] = "none" =>
           c = current /\ acceptPc \in {"push", "spawn", "erase"}

\* Nothing is leaked but what Stop gives up.
LeakInv ==
    /\ freed \cap (pipeOpen \cup outEventOpen) = {}
    /\ \A c \in Ctx : handlerPc[c] \in {"returning", "exited"} => c \notin pipeOpen
    /\ acceptPc = "erase" => current \notin pipeOpen \cup outEventOpen
    /\ acceptPc \in {"spawn", "assign", "log"} => current \in clients \cup Retired \cup leaked
    /\ live \subseteq clients \cup Retired \cup leaked \cup {current}

IInv == TypeOK /\ PcInv /\ ListInv /\ HandlerInv /\ LeakInv

\* The invariant holds before the first Start.
LEMMA InitIInv == Init => IInv
<1> SUFFICES ASSUME Init PROVE IInv
  OBVIOUS
<1>1. TypeOK
  <2>1. starts \in 0..MaxStarts /\ sends \in 0..MaxSends
    BY BoundsAssumption DEF Init
  <2>2. running \in BOOLEAN /\ shutdown \in BOOLEAN /\ connected \in BOOLEAN
    BY DEF Init
  <2> QED
    BY <2>1, <2>2 DEF Init, TypeOK, InsideContext
<1>2. PcInv /\ ListInv /\ HandlerInv /\ LeakInv
  BY NoCtxAssumption
     DEF Init, PcInv, ListInv, HandlerInv, LeakInv, Handoff, AfterJoin, Retired, InsideContext
<1> QED
  BY <1>1, <1>2 DEF IInv

\* Every step of every thread preserves the invariant.
LEMMA StepIInv == ASSUME ~AcceptJoinMayTimeOut, IInv, [Next]_vars PROVE IInv'
<1> USE NoCtxAssumption, BoundsAssumption
<1> USE DEF IInv, TypeOK, PcInv, ListInv, HandlerInv, LeakInv, Handoff, AfterJoin, Retired,
            InsideContext, ClientsMutexFree,
            flagVars, listVars, ctxVars, queueVars, acceptVars, stopVars, sendVars
<1>1. CASE Start
  <2>1. TypeOK'
    <3>1. starts' \in 0..MaxStarts /\ sends' \in 0..MaxSends
      BY <1>1 DEF Start
    <3>2. running' \in BOOLEAN /\ shutdown' \in BOOLEAN /\ connected' \in BOOLEAN
      BY <1>1, Zenon DEF Start
    <3> QED
      BY <1>1, <3>1, <3>2 DEF Start
  <2>2. (PcInv /\ ListInv /\ HandlerInv /\ LeakInv)'
    BY <1>1 DEF Start
  <2> QED
    BY <2>1, <2>2
<1>2. CASE StopRaise
  BY <1>2 DEF StopRaise
<1>3. CASE StopSetEvent
  BY <1>3 DEF StopSetEvent
<1>4. CASE StopCancel
  BY <1>4 DEF StopCancel
<1>5. CASE StopJoinAccept
  BY <1>5 DEF StopJoinAccept
<1>6. CASE StopCopy
  BY <1>6 DEF StopCopy
<1>7. ASSUME NEW c \in Ctx, StopJoinHandler(c) PROVE IInv'
  BY <1>7 DEF StopJoinHandler
<1>8. CASE StopJoined
  BY <1>8 DEF StopJoined
<1>9. CASE StopSwap
  BY <1>9 DEF StopSwap
<1>10. ASSUME NEW c \in Ctx, StopFree(c) PROVE IInv'
  BY <1>10 DEF StopFree, Joined, Delete
<1>11. CASE StopFreed
  BY <1>11 DEF StopFreed
<1>12. CASE StopClose
  BY <1>12 DEF StopClose
<1>13. CASE SendLock
  BY <1>13 DEF SendLock
<1>14. ASSUME NEW c \in Ctx, SendOne(c) PROVE IInv'
  BY <1>14 DEF SendOne
<1>15. CASE SendUnlock
  BY <1>15 DEF SendUnlock
<1>16. CASE AcceptArm
  BY <1>16 DEF AcceptArm, Armed
<1>17. CASE AcceptTop
  BY <1>17 DEF AcceptTop
<1>18. CASE SweepTake
  BY <1>18 DEF SweepTake
<1>19. ASSUME NEW c \in Ctx, SweepJoin(c) PROVE IInv'
  BY <1>19 DEF SweepJoin, Joined, Delete
<1>20. CASE SweepPut
  BY <1>20 DEF SweepPut
<1>21. CASE AcceptBackOff
  BY <1>21 DEF AcceptBackOff, Armed
<1>22. CASE AcceptStopped
  BY <1>22 DEF AcceptStopped
<1>23. ASSUME NEW l \in Listeners, AcceptLost(l) PROVE IInv'
  BY <1>23 DEF AcceptLost, Armed
<1>24. ASSUME NEW l \in Listeners, NEW c \in Ctx, AcceptTakes(l, c) PROVE IInv'
  BY <1>24 DEF AcceptTakes, Armed
<1>25. CASE AcceptPush
  BY <1>25 DEF AcceptPush
<1>26. CASE AcceptSpawn
  BY <1>26 DEF AcceptSpawn
<1>27. CASE AcceptAssign
  BY <1>27 DEF AcceptAssign
<1>28. CASE AcceptLog
  BY <1>28 DEF AcceptLog
<1>29. CASE AcceptSpawnFails
  BY <1>29 DEF AcceptSpawnFails
<1>30. CASE AcceptErase
  BY <1>30 DEF AcceptErase
<1>31. CASE AcceptCleanup
  BY <1>31 DEF AcceptCleanup
<1>32. ASSUME NEW l \in Listeners, ClientConnects(l) PROVE IInv'
  BY <1>32 DEF ClientConnects
<1>33. ASSUME NEW c \in Ctx, HandlerWakes(c) PROVE IInv'
  BY <1>33 DEF HandlerWakes
<1>34. ASSUME NEW c \in Ctx, HandlerDrains(c) PROVE IInv'
  BY <1>34 DEF HandlerDrains
<1>35. ASSUME NEW c \in Ctx, HandlerWrites(c) PROVE IInv'
  BY <1>35 DEF HandlerWrites
<1>36. ASSUME NEW c \in Ctx, HandlerDrained(c) PROVE IInv'
  BY <1>36 DEF HandlerDrained
<1>37. ASSUME NEW c \in Ctx, HandlerBreaks(c) PROVE IInv'
  BY <1>37 DEF HandlerBreaks
<1>38. ASSUME NEW c \in Ctx, RemoveClient(c) PROVE IInv'
  BY <1>38 DEF RemoveClient
<1>39. ASSUME NEW c \in Ctx, HandlerReturns(c) PROVE IInv'
  BY <1>39 DEF HandlerReturns
<1>40. CASE UNCHANGED vars
  BY <1>40 DEF vars
<1> QED
  BY <1>1, <1>2, <1>3, <1>4, <1>5, <1>6, <1>7, <1>8, <1>9, <1>10, <1>11, <1>12, <1>13, <1>14, <1>15, <1>16, <1>17, <1>18, <1>19, <1>20, <1>21, <1>22, <1>23, <1>24, <1>25, <1>26, <1>27, <1>28, <1>29, <1>30, <1>31, <1>32, <1>33, <1>34, <1>35, <1>36, <1>37, <1>38, <1>39, <1>40
     DEF Next, StopStep, AcceptStep, HandlerStep

LEMMA InvariantIInv == ASSUME ~AcceptJoinMayTimeOut PROVE Spec => []IInv
BY InitIInv, StepIInv, PTL DEF Spec

\* The variables keep their types, whatever the number of connections.
THEOREM TypeCorrect == ASSUME ~AcceptJoinMayTimeOut PROVE Spec => []TypeOK
<1>1. IInv => TypeOK
  BY DEF IInv
<1> QED
  BY <1>1, InvariantIInv, PTL

\* No thread can reach a context that was deleted: what the joins in
\* SweepFinished and Stop, and their order, are for.
THEOREM NoUseAfterFree == ASSUME ~AcceptJoinMayTimeOut PROVE Spec => []NoDanglingContext
<1>1. IInv => NoDanglingContext
  BY NoCtxAssumption DEF IInv, TypeOK, ListInv, HandlerInv, Retired, NoDanglingContext
<1> QED
  BY <1>1, InvariantIInv, PTL

\* A handler works on an allocated context and an open pipe, even when it
\* outlives Stop and a restart.
THEOREM HandlersSafe == ASSUME ~AcceptJoinMayTimeOut PROVE Spec => []HandlerOwnsPipe
<1>1. IInv => HandlerOwnsPipe
  BY DEF IInv, HandlerInv, HandlerOwnsPipe
<1> QED
  BY <1>1, InvariantIInv, PTL

\* A context that is not deleted can still be found, or was given up by Stop;
\* a deleted one left no handle open.
THEOREM NothingLost == ASSUME ~AcceptJoinMayTimeOut PROVE Spec => []NoContextLost
<1>1. IInv => NoContextLost
  BY DEF IInv, LeakInv, Retired, NoContextLost
<1> QED
  BY <1>1, InvariantIInv, PTL

-----------------------------------------------------------------------------
\* An allocated context keeps its event, and a listed one its pipe, but for the
\* connection whose thread could not be created.
OpenInv == live \ BeingUndone \subseteq outEventOpen

LEMMA StepOpenInv ==
    ASSUME OpenInv, TypeOK, PcInv, ListInv, [Next]_vars PROVE OpenInv'
<1> USE NoCtxAssumption DEF OpenInv, BeingUndone, listVars, ctxVars, acceptVars
<1>1. CASE StopStep
  BY <1>1 DEF StopStep, StopSetEvent, StopCancel, StopJoinAccept, StopCopy, StopJoined,
              StopSwap, StopFreed, StopClose, StopJoinHandler, StopFree, Delete
<1>2. CASE AcceptStep
  BY <1>2 DEF AcceptStep, AcceptArm, AcceptTop, SweepTake, SweepPut, AcceptBackOff,
              AcceptStopped, AcceptPush, AcceptSpawn, AcceptAssign, AcceptLog,
              AcceptSpawnFails, AcceptErase, AcceptCleanup, SweepJoin, Delete, AcceptLost,
              AcceptTakes
<1>3. ASSUME NEW c \in Ctx, HandlerStep(c) PROVE OpenInv'
  BY <1>3 DEF HandlerStep, HandlerWakes, HandlerDrains, HandlerWrites, HandlerDrained,
              HandlerBreaks, RemoveClient, HandlerReturns
<1>4. CASE Start \/ StopRaise \/ SendLock \/ SendUnlock \/ (\E c \in Ctx : SendOne(c))
           \/ (\E l \in Listeners : ClientConnects(l)) \/ UNCHANGED vars
  BY <1>4 DEF Start, StopRaise, SendLock, SendUnlock, SendOne, ClientConnects, vars
<1> QED
  BY <1>1, <1>2, <1>3, <1>4 DEF Next

\* Whoever holds the clients lock finds open handles in every listed context
\* but the one whose thread could not be created.
THEOREM HandlesOpen == ASSUME ~AcceptJoinMayTimeOut PROVE Spec => []ListedClientsOpen
<1>1. Init => OpenInv
  BY DEF Init, OpenInv
<1>2. IInv /\ OpenInv /\ [Next]_vars => OpenInv'
  BY StepOpenInv DEF IInv
<1>3. IInv /\ OpenInv => ListedClientsOpen
  BY DEF IInv, OpenInv, BeingUndone, TypeOK, ListInv, HandlerInv, ListedClientsOpen
<1> QED
  BY <1>1, <1>2, <1>3, InvariantIInv, PTL DEF Spec

-----------------------------------------------------------------------------
\* The flag and the list change together, except at the end of Stop, which
\* empties the list first; the accept thread is gone by then.
FlagInv == IF stopPc \in {"free", "close"} THEN clients = {} ELSE connected <=> clients # {}

LEMMA StepFlagInv ==
    ASSUME FlagInv, TypeOK, PcInv, [Next]_vars PROVE FlagInv'
<1> USE NoCtxAssumption DEF FlagInv, flagVars, listVars, acceptVars, stopVars
<1>1. CASE StopStep
  BY <1>1 DEF StopStep, StopSetEvent, StopCancel, StopJoinAccept, StopCopy, StopJoined,
              StopSwap, StopFreed, StopClose, StopJoinHandler, StopFree, Delete
<1>2. CASE AcceptStep /\ ~AcceptPush /\ ~AcceptErase
  BY <1>2 DEF AcceptStep, AcceptArm, AcceptTop, SweepTake, SweepPut, AcceptBackOff,
              AcceptStopped, AcceptSpawn, AcceptAssign, AcceptLog,
              AcceptSpawnFails, AcceptCleanup, SweepJoin, Delete, AcceptLost, AcceptTakes
<1>3. ASSUME NEW c \in Ctx, HandlerStep(c), ~RemoveClient(c) PROVE FlagInv'
  BY <1>3 DEF HandlerStep, HandlerWakes, HandlerDrains, HandlerWrites, HandlerDrained,
              HandlerBreaks, HandlerReturns
<1>4. CASE Start \/ StopRaise \/ SendLock \/ SendUnlock \/ (\E c \in Ctx : SendOne(c))
           \/ (\E l \in Listeners : ClientConnects(l)) \/ UNCHANGED vars
  BY <1>4 DEF Start, StopRaise, SendLock, SendUnlock, SendOne, ClientConnects, vars
<1>5. CASE AcceptPush
  <2>1. stopPc' \notin {"free", "close"}
    BY <1>5 DEF AcceptPush, PcInv, AfterJoin
  <2>2. connected' /\ clients' # {}
    BY <1>5 DEF AcceptPush
  <2> QED
    BY <2>1, <2>2
<1>6. CASE AcceptErase
  <2>1. stopPc' \notin {"free", "close"}
    BY <1>6 DEF AcceptErase, PcInv, AfterJoin
  <2>2. connected' <=> clients' # {}
    BY <1>6, Zenon DEF AcceptErase
  <2> QED
    BY <2>1, <2>2
<1>7. ASSUME NEW c \in Ctx, RemoveClient(c) PROVE FlagInv'
  <2>1. connected' <=> clients' # {}
    BY <1>7, Zenon DEF RemoveClient
  <2>2. clients' \subseteq clients /\ stopPc' = stopPc
    BY <1>7 DEF RemoveClient
  <2> QED
    BY <2>1, <2>2
<1> QED
  BY <1>1, <1>2, <1>3, <1>4, <1>5, <1>6, <1>7 DEF Next

\* IsConnected tells the truth from every thread, however connections come and
\* go, provided the accept thread ends within Stop's wait.
THEOREM FlagTruthful == ASSUME ~AcceptJoinMayTimeOut PROVE Spec => []ConnectedAgrees
<1>1. Init => FlagInv
  BY DEF Init, FlagInv
<1>2. IInv /\ FlagInv /\ [Next]_vars => FlagInv'
  BY StepFlagInv DEF IInv
<1>3. FlagInv => ConnectedAgrees
  BY DEF FlagInv, ConnectedAgrees
<1> QED
  BY <1>1, <1>2, <1>3, InvariantIInv, PTL DEF Spec

(***************************************************************************)
(* Whoever has the clients lock can use every handle of the list, and the  *)
(* connected flag tells whether there is one (pipe_server.cpp:77, 139-190).*)
(***************************************************************************)
THEOREM ListTells == ASSUME ~AcceptJoinMayTimeOut PROVE Spec => []ListTruthful
BY HandlesOpen, FlagTruthful, PTL DEF ListTruthful
=============================================================================
