--------------------------- MODULE PipeConnection ---------------------------
(***************************************************************************)
(* What travels through one pipe: the read and write loop of a client's    *)
(* handler (PipeServer::ClientHandler), the throttle in front of its queue *)
(* (CPlugin::SendMessageToMilkwaveRemote), and the Remote at the other end *)
(* (PipeClient).  PipeServer has the threads, the lists and the contexts;  *)
(* here there is one connection, and the messages in it.                   *)
(*                                                                         *)
(* A message is a sequence of units, each a piece of a known message, so   *)
(* that one that was cut, or joined to another, shows.  The pipe keeps     *)
(* message boundaries, and a write has returned once no more than Quota    *)
(* units are left unread.  A write that was given up after a second leaves *)
(* its message in the pipe: that the kernel still has the OVERLAPPED of    *)
(* that write, on a stack that is used again, is beyond this model.        *)
(***************************************************************************)
EXTENDS Naturals, Sequences, SequencesExt

CONSTANTS Sizes,        \* of the messages to the visualizer, in units
          NewsSizes,    \* of those to the Remote
          Buf, RBuf,    \* what a read of the visualizer, or of the Remote, holds
          Cap, RCap,    \* what either keeps of a message that is not complete
          Quota,        \* of the pipe, in each direction
          MaxCommands, MaxNews, MaxHangs  \* bounds on what happens at the ends

ASSUME SizesAssumption == Sizes \subseteq Nat \ {0} /\ NewsSizes \subseteq Nat \ {0}
ASSUME BufAssumption == {Buf, RBuf} \subseteq Nat \ {0} /\ {Cap, RCap, Quota} \subseteq Nat
ASSUME NewsAssumption == \A s \in NewsSizes : s <= RCap  \* 4 MB against a few lines of text
ASSUME BoundsAssumption == {MaxCommands, MaxNews, MaxHangs} \subseteq Nat

VARIABLES
    remote,    \* "live", "hung" (it neither reads nor writes) or "closed"
    hangs,
    commands,  \* history: the sizes of the messages the Remote has written
    toVis,     \* what is left unread of the messages in the pipe
    toRemote,
    shutdown,  \* m_bShutdown, the shutdown event, and the cancelled I/O
    pc,        \* the handler: "arm", "wait", "drain", "write" or "gone"
    read,      \* the handler's read: none, pending or done, and what readBuf got
    assembled, overlong,
    delivered, \* the messages dispatched to the window
    recent,    \* LastSentMilkwaveMessage is less than 100 ms old
    news,      \* history: what SendMessageToMilkwaveRemote was called with, and took
    outQueue,  \* their numbers
    pending,   \* what ReadLoop has of a message
    received   \* the messages the Remote's form was given

remoteVars == <<remote, hangs, commands>>
readVars == <<read, assembled, overlong, delivered>>
newsVars == <<recent, news>>
listenVars == <<pending, received>>
pipeVars == <<remoteVars, toVis, toRemote, shutdown, pc, readVars, newsVars, outQueue, listenVars>>

Text(i, size) == [k \in 1 .. size |-> <<i, k>>]
Units(pipe) == Len(FlattenSeq(pipe))
Full(pipe) == Units(pipe) > Quota

\* A read of at most n units from a pipe: what it gets, and what it leaves.
More(pipe, n) == Len(Head(pipe)) > n
Chunk(pipe, n) == IF More(pipe, n) THEN SubSeq(Head(pipe), 1, n) ELSE Head(pipe)
Rest(pipe, n) ==
    IF More(pipe, n) THEN <<SubSeq(Head(pipe), n + 1, Len(Head(pipe)))>> \o Tail(pipe) ELSE Tail(pipe)

NoRead == [is |-> "none", units |-> <<>>, more |-> FALSE]
Idle == [NoRead EXCEPT !.is = "pending"]

PipeInit ==
    /\ remote = "live" /\ hangs = 0 /\ commands = <<>>
    /\ toVis = <<>> /\ toRemote = <<>>
    /\ shutdown = FALSE /\ pc = "arm"
    /\ read = NoRead /\ assembled = <<>> /\ overlong = FALSE /\ delivered = <<>>
    /\ recent = FALSE /\ news = <<>> /\ outQueue = <<>>
    /\ pending = <<>> /\ received = <<>>

-----------------------------------------------------------------------------
\* The Remote.

\* Send: the lock and the blocking Write let one message in after the other.
RemoteSends(size) ==
    /\ remote = "live" /\ pc # "gone" /\ ~Full(toVis)
    /\ Len(commands) < MaxCommands
    /\ commands' = Append(commands, size)
    /\ toVis' = Append(toVis, Text(Len(commands'), size))
    /\ UNCHANGED <<remote, hangs, toRemote, shutdown, pc, readVars, newsVars, outQueue, listenVars>>

\* ReadLoop: one Read, and the messages it completes.
Kept(units) == IF Len(units) > RCap THEN <<>> ELSE units

RemoteReads ==
    /\ remote = "live" /\ toRemote # <<>>
    /\ LET units == pending \o Chunk(toRemote, RBuf)
       IN IF More(toRemote, RBuf)
            THEN pending' = Kept(units) /\ UNCHANGED received
            ELSE pending' = <<>> /\ received' = Append(received, units)
    /\ toRemote' = Rest(toRemote, RBuf)
    /\ UNCHANGED <<remoteVars, toVis, shutdown, pc, readVars, newsVars, outQueue>>

\* The process is held up, and goes on.
Hangs ==
    /\ remote = "live" /\ hangs < MaxHangs
    /\ remote' = "hung" /\ hangs' = hangs + 1
    /\ UNCHANGED <<commands, toVis, toRemote, shutdown, pc, readVars, newsVars, outQueue, listenVars>>

Resumes ==
    /\ remote = "hung"
    /\ remote' = "live"
    /\ UNCHANGED <<hangs, commands, toVis, toRemote, shutdown, pc, readVars, newsVars, outQueue, listenVars>>

\* Disconnect, or the process is ended: what it has not read is lost, what it wrote is not.
Closes ==
    /\ remote # "closed"
    /\ remote' = "closed" /\ toRemote' = <<>> /\ pending' = <<>>
    /\ UNCHANGED <<hangs, commands, toVis, shutdown, pc, readVars, newsVars, outQueue, received>>

-----------------------------------------------------------------------------
\* The visualizer's other threads.

Stop ==
    /\ ~shutdown
    /\ shutdown' = TRUE
    /\ UNCHANGED <<remoteVars, toVis, toRemote, pc, readVars, newsVars, outQueue, listenVars>>

\* SendMessageToMilkwaveRemote, and Send, which waits for the handler's outMutex.
Throttled(force) == recent /\ ~force

Tells(size, force) ==
    /\ Len(news) < MaxNews /\ pc \notin {"drain", "write", "gone"}
    /\ news' = Append(news, [size |-> size, force |-> force, sent |-> ~Throttled(force)])
    /\ recent' = (recent \/ ~Throttled(force))
    /\ outQueue' = IF Throttled(force) \/ shutdown THEN outQueue ELSE Append(outQueue, Len(news'))
    /\ UNCHANGED <<remoteVars, toVis, toRemote, shutdown, pc, readVars, listenVars>>

TimePasses ==
    /\ recent
    /\ recent' = FALSE
    /\ UNCHANGED <<remoteVars, toVis, toRemote, shutdown, pc, readVars, news, outQueue, listenVars>>

-----------------------------------------------------------------------------
\* The handler.

AbsorbChunks(units, more) ==
    /\ delivered' = Append(delivered, units)
    /\ UNCHANGED <<assembled, overlong>>

\* absorb: a chunk joins what was assembled; the last one of a message dispatches it.
Absorb(units, more) ==
    LET over == overlong \/ Len(assembled) + Len(units) > Cap
        whole == IF over THEN <<>> ELSE assembled \o units
    IN /\ overlong' = (over /\ more)
       /\ assembled' = IF more THEN whole ELSE <<>>
       /\ delivered' = IF more \/ over THEN delivered ELSE Append(delivered, whole)

Exit ==
    /\ pc' = "gone" /\ read' = NoRead
    /\ toRemote' = <<>> /\ toVis' = <<>>
    /\ UNCHANGED <<remoteVars, shutdown, assembled, overlong, delivered, newsVars, outQueue, listenVars>>

\* The top of the loop, where a read is started unless one is pending.
ArmStopped == pc = "arm" /\ shutdown /\ Exit

ArmPending ==
    /\ pc = "arm" /\ ~shutdown
    /\ \/ read.is # "none" /\ UNCHANGED read
       \/ read.is = "none" /\ toVis = <<>> /\ remote # "closed" /\ read' = Idle
    /\ pc' = "wait"
    /\ UNCHANGED <<remoteVars, toVis, toRemote, shutdown, assembled, overlong, delivered, newsVars, outQueue, listenVars>>

\* ReadFile returns TRUE, or ERROR_MORE_DATA, at once.
ArmReads ==
    /\ pc = "arm" /\ ~shutdown /\ read.is = "none" /\ toVis # <<>>
    /\ Absorb(Chunk(toVis, Buf), More(toVis, Buf))
    /\ toVis' = Rest(toVis, Buf)
    /\ pc' = "wait"
    /\ UNCHANGED <<remoteVars, toRemote, shutdown, read, newsVars, outQueue, listenVars>>

\* It finds the pipe broken, and empty.
ArmBreaks == pc = "arm" /\ ~shutdown /\ read.is = "none" /\ toVis = <<>> /\ remote = "closed" /\ Exit

\* The kernel fills readBuf; it may do so while the handler is anywhere.
ReadCompletes ==
    /\ read.is = "pending" /\ toVis # <<>>
    /\ read' = [is |-> "done", units |-> Chunk(toVis, Buf), more |-> More(toVis, Buf)]
    /\ toVis' = Rest(toVis, Buf)
    /\ UNCHANGED <<remoteVars, toRemote, shutdown, pc, assembled, overlong, delivered, newsVars, outQueue, listenVars>>

ReadFails == read.is = "pending" /\ toVis = <<>> /\ remote = "closed"

WaitStopped == pc = "wait" /\ shutdown /\ Exit

\* The wait ends, with a read that is done or without; the handler takes outMutex.
WaitReturns ==
    /\ pc = "wait" /\ ~shutdown /\ ~ReadFails
    /\ IF read.is = "done"
         THEN Absorb(read.units, read.more) /\ read' = NoRead
         ELSE UNCHANGED readVars
    /\ pc' = "drain"
    /\ UNCHANGED <<remoteVars, toVis, toRemote, shutdown, newsVars, outQueue, listenVars>>

WaitSpins ==
    /\ pc = "wait" /\ ~shutdown /\ ReadFails
    /\ pc' = "drain"
    /\ UNCHANGED <<remoteVars, toVis, toRemote, shutdown, readVars, newsVars, outQueue, listenVars>>

\* The pending read fails.
WaitBreaks == pc = "wait" /\ ~shutdown /\ ReadFails /\ Exit

\* WriteFile; it fails when the Remote has closed its end, and then the message is dropped too.
WriteBegins ==
    /\ pc = "drain" /\ ~shutdown /\ outQueue # <<>> /\ remote # "closed"
    /\ toRemote' = Append(toRemote, Text(Head(outQueue), news[Head(outQueue)].size))
    /\ pc' = "write"
    /\ UNCHANGED <<remoteVars, toVis, shutdown, readVars, newsVars, outQueue, listenVars>>

WriteFails ==
    /\ pc = "drain" /\ ~shutdown /\ outQueue # <<>> /\ remote = "closed"
    /\ outQueue' = Tail(outQueue)
    /\ pc' = "arm"
    /\ UNCHANGED <<remoteVars, toVis, toRemote, shutdown, readVars, newsVars, listenVars>>

\* Mutant: the write is waited for as long as it takes.
WriteWaits ==
    /\ pc = "write" /\ (~Full(toRemote) \/ shutdown \/ remote = "closed")
    /\ outQueue' = Tail(outQueue)
    /\ pc' = "drain"
    /\ UNCHANGED <<remoteVars, toVis, toRemote, shutdown, readVars, newsVars, listenVars>>

\* The write is done, or cannot be any more, or a second has passed.
WriteEnds ==
    /\ pc = "write"
    /\ outQueue' = Tail(outQueue)
    /\ pc' = "drain"
    /\ UNCHANGED <<remoteVars, toVis, toRemote, shutdown, readVars, newsVars, listenVars>>

Drained ==
    /\ pc = "drain" /\ (outQueue = <<>> \/ shutdown)
    /\ pc' = "arm"
    /\ UNCHANGED <<remoteVars, toVis, toRemote, shutdown, readVars, newsVars, outQueue, listenVars>>

HandlerStep ==
    \/ ArmStopped \/ ArmPending \/ ArmReads \/ ArmBreaks
    \/ WaitStopped \/ WaitReturns \/ WaitBreaks
    \/ WriteBegins \/ WriteFails \/ WriteEnds \/ Drained

PipeNext ==
    \/ \E size \in Sizes : RemoteSends(size)
    \/ RemoteReads \/ Hangs \/ Resumes \/ Closes \/ Stop
    \/ \E size \in NewsSizes, force \in BOOLEAN : Tells(size, force)
    \/ TimePasses \/ ReadCompletes \/ HandlerStep

PipeSpec == PipeInit /\ [][PipeNext]_pipeVars

\* The threads run, and the kernel completes the reads it can.
FairPipeSpec == PipeSpec /\ WF_pipeVars(HandlerStep) /\ WF_pipeVars(ReadCompletes) /\ WF_pipeVars(RemoteReads)

-----------------------------------------------------------------------------
Sent == {i \in DOMAIN commands : commands[i] <= Cap}
Taken == {i \in DOMAIN news : news[i].sent}

Number(message) == message[1][1]
Among(messages, i) == \E k \in DOMAIN messages : Number(messages[k]) = i

\* What was got are messages that were due, each whole, in the order of their numbers, and with
\* none of those left out that are due before one that was got.
InOrder(got, due, sizes) ==
    /\ \A k \in DOMAIN got : \E i \in due : got[k] = Text(i, sizes[i])
    /\ \A k, l \in DOMAIN got : k < l => Number(got[k]) < Number(got[l])
    /\ \A k \in DOMAIN got, i \in due : i < Number(got[k]) => Among(got, i)

\* Variables are of their kinds, and neither end keeps more of a message than its cap.
PipeTypeOK ==
    /\ remote \in {"live", "hung", "closed"} /\ hangs \in 0 .. MaxHangs
    /\ pc \in {"arm", "wait", "drain", "write", "gone"}
    /\ {shutdown, overlong, recent} \subseteq BOOLEAN
    /\ read.is \in {"none", "pending", "done"} /\ Len(read.units) <= Buf
    /\ Len(assembled) <= Cap /\ Len(pending) <= RCap
    /\ \A i \in DOMAIN outQueue : outQueue[i] \in DOMAIN news

\* The window gets the Remote's messages whole, in order and once, however many reads each
\* takes, and one that is too long leaves no trace in what follows (pipe_server.cpp:463-473).
CommandsInOrder == InOrder(delivered, Sent, commands)

\* The Remote gets what was taken for it whole, in order and once, although a write may be given
\* up before the Remote has read the message, and the Remote reads on later (:564-576).
NewsInOrder == InOrder(received, Taken, [i \in DOMAIN news |-> news[i].size])

\* Messages of both directions are whole, in order and once, and kept within the caps.
MessagesWhole == PipeTypeOK /\ CommandsInOrder /\ NewsInOrder

\* A message the Remote has written is dispatched, even if the Remote reads nothing any more or
\* is gone: the handler is not kept by a write (:564), nor by what it cannot write (:570).
CommandsArrive ==
    \A i \in 1 .. MaxCommands :
        (Len(commands) >= i /\ commands[i] <= Cap) ~>
            (shutdown \/ Among(delivered, i))

\* A message the visualizer forces through the throttle reaches a Remote that stays (:785).
NewsArrive ==
    <>[](remote = "live" /\ ~shutdown) =>
        \A i \in 1 .. MaxNews :
            (Len(news) >= i /\ news[i].force) ~> Among(received, i)

\* What is written arrives, in both directions.
MessagesArrive == CommandsArrive /\ NewsArrive

\* A handler whose Remote is gone, or whose server stops, ends (:535, :545).
HandlerEnds == (shutdown \/ remote = "closed") ~> pc = "gone"
=============================================================================
