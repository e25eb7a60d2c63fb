----------------------------- MODULE TcpServer ------------------------------
(***************************************************************************)
(* The network server of tcp_server.cpp, polled from the window's timer.   *)
(* One thread does everything, so what can go wrong is inside one Poll:    *)
(* ProcessFrames works on a reference to an element of m_clients, and AUTH *)
(* erases elements of that vector while the reference is in use.           *)
(*                                                                         *)
(* A connection is named by a member of Conns and its record by rec[s];    *)
(* `list' is m_clients, where erasing moves the records behind it one slot *)
(* forward, while the reference keeps pointing at slot `at'.  Frames are   *)
(* received whole or not at all, and a reply is always delivered.          *)
(*                                                                         *)
(* A device that connects again is the last in the vector when its AUTH    *)
(* erases the record of its old connection: the slot of the reference is   *)
(* destroyed.  With others behind it, the reference goes on to the next.   *)
(***************************************************************************)
EXTENDS Naturals, Sequences

CONSTANTS Conns,       \* connections made to the server
          Devices,     \* deviceIds
          NoDevice,    \* the empty deviceId
          Owner,       \* the device at the other end of each connection
          MaxClients,  \* MAX_CLIENTS
          Sends,       \* bounds: the frames each connection may send,
          MaxFrames    \*         and how many

ASSUME DevicesAssumption == NoDevice \notin Devices /\ Owner \in [Conns -> Devices]
ASSUME BoundsAssumption == MaxClients \in Nat /\ MaxFrames \in [Conns -> Nat]

VARIABLES running,  \* m_running
          list,     \* m_clients
          rec,      \* TcpClientConnection of a listed connection
          link,     \* the connection, as the network has it
          pc,       \* where Poll stands
          at,       \* the index of the loop of ReadFromClients or CheckTimeouts
          erase,    \* the index of the loop that erases, counted down
          msg       \* the AUTH frame at hand

vars == <<running, list, rec, link, pc, at, erase, msg>>

(***************************************************************************)
(* The frames that are told apart: AUTH with the right or a wrong PIN,     *)
(* AUTH with three fields, one longer than 4 MB, and any other (PING, a    *)
(* command, and AUTH with one or two fields, which changes nothing).       *)
(***************************************************************************)
Frames == {"auth", "wrong", "short", "huge", "command"}
ASSUME SendsAssumption == Sends \in [Conns -> SUBSET Frames]

(***************************************************************************)
(* A record: `valid' says its socket is not INVALID_SOCKET, and `idle'     *)
(* that lastActivity is more than CLIENT_TIMEOUT_MS ago.  Beside the       *)
(* fields of TcpClientConnection it has what happened on the connection:   *)
(* how many frames came, whether one was AUTH with the right PIN, whether  *)
(* AUTH_OK was sent and a command posted; and how an AUTH that erased a    *)
(* record in front of its own went wrong: the answer went to this socket   *)
(* and to no record (`adrift'), or this record was given the answer of     *)
(* another (`misled'), even of one that has the device and keeps it        *)
(* (`doubled').                                                            *)
(***************************************************************************)
Records == [valid : BOOLEAN, auth : BOOLEAN, dev : Devices \cup {NoDevice},
            buffer : Seq(Frames), idle : BOOLEAN,
            sent : Nat, proved : BOOLEAN, told : BOOLEAN, served : BOOLEAN,
            adrift : BOOLEAN, misled : BOOLEAN, doubled : BOOLEAN]
Fresh == [valid |-> TRUE, auth |-> FALSE, dev |-> NoDevice, buffer |-> <<>>, idle |-> FALSE,
          sent |-> 0, proved |-> FALSE, told |-> FALSE, served |-> FALSE,
          adrift |-> FALSE, misled |-> FALSE, doubled |-> FALSE]

(***************************************************************************)
(* A connection waits to be accepted, is open, ended by the other end,     *)
(* gone without a trace, or closed by the server.                          *)
(***************************************************************************)
Links == {"none", "waiting", "open", "ended", "gone", "closed"}
Held == {"open", "ended", "gone"}

\* An AUTH frame, and the connection it came from.
Messages == [kind : {"auth", "wrong", "short"}, dev : Devices, from : Conns]
NoMsg == [kind |-> "none"]

Slots == 1 .. Len(list)
Listed == {list[i] : i \in Slots}

TypeOK ==
    /\ running \in BOOLEAN
    /\ list \in Seq(Conns) /\ Len(list) <= MaxClients
    /\ rec \in [Conns -> Records]
    /\ link \in [Conns -> Links]
    /\ pc \in {"idle", "read", "frames", "erase", "answer", "timeouts"}
    /\ at \in Nat \ {0}
    /\ erase \in 0 .. Len(list)
    /\ msg \in Messages \cup {NoMsg}

Init ==
    /\ running = FALSE
    /\ list = <<>>
    /\ rec = [s \in Conns |-> Fresh]
    /\ link = [s \in Conns |-> "none"]
    /\ pc = "idle" /\ at = 1 /\ erase = 0 /\ msg = NoMsg

-----------------------------------------------------------------------------
(***************************************************************************)
(* The other ends: they connect, close, or vanish without a trace.  Only   *)
(* accept and recv see when they do.                                       *)
(***************************************************************************)
Connect(s) == /\ pc = "idle" /\ running /\ link[s] = "none"
              /\ link' = [link EXCEPT ![s] = "waiting"]
              /\ UNCHANGED <<running, list, rec, pc, at, erase, msg>>

Leave(s) == /\ pc \in {"idle", "read"} /\ link[s] = "open"
            /\ \E how \in {"ended", "gone"} : link' = [link EXCEPT ![s] = how]
            /\ UNCHANGED <<running, list, rec, pc, at, erase, msg>>

MinutePasses(s) ==
    /\ pc = "idle" /\ s \in Listed /\ ~rec[s].idle
    /\ rec' = [rec EXCEPT ![s].idle = TRUE]
    /\ UNCHANGED <<running, list, link, pc, at, erase, msg>>

-----------------------------------------------------------------------------
(***************************************************************************)
(* Start, and Stop between two Polls.  Stop resets the connections that    *)
(* wait to be accepted along with the listening socket.                    *)
(***************************************************************************)
Start == /\ pc = "idle" /\ ~running
         /\ running' = TRUE
         /\ UNCHANGED <<list, rec, link, pc, at, erase, msg>>

Stop == /\ pc = "idle" /\ running
        /\ running' = FALSE
        /\ list' = <<>>
        /\ rec' = [s \in Conns |-> Fresh]
        /\ link' = [s \in Conns |-> IF link[s] = "none" THEN "none" ELSE "closed"]
        /\ UNCHANGED <<pc, at, erase, msg>>

-----------------------------------------------------------------------------
(***************************************************************************)
(* Poll: accept one connection, read from every one, drop the idle ones.   *)
(***************************************************************************)
Full == Len(list) >= MaxClients

Accept(s) == /\ ~Full /\ link[s] = "waiting"
             /\ link' = [link EXCEPT ![s] = "open"]
             /\ list' = Append(list, s)

AcceptNewClients ==
    /\ pc = "idle" /\ running
    /\ pc' = "read"
    /\ \/ /\ Full \/ \A s \in Conns : link[s] # "waiting"
          /\ UNCHANGED <<list, link>>
       \/ \E s \in Conns : Accept(s)
    /\ UNCHANGED <<running, rec, at, erase, msg>>

\* m_clients.erase: the records behind move one slot forward
Without(i) == [k \in 1 .. Len(list) - 1 |-> IF k < i THEN list[k] ELSE list[k + 1]]
Erase(i) == list' = Without(i) /\ rec' = [rec EXCEPT ![list[i]] = Fresh]

Closed(s) == IF rec[s].valid THEN [link EXCEPT ![s] = "closed"] ELSE link

RemoveClient(i) == Erase(i) /\ link' = Closed(list[i])

(***************************************************************************)
(* One turn of the loop of ReadFromClients: recv delivers some frames (or  *)
(* part of one), fails with WSAEWOULDBLOCK, or ends the connection.        *)
(***************************************************************************)
Reachable(s) == rec[s].valid /\ link[s] \in {"open", "gone"}

Receives(s) ==
    /\ Reachable(s) /\ link[s] = "open"
    /\ \E n \in 0 .. MaxFrames[s] - rec[s].sent : \E fs \in [1 .. n -> Sends[s]] :
          rec' = [rec EXCEPT ![s].buffer = @ \o fs, ![s].sent = @ + n, ![s].idle = FALSE]
    /\ pc' = "frames"
    /\ UNCHANGED <<list, link, at>>

WouldBlock(s) == /\ Reachable(s)
                 /\ at' = at + 1
                 /\ UNCHANGED <<list, rec, link, pc>>

EndsAsData(s) == /\ ~Reachable(s)
                 /\ rec' = [rec EXCEPT ![s].idle = FALSE]
                 /\ at' = at + 1
                 /\ UNCHANGED <<list, link, pc>>

\* end of file, an error, or a socket that is INVALID_SOCKET or was closed
Ends(s) == /\ ~Reachable(s)
           /\ RemoveClient(at)
           /\ UNCHANGED <<pc, at>>

ReadFromClients ==
    /\ pc = "read" /\ at \in Slots
    /\ Receives(list[at]) \/ WouldBlock(list[at]) \/ Ends(list[at])
    /\ UNCHANGED <<running, erase, msg>>

ReadDone == /\ pc = "read" /\ at \notin Slots
            /\ pc' = "timeouts" /\ at' = 1
            /\ UNCHANGED <<running, list, rec, link, erase, msg>>

CheckTimeouts ==
    /\ pc = "timeouts" /\ at \in Slots
    /\ IF rec[list[at]].idle THEN RemoveClient(at) /\ UNCHANGED at
                             ELSE at' = at + 1 /\ UNCHANGED <<list, rec, link>>
    /\ UNCHANGED <<running, pc, erase, msg>>

PollDone == /\ pc = "timeouts" /\ at \notin Slots
            /\ pc' = "idle" /\ at' = 1
            /\ UNCHANGED <<running, list, rec, link, erase, msg>>

-----------------------------------------------------------------------------
(***************************************************************************)
(* ProcessFrames, one frame a step.  A slot that was destroyed while the   *)
(* reference points at it has an empty buffer, what is written to it is    *)
(* lost, and the socket it names is the one it held when its record moved  *)
(* forward: that of the record that is now the last.                       *)
(***************************************************************************)
Alive == at \in Slots
Client == IF Alive THEN list[at] ELSE list[Len(list)]
More == Alive /\ rec[Client].buffer # <<>>

FramesDone == /\ pc = "frames" /\ ~More
              /\ pc' = "read" /\ at' = at + 1
              /\ UNCHANGED <<running, list, rec, link, erase, msg>>

Frame(kinds) == /\ pc = "frames" /\ More
                /\ Head(rec[Client].buffer) \in kinds

Oversized == /\ Frame({"huge"})
             /\ link' = Closed(Client)
             /\ rec' = [rec EXCEPT ![Client].valid = FALSE]
             /\ pc' = "read" /\ at' = at + 1
             /\ UNCHANGED <<running, list, erase, msg>>

ServesAnyone(s) == TRUE
Serves(s) == rec[s].auth

Command ==
    /\ Frame({"command"})
    /\ rec' = [rec EXCEPT ![Client].buffer = Tail(@), ![Client].served = @ \/ Serves(Client)]
    /\ UNCHANGED <<running, list, link, pc, at, erase, msg>>

(***************************************************************************)
(* AUTH: the sockets of the same device's other connections are closed ... *)
(***************************************************************************)
RivalsNone(c) == {}
Rivals(c) == {s \in Listed \ {c} : rec[s].dev = Owner[c]}

EraseFrom == Len(list)

Authenticate ==
    /\ Frame({"auth", "wrong", "short"})
    /\ msg' = [kind |-> Head(rec[Client].buffer), dev |-> Owner[Client], from |-> Client]
    /\ link' = [s \in Conns |-> IF s \in Rivals(Client) /\ rec[s].valid THEN "closed" ELSE link[s]]
    /\ rec' = [s \in Conns |->
                 IF s = Client
                 THEN [rec[s] EXCEPT !.buffer = Tail(@),
                                     !.proved = @ \/ Head(rec[s].buffer) = "auth"]
                 ELSE [rec[s] EXCEPT !.valid = @ /\ s \notin Rivals(Client)]]
    /\ erase' = EraseFrom /\ pc' = "erase"
    /\ UNCHANGED <<running, list, at>>

(***************************************************************************)
(* ... every record without a socket is erased, save the one in the slot   *)
(* of the reference ...                                                    *)
(***************************************************************************)
EraseStale ==
    /\ pc = "erase" /\ erase > 0
    /\ erase' = erase - 1
    /\ IF ~rec[list[erase]].valid /\ erase # at
       THEN Erase(erase)
       ELSE UNCHANGED <<list, rec>>
    /\ UNCHANGED <<running, link, pc, at, msg>>

EraseDone == /\ pc = "erase" /\ erase = 0
             /\ pc' = "answer"
             /\ UNCHANGED <<running, list, rec, link, at, erase, msg>>

(***************************************************************************)
(* ... and the fields are taken over and answered.                         *)
(***************************************************************************)
Answer(kind) == /\ pc = "answer" /\ msg.kind = kind
                /\ pc' = "frames" /\ msg' = NoMsg

AnswerMalformed == Answer("short") /\ UNCHANGED <<running, list, rec, link, at, erase>>

AnswerOkUnmarked ==
    /\ Answer("auth")
    /\ rec' = [rec EXCEPT ![Client].told = TRUE]
    /\ UNCHANGED <<running, list, link, at, erase>>

Misled == rec[Client].misled \/ Client # msg.from
Doubled == Client # msg.from /\ rec[msg.from].dev = msg.dev

AnswerOk ==
    /\ Answer("auth")
    /\ LET hears == rec[Client].valid /\ link[Client] \in Held
       IN rec' = IF Alive
                 THEN [rec EXCEPT ![Client].dev = msg.dev, ![Client].auth = TRUE,
                                  ![Client].told = @ \/ hears, ![Client].adrift = @ /\ ~hears,
                                  ![Client].misled = Misled, ![Client].doubled = Doubled]
                 ELSE [rec EXCEPT ![Client].told = @ \/ hears, ![Client].adrift = TRUE]
    /\ UNCHANGED <<running, list, link, at, erase>>

AnswerWrongPinKeepsHandle ==
    /\ Answer("wrong")
    /\ rec' = IF Alive THEN [rec EXCEPT ![Client].dev = msg.dev]
                       ELSE [rec EXCEPT ![Client].adrift = TRUE]
    /\ link' = Closed(Client)
    /\ UNCHANGED <<running, list, at, erase>>

AnswerWrongPin ==
    /\ Answer("wrong")
    /\ rec' = IF Alive THEN [rec EXCEPT ![Client].dev = msg.dev, ![Client].valid = FALSE]
                       ELSE [rec EXCEPT ![Client].adrift = TRUE]
    /\ link' = Closed(Client)
    /\ UNCHANGED <<running, list, at, erase>>

-----------------------------------------------------------------------------
ProcessFrames == \/ FramesDone \/ Oversized \/ Command
                 \/ Authenticate \/ EraseStale \/ EraseDone
                 \/ AnswerMalformed \/ AnswerOk \/ AnswerWrongPin

Poll == \/ AcceptNewClients \/ ReadFromClients \/ ProcessFrames \/ ReadDone
        \/ CheckTimeouts \/ PollDone

Next == \/ Start \/ Stop \/ Poll
        \/ \E s \in Conns : Connect(s) \/ Leave(s) \/ MinutePasses(s)

Spec == Init /\ [][Next]_vars

(***************************************************************************)
(* The timer fires every 50 ms, and a connection on which nothing arrives  *)
(* is idle after a minute, be it between any two Polls.                    *)
(***************************************************************************)
FairSpec == Spec /\ WF_vars(Poll) /\ \A s \in Conns : SF_vars(MinutePasses(s))

-----------------------------------------------------------------------------
(***************************************************************************)
(* AnswersHold: a connection that was answered AUTH_OK may send commands,  *)
(* and no other may, whatever connections its AUTH or another's evicts;    *)
(* but for the one whose answer went to no record, until it is answered    *)
(* again (tcp_server.cpp:149-181, IPC-Protocol.md:51).                     *)
(***************************************************************************)
AnswersHold == \A s \in Listed : rec[s].valid /\ ~rec[s].adrift => (rec[s].auth <=> rec[s].told)

(***************************************************************************)
(* ServedProved: commands are posted only for connections that sent the    *)
(* PIN themselves, or were given the answer of one that did when its AUTH  *)
(* evicted a connection in front of both (tcp_server.cpp:149-206).         *)
(***************************************************************************)
ServedProved == \A s \in Listed : rec[s].served => rec[s].proved \/ rec[s].misled

(***************************************************************************)
(* OnePerDevice: no device keeps two connections.  The one that connected  *)
(* again stays, the old one goes, even if its record is the one in front   *)
(* (tcp_server.cpp:148-176).                                               *)
(***************************************************************************)
OnePerDevice ==
    \A r, s \in Listed : /\ rec[r].valid /\ rec[s].valid
                         /\ rec[r].dev = rec[s].dev /\ rec[r].dev # NoDevice
                         /\ ~rec[r].doubled /\ ~rec[s].doubled
                         => r = s

(***************************************************************************)
(* SocketsHeld: a socket that is open has a record, and so will be closed  *)
(* some day; and a record never names a socket that is closed and whose    *)
(* value may belong to another by now, save that of an answer that went to *)
(* no record (tcp_server.cpp:151-152, 184-185, 265-270).                   *)
(***************************************************************************)
SocketsHeld ==
    /\ \A s \in Conns : link[s] \in Held => s \in Listed /\ rec[s].valid
    /\ \A s \in Listed : rec[s].valid => link[s] \in Held \/ rec[s].adrift

(***************************************************************************)
(* LostAreDropped: a connection whose other end closed it, or vanished,    *)
(* frees its place (tcp_server.cpp:100-116, 253-263).                      *)
(***************************************************************************)
LostAreDropped == \A s \in Conns : link[s] \in {"ended", "gone"} ~> link[s] = "closed"
=============================================================================
