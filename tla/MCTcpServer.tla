---------------------------- MODULE MCTcpServer -----------------------------
(***************************************************************************)
(* TcpServer with a tablet that connects twice, and a phone: a2 may evict  *)
(* a1 while b is behind it, and send AUTH again.                           *)
(***************************************************************************)
EXTENDS TcpServer

CONSTANTS a1, a2, b, tablet, phone

MCOwner == [s \in Conns |-> IF s = b THEN phone ELSE tablet]
MCMaxFrames == [s \in Conns |-> IF s = a2 THEN 2 ELSE 1]
MCSends == [s \in Conns |-> IF s = a1 THEN {"auth", "huge"}
                            ELSE IF s = a2 THEN {"auth", "wrong"} ELSE {"command", "short"}]
=============================================================================
