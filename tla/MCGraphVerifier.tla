-------------------------- MODULE MCGraphVerifier --------------------------
(***************************************************************************)
(* Both scripts, and clients without one in worlds small enough to be       *)
(* searched: files without threads, threads without files, and a stream of  *)
(* three chunks that nobody else's request meets.                           *)
(***************************************************************************)
EXTENDS GraphVerifier

CONSTANTS u1, u2, u3, c1, c2

MCUsers == {u1, u2, u3}
MCTokens == <<u1, u2, u3>>
MCClients == {c1, c2}
MCThreads == 4
MCChunks == 3
MCRequestMax == 3
MCFileMax == 2
MCChunkMax == 2
MCSizeMax == 4
MCGuests == {u1, u2}
MCGuestThreads == {1, 2}

InUse == {c \in Clients : call[c] # NoCall}
Running == IF run = NoRun \/ run.background THEN {} ELSE {run.client}
Born == {t \in Ids : threads[t].status # "unborn"}

FilesWorld ==
    /\ plan = "files"
    /\ \A c \in InUse : call[c].op = "upload" =>
           admins = {} /\ \A other \in InUse \ {c} : call[other].op = "file_delete"
    /\ admins \subseteq {B}

IdleWorld ==
    /\ plan = "threads" /\ run = NoRun
    /\ Cardinality(InUse) <= 1
    /\ Born \subseteq GuestThreads
    /\ admins \subseteq {B}

RunWorld ==
    /\ plan = "threads" /\ run # NoRun
    /\ run.user = A /\ run.thread = 1 /\ run.client = c1
    /\ admins = {}
    /\ Born = {1} /\ ~threads[1].changed /\ threads[1].status \in {"idle", "deleted"}
    /\ \A c \in InUse \ Running : call[c].as = A /\ call[c].op \in {"cancel", "delete"} /\ call[c].on = 1
    /\ produced <= 1

StreamWorld ==
    /\ plan = "threads" /\ run # NoRun
    /\ run.user = A /\ run.thread = Query /\ run.client = c1
    /\ admins = {} /\ Born = {}
    /\ InUse = Running

Small == Scripted \/ FilesWorld \/ IdleWorld \/ RunWorld \/ StreamWorld
=============================================================================
