------------------------------ MODULE MCLogChain ------------------------------
(* Small instance of LogChain for TLC.                                     *)
EXTENDS LogChain

CONSTANTS t1, s1, s2

MCThreads == {t1}
MCServers == {s1, s2}

(* Bound: at most one thing failed when the Sink started; in the backlog   *)
(* is Main's CLogServer, if any; all posts to the map of clients succeed.  *)
InitBounded ==
    /\ ChainInit
    /\ conn[t1] = "open"
    /\ \/ m_pFile = "open" /\ logThread = "running"
       \/ conn[Main] = "open" /\ (m_pFile = "open" \/ logThread = "running")
    /\ m_mapClients = {c \in Actors : conn[c] = "open"}

NextBounded ==
    /\ ChainNext
    /\ \A c \in Actors : ends'[c] > ends[c] => c \notin m_mapClients'
    /\ place'[Main] \in {"get", "construct", "store", "main"} \/ main' = "getchar"

BoundedSpec == InitBounded /\ [][NextBounded]_chainVars
FairBounded == BoundedSpec /\ Fairness
=============================================================================
