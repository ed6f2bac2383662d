---------------------------- MODULE MCEdoyunServer ----------------------------
(* Small instance of EdoyunServer for TLC.                                 *)
EXTENDS EdoyunServer

CONSTANTS c1, w1, w2

MCClients == {c1}
MCWorkers == {w1, w2}
(* POST /login, then GET /login?...                                        *)
MCGets == {<< c1, 2 >>}
MCLogins == {<< c1, 1 >>, << c1, 2 >>}
MCBlank == {<< c1, 1 >>}

(* Bound: TCP cuts before the blank end of the first request, and behind   *)
(* the method and within the URL of the second.                            *)
MCCuts == {3, 5, 6, 8}

(* Bound: where a client sends requests the clock stands still and the     *)
(* timer has not begun; where the timer runs it sends the end of its       *)
(* stream at most.  A stream ends when all of it was sent or nothing.      *)
NextHalves ==
    /\ Next
    /\ \A c \in Clients :
           /\ arrived'[c] \in {0} \cup MCCuts
           /\ c \in ended' => arrived'[c] \in {0, MaxParts}
    /\ \/ \A c \in Clients : arrived'[c] = 0
       \/ now' = 0 /\ timer' \in {"none", "first", "ended"}

FairHalves ==
    /\ Init /\ [][NextHalves]_vars
    /\ WF_vars(Start)
    /\ \A c \in Clients : WF_vars(PassesOn(c))
    /\ \A w \in Workers : WF_vars(Worker(w))
=============================================================================
