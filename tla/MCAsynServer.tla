----------------------------- MODULE MCAsynServer -----------------------------
(* Small instance of AsynServer for TLC.                                   *)
EXTENDS AsynServer, TLC

CONSTANTS w1, w2, w3

MCWorkers == {w1, w2, w3}
MCTwoWorkers == {w1, w2}

(* Workers are interchangeable; no liveness is checked with this.          *)
Symmetric == Permutations(MCWorkers)

(* Bounds of the run with two connections: Close is not called and only    *)
(* the first peer resets its connection (the other run has both).          *)
NextServing == Next /\ owner' # "post" /\ \A c \in Clients \ {1} : conn'[c] # "reset"

FairServing ==
    Init /\ [][NextServing]_vars
         /\ WF_vars(Start) /\ \A w \in Workers : WF_vars(Worker(w))
=============================================================================
