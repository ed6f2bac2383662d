--------------------------- MODULE MCEAcceptServer ---------------------------
(* Small instance of EAcceptServer for TLC.                                *)
EXTENDS EAcceptServer, FiniteSetsExt

CONSTANTS w1, w2, w3, MaxTotal

MCWorkers == {w1, w2, w3}

Total(count) == MapThenSumSet(LAMBDA e : count[e], Ends)

Gone(e) == conn[e] \in {"eof", "reset"}

(* Bound: MaxTotal chunks in both directions together, and one peer that   *)
(* either ends its stream or resets its connection, if there is one chunk  *)
(* less.                                                                   *)
NextBounded ==
    /\ Next
    /\ Total(received') \leq MaxTotal
    /\ Cardinality({e \in Ends : Gone(e)'}) \leq 1
    /\ \A e \in Ends : Gone(e) => UNCHANGED conn[e]
    /\ (\E e \in Ends : Gone(e)') => Total(received') < MaxTotal

FairBounded ==
    /\ Init /\ [][NextBounded]_vars
    /\ \A w \in Workers : WF_vars(Worker(w))
    /\ WF_vars(\E e \in Ends : ConnectCompletes(e))
=============================================================================
