---------------------------- MODULE ClientRegistry ----------------------------
(***************************************************************************)
(* What the client map promises its callers, who never see the thread that *)
(* owns the map: adding and deleting take effect in the order of the calls *)
(* and at once, and an answered question was answered with the clients     *)
(* known at the moment it was asked.  A question may also be given up.     *)
(***************************************************************************)
CONSTANTS Clients, Queries

VARIABLES clients, call, wanted, answer

vars == << clients, call, wanted, answer >>

Init ==
    /\ clients = {}
    /\ call = [q \in Queries |-> "none"]
    /\ wanted = [q \in Queries |-> {}]
    /\ answer = [q \in Queries |-> {}]

Add(c) ==
    /\ clients' = clients \cup {c}
    /\ UNCHANGED << call, wanted, answer >>

Delete(c) ==
    /\ clients' = clients \ {c}
    /\ UNCHANGED << call, wanted, answer >>

Ask(q) ==
    /\ call[q] = "none"
    /\ call' = [call EXCEPT ![q] = "wait"]
    /\ \E S \in {Clients} \cup {{c} : c \in Clients} :
           /\ wanted' = [wanted EXCEPT ![q] = S]
           /\ answer' = [answer EXCEPT ![q] = clients \cap S]
    /\ UNCHANGED clients

Answered(q) ==
    /\ call[q] = "wait"
    /\ call' = [call EXCEPT ![q] = "OK"]
    /\ UNCHANGED << clients, wanted, answer >>

GiveUp(q) ==
    /\ call[q] \in {"none", "wait"}
    /\ call' = [call EXCEPT ![q] = "failed"]
    /\ answer' = [answer EXCEPT ![q] = {}]
    /\ UNCHANGED << clients, wanted >>

Next ==
    \/ \E c \in Clients : Add(c) \/ Delete(c)
    \/ \E q \in Queries : Ask(q) \/ Answered(q) \/ GiveUp(q)

Spec == Init /\ [][Next]_vars
=============================================================================
