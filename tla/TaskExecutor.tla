----------------------------- MODULE TaskExecutor -----------------------------
(***************************************************************************)
(* What the thread pool promises of each task, whatever the threads do:    *)
(* it is run at most once; as long as the pool is open an accepted task    *)
(* can only be run, and run to its end; while the pool is closing, tasks   *)
(* that wait may be discarded; once it is closed no task begins, and one   *)
(* that still runs may be cut short.  A closed pool stays closed.          *)
(***************************************************************************)
CONSTANT Tasks

VARIABLES phase, state

vars == << phase, state >>

Phases == {"open", "closing", "closed"}

Later(p) == CASE p = "open"    -> Phases
              [] p = "closing" -> {"closing", "closed"}
              [] p = "closed"  -> {"closed"}

(* What can become of a task in one step that begins in phase p.           *)
Moves(p) ==
    {<< "new", "rejected" >>, << "new", "accepted" >>, << "running", "executed" >>}
        \cup (IF p # "closed" THEN {<< "accepted", "running" >>} ELSE {})
        \cup (IF p # "open" THEN {<< "accepted", "discarded" >>} ELSE {})
        \cup (IF p = "closed" THEN {<< "running", "cut" >>} ELSE {})

Init ==
    /\ phase = "open"
    /\ state = [t \in Tasks |-> "new"]

Next ==
    /\ phase' \in Later(phase)
    /\ state' \in [Tasks -> {"new", "rejected", "accepted", "running",
                             "executed", "discarded", "cut"}]
    /\ \A t \in Tasks :
           state'[t] # state[t] => << state[t], state'[t] >> \in Moves(phase)

Spec == Init /\ [][Next]_vars
=============================================================================
