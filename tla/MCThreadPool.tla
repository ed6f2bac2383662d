---------------------------- MODULE MCThreadPool ----------------------------
(* Small instances of ThreadPool for TLC.                                  *)
EXTENDS ThreadPool

CONSTANTS t1, t2, t3, c1, c2

MCTasks2 == {t1, t2}
MCTasks3 == {t1, t2, t3}
MCCallers == {c1, c2}
=============================================================================
