------------------------------ MODULE MCCThread ------------------------------
(* Small instances of CThread for TLC.                                     *)
EXTENDS CThread

CONSTANTS f1, f2

MCFunctions == {f1, f2}
=============================================================================
