----------------------------- MODULE MCClientMap -----------------------------
(* Small instance of ClientMap for TLC.                                    *)
EXTENDS ClientMap

CONSTANTS a, b, q1, q2

MCClients == {a, b}
MCQueries == {q1, q2}
=============================================================================
