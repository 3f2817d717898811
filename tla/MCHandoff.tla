------------------------------ MODULE MCHandoff ------------------------------
(* The threads of the turns, for the configurations of Handoff.            *)
EXTENDS Handoff

CONSTANTS u1, u2, h1, h2

(* Two turns of one thread, one after the other.                           *)
OneThread == [u \in Turns |-> h1]

(* Turns that run at the same time.                                        *)
TwoThreads == [u \in Turns |-> IF u = u1 THEN h1 ELSE h2]
=============================================================================
