------------------------- MODULE MCCompletionRouter -------------------------
(* One event, routed, acknowledged and retried by threads of a controller. *)
EXTENDS CompletionRouter

CONSTANTS r1, r2, r3, a1, t1, i1, e1

OneEvent    == [c \in Calls |-> e1]
OneInstance == [c \in Calls |-> i1]
=============================================================================
