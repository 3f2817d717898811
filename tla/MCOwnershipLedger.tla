------------------------- MODULE MCOwnershipLedger -------------------------
(* Two processes that share a ledger, each with threads: x1 and x2 compete *)
(* for the job that c1 creates, while c2 writes another record.            *)
EXTENDS OwnershipLedger

CONSTANTS c1, c2, x1, x2, i1, i2, j1, j2

Processes == [c \in Calls |-> IF c \in {c1, x1} THEN i1 ELSE i2]
Requests  == [c \in Calls |-> IF c = c2 THEN j2 ELSE j1]

(* Every backend once in the foreground or at the end, and a job that its  *)
(* creator puts into a background that is not its backend's.               *)
Pending ==
  {[state |-> "FOREGROUND", backend |-> "THREAD_NATIVE_TERMINAL"],
   [state |-> "FOREGROUND", backend |-> "SANDBOX_DESCENDANT_SUPERVISOR"],
   [state |-> "FOREGROUND", backend |-> "CLI_RESUME_FALLBACK"],
   [state |-> "SUPERVISOR_BACKGROUND", backend |-> "THREAD_NATIVE_TERMINAL"],
   [state |-> "COMPLETED", backend |-> "CONTROLLER_COMMAND_EXEC"]}
=============================================================================
