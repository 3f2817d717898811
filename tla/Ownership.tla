------------------------------ MODULE Ownership ------------------------------
(***************************************************************************)
(* What the ownership ledger promises, without its file and its locks: a   *)
(* job gets one backend owner, which never changes, and a first stage of   *)
(* its creator's choice; from there it only goes on, into the background   *)
(* at most once and only with a backend that can take it; and one step     *)
(* moves one job.                                                          *)
(***************************************************************************)
CONSTANTS Jobs, Backends, Detachable, Nobody

VARIABLES owner,  \* owner[j]: the backend of j, Nobody before its handoff
          stage   \* stage[j]: how far the handoff of j is

ownershipVars == <<owner, stage>>

Stage == {"none", "foreground", "background", "settling", "over"}

OwnershipInit ==
  /\ owner = [j \in Jobs |-> Nobody]
  /\ stage = [j \in Jobs |-> "none"]

Move(j, from, to) ==
  /\ stage[j] \in from
  /\ stage' = [stage EXCEPT ![j] = to]

Own(j, b, first) ==
  /\ Move(j, {"none"}, first)
  /\ owner' = [owner EXCEPT ![j] = b]

Detach(j) ==
  /\ owner[j] \in Detachable
  /\ Move(j, {"foreground"}, "background")
  /\ UNCHANGED owner

Settle(j) == Move(j, {"foreground", "background"}, "settling") /\ UNCHANGED owner

Finish(j) ==
  Move(j, {"foreground", "background", "settling"}, "over") /\ UNCHANGED owner

OwnershipNext ==
  \E j \in Jobs :
    \/ \E b \in Backends, first \in Stage \ {"none"} : Own(j, b, first)
    \/ Detach(j) \/ Settle(j) \/ Finish(j)

OwnershipSpec == OwnershipInit /\ [][OwnershipNext]_ownershipVars
=============================================================================
