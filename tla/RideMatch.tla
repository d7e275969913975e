------------------------------ MODULE RideMatch ------------------------------
(***************************************************************************)
(* What the instant-ride service promises about one request, whatever      *)
(* handlers, jobs and retries run underneath: a request is searched for,   *)
(* is won by at most one driver, and once its search or its ride is over   *)
(* it never comes back.  InstantDispatch implements this specification.    *)
(***************************************************************************)
CONSTANTS Request, Driver, NoDriver

VARIABLES phase,   \* "none", "searching", "matched" or "ended"
          winner   \* the driver who won the request, for ever after

vars == <<phase, winner>>

Phase == {"none", "searching", "matched", "ended"}

TypeOK == /\ phase \in [Request -> Phase]
          /\ winner \in [Request -> Driver \cup {NoDriver}]

Init == /\ phase = [r \in Request |-> "none"]
        /\ winner = [r \in Request |-> NoDriver]

Ask(r) == /\ phase[r] = "none"
          /\ phase' = [phase EXCEPT ![r] = "searching"]
          /\ UNCHANGED winner

Match(r, d) == /\ phase[r] = "searching"
               /\ phase' = [phase EXCEPT ![r] = "matched"]
               /\ winner' = [winner EXCEPT ![r] = d]

End(r) == /\ phase[r] \in {"searching", "matched"}
          /\ phase' = [phase EXCEPT ![r] = "ended"]
          /\ UNCHANGED winner

Next == \E r \in Request : Ask(r) \/ End(r) \/ \E d \in Driver : Match(r, d)

Spec == Init /\ [][Next]_vars
=============================================================================
