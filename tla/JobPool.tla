------------------------------ MODULE JobPool ------------------------------
(***************************************************************************)
(* What run_singular (src/src/c_rule.c) promises its callers about the     *)
(* children of a rule, without the process table: never more than "bound"  *)
(* at once, no job twice, and, unless -k was given, none started after a   *)
(* failure was seen and none left when it returns. RunSingular implements  *)
(* it.                                                                     *)
(***************************************************************************)
EXTENDS Integers, FiniteSets

CONSTANT Jobs

VARIABLES
    bound,      \* max_procs, 1 for a serial rule
    failFast,   \* -k was not given
    running,    \* jobs whose script was started and not yet waited for
    ended,      \* jobs that were waited for
    failed,     \* those of them that failed
    closed      \* run_singular has returned

vars == <<bound, failFast, running, ended, failed, closed>>

Init ==
    /\ bound \in 0..255
    /\ failFast \in BOOLEAN
    /\ running = {} /\ ended = {} /\ failed = {}
    /\ closed = FALSE

Start(j) ==
    /\ ~closed
    /\ j \notin running \cup ended
    /\ Cardinality(running) < bound
    /\ failFast => failed = {}
    /\ running' = running \cup {j}
    /\ UNCHANGED <<bound, failFast, ended, failed, closed>>

End(j) ==
    /\ ~closed
    /\ j \in running
    /\ running' = running \ {j}
    /\ ended' = ended \cup {j}
    /\ failed' \in {failed, failed \cup {j}}
    /\ UNCHANGED <<bound, failFast, closed>>

Close ==
    /\ ~closed
    /\ failFast => running = {}
    /\ closed' = TRUE
    /\ UNCHANGED <<bound, failFast, running, ended, failed>>

Next == Close \/ \E j \in Jobs : Start(j) \/ End(j)

Spec == Init /\ [][Next]_vars
=============================================================================
