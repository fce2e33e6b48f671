--------------------------- MODULE MCRunSingular ---------------------------
(***************************************************************************)
(* Instances of RunSingular for TLC.                                       *)
(***************************************************************************)
EXTENDS RunSingular

Rule(p, k, m) == [parallel |-> p, ignoreFailures |-> k, maxProcs |-> m]

\* Every kind of rule with and without -k; no slot, one and two.
AllConfigs ==
    {Rule(FALSE, k, 4) : k \in BOOLEAN} \cup {Rule(TRUE, k, m) : k \in BOOLEAN, m \in 0..2}

StrictParallel == {Rule(TRUE, FALSE, 2)}
KeepGoingParallel == {Rule(TRUE, TRUE, 2)}
Serial == {Rule(FALSE, FALSE, 4)}

AllFaults == {"setup", "format", "script", "fork", "kill"}
NoFaults == {}
FormatFault == {"format"}
=============================================================================
