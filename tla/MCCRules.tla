------------------------------ MODULE MCCRules ------------------------------
(***************************************************************************)
(* Instances of CRules for TLC.                                            *)
(***************************************************************************)
EXTENDS CRules

CONSTANTS r1, r2, r3

Names == Rules \cup {Missing}
Lists == {<<>>} \cup {<<x>> : x \in Names} \cup {<<x, y>> : x, y \in Names}

\* Every way in which two rules require each other, a third one and an unknown
\* one; the target lists the first two rules, or the first and an unknown one.
AllFiles ==
    {q \in [Rules \cup {Org} -> Lists] :
        q[r3] = <<>> /\ q[Org] \in {<<r1, r2>>, <<r1, Missing>>}}
=============================================================================
