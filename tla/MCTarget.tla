------------------------------ MODULE MCTarget ------------------------------
(***************************************************************************)
(* Instances of Target for TLC.                                            *)
(***************************************************************************)
EXTENDS Target

CONSTANTS a, b, c, f, g

\* Lists of at most two names, a missing one and a repetition among them.
Names == Targets \cup {Missing}
Lists == {<<>>} \cup {<<x>> : x \in Names} \cup {<<x, y>> : x, y \in Names}

\* Every graph on two targets, and every one on three whose third target
\* requires nothing: chains, diamonds, cycles through one and two targets.
\* Two field names, declared by a and b or by one target alone.
AllFields ==
    {[t \in Targets |-> IF t = a THEN {f} ELSE IF t = b THEN {f, g} ELSE {g}]}

SmallFiles ==
    {[target |-> a, required |-> r, fields |-> fs] :
        r \in {q \in [Targets -> Lists] : q[c] = <<>> }, fs \in AllFields}

\* Curated shapes on three targets, and a command line naming no target.
Shape(ra, rb, rc) == [t \in Targets |-> IF t = a THEN ra ELSE IF t = b THEN rb ELSE rc]

Shapes == {
    Shape(<<b, c>>, <<c>>, <<>>),           \* a diamond: c is built twice
    Shape(<<b>>, <<c>>, <<a>>),             \* a cycle through all
    Shape(<<b>>, <<c>>, <<b>>),             \* a cycle below the first target
    Shape(<<b, c>>, <<>>, <<Missing>>),
    Shape(<<c, b>>, <<c, Missing>>, <<>>) }

ShapedFiles ==
    {[target |-> t, required |-> r, fields |-> fs] :
        t \in {a, Missing}, r \in Shapes, fs \in AllFields}

AllFiles == SmallFiles \cup ShapedFiles

ShadowFiles == {x \in ShapedFiles : x.target = a}
=============================================================================
