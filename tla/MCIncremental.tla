---------------------------- MODULE MCIncremental ----------------------------
(***************************************************************************)
(* Instances of Incremental for TLC.                                       *)
(***************************************************************************)
EXTENDS Incremental

CONSTANTS a, b

Fields(in, src, o) ==
    [unify |-> FALSE, archive |-> FALSE, input |-> in, inputSrc |-> src, output |-> o]
Unify(r)   == [r EXCEPT !.unify = TRUE]
Archive(r) == [r EXCEPT !.unify = TRUE, !.archive = TRUE]

Both   == <<a, b>>
OneSrc == Fields(Absent, Both, Absent)

\* One list, for the three kinds of rules; two lists, of equal length or not; an
\* output that is listed twice.
Lists == {OneSrc, Unify(OneSrc), Archive(OneSrc), Fields(<<a>>, Absent, <<b>>),
          Fields(Both, Absent, <<a>>), Fields(<<a>>, Both, Absent),
          Fields(Both, Absent, <<b, b>>)}

\* Fields that are no usable list.
BadLists ==
    {Fields(f, Absent, Absent) : f \in {Absent, Scalar, NoData}}
    \cup {Fields(Absent, f, Absent) : f \in {Dangling, Scalar, NoData}}
    \cup {Fields(<<a>>, f, Absent) : f \in {Dangling, Scalar, NoData}}
    \cup {Fields(<<a>>, Absent, f) : f \in {Scalar, NoData}}

AllRules == Lists \cup BadLists \cup {Unify(r) : r \in BadLists}
==============================================================================
