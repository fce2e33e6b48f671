----------------------------- MODULE MCFrontEnd -----------------------------
(***************************************************************************)
(* Instances of FrontEnd for TLC.                                          *)
(***************************************************************************)
EXTENDS FrontEnd

TargetNames == {"debug", "release"}

Flag(k) == [key |-> k, arg |-> Absent]
Arg(k, a) == [key |-> k, arg |-> a]

\* Levels at, inside and outside of the bounds.
SomeOptions ==
    {Arg("t", "debug"), Arg("t", "release"), Arg("v", 0), Arg("v", 4), Arg("v", 5),
     Flag("f"), Flag("k"), Flag("unknown")}

\* A file that is no MCFG, and those with any combination of fields.
SomeFiles ==
    {[parses |-> p, targets |-> t, config |-> FALSE, public |-> Absent,
      default |-> Absent, buildType |-> Absent, logLevel |-> Absent] :
        p \in BOOLEAN, t \in {Absent, {}, {"release"}, TargetNames}}
    \cup
    {[parses |-> TRUE, targets |-> t, config |-> TRUE, public |-> p,
      default |-> d, buildType |-> b, logLevel |-> l] :
        t \in {Absent, {}, {"release"}, TargetNames}, p \in {Absent, IllTyped, NoData, "list"},
        d \in {Absent, IllTyped, "release"},
        b \in {Absent, IllTyped, "full", "other"}, l \in {Absent, -1, 4, 5}}
=============================================================================
