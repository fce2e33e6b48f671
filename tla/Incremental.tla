---------------------------- MODULE Incremental ----------------------------
(***************************************************************************)
(* Incremental building (src/src/c_rule.c): what get_io_fields,            *)
(* is_file_newer, run_unify and the loop of run_singular leave on disk     *)
(* over any sequence of edits and builds of one rule.                      *)
(*                                                                         *)
(* now counts ticks; every edit gets a tick of its own, so the tick of its *)
(* last edit is the version of an input. Formatting a list element gives a *)
(* file of its own; a script reads its inputs when it starts and writes    *)
(* its output when it ends.                                                *)
(***************************************************************************)
EXTENDS Integers, Sequences, FiniteSets, Functions

CONSTANTS
    Elements,       \* list elements of the build file
    Whole,          \* the one output of a unify rule
    Rules,          \* the rules a behaviour may be about
    TicksPerSecond,
    IntMax,         \* the largest second an int can hold
    MaxTick,        \* bound: the last tick
    Absent, Dangling, Scalar, NoData    \* fields that are no list, see Field

\* A field of the rule (for input_src, the one its path leads to): a list, none,
\* a path that leads nowhere, a field of another type, a list without data.
NoList == {Absent, Dangling, Scalar, NoData}
Field  == NoList \cup Seq(Elements)

\* archive: the rule's script replaces members of its output, as ar does, where
\* others, as linkers do, make it anew from the inputs they are given.
Rule == [unify : BOOLEAN, archive : BOOLEAN,
         input : Field, inputSrc : Field, output : Field]

ASSUME ElementsAssumption == IsFiniteSet(Elements) /\ Whole \notin Elements
ASSUME IncrementalRulesAssumption ==
    Rules \subseteq Rule /\ \A r \in Rules : r.archive => r.unify
ASSUME TicksAssumption ==
    TicksPerSecond \in Nat \ {0} /\ IntMax \in Nat /\ MaxTick \in Nat

VARIABLES
    rule,
    now,
    inTime,     \* the tick of each input's last edit
    out,        \* each output: when it was written, and from what
    pc,         \* where mb is; "returned" when nothing happened since, else "idle"
    opts,       \* of the last build: full (the rule's build_type), force, keepGoing
    during,     \* (history variable) inputs edited while it was running
    late,       \* (history variable) inputs whose last edit was a late one
    ix,         \* loop index, 1-based
    inputs,     \* the dynfield "input": the elements handed to the script
    read,       \* what the script read
    ret

files == <<now, inTime, out, during, late>>
vars  == <<rule, files, pc, opts, ix, inputs, read, ret>>

Gone    == -1                   \* no such file; no part of an output
Nothing == [e \in Elements |-> Gone]
NoFile  == [time |-> Gone, made |-> Nothing, broken |-> FALSE]
Outputs == Elements \cup {Whole}
Options == [full : BOOLEAN, force : BOOLEAN, keepGoing : BOOLEAN]
Ticks   == {Gone} \cup 0..MaxTick

-----------------------------------------------------------------------------
(* The decisions.                                                          *)

Second(t) == t \div TicksPerSecond

\* st_mtim.tv_sec, stored in an int.
Mtime(t) == ((Second(t) + IntMax + 1) % (2 * (IntMax + 1))) - (IntMax + 1)

\* Mistake: equal times count as newer.
NotOlder(t1, t2) == Gone \in {t1, t2} \/ Mtime(t1) >= Mtime(t2)

\* Mistake: the arguments are swapped.
IsFileOlder(t1, t2) == Gone \in {t1, t2} \/ Mtime(t1) < Mtime(t2)

\* When either file cannot be opened, 1 > 0 is returned.
IsFileNewer(t1, t2) == Gone \in {t1, t2} \/ Mtime(t1) > Mtime(t2)

\* get_io_fields. Without a field "output" the outputs are looked for under
\* "input_src", and a field found there is taken whatever its type.
InputField  == IF rule.input # Absent THEN rule.input ELSE rule.inputSrc
OutputField == IF rule.output # Absent THEN rule.output
               ELSE IF rule.inputSrc # Absent THEN rule.inputSrc ELSE rule.input

\* Mistake: only the outputs are checked.
GetOutputField == OutputField \notin {Absent, Dangling, Scalar}

GetIoFields ==
    /\ InputField \notin NoList
    /\ OutputField # Dangling
    /\ rule.output # Scalar

\* run_singular loops over the outputs, run_unify over the inputs.
Looped    == IF rule.unify THEN InputField ELSE OutputField
Output(i) == IF rule.unify THEN Whole ELSE OutputField[i]

\* Mistake: --force is not looked at.
OutOfDateUnforced(i) ==
    opts.full \/ IsFileNewer(inTime[InputField[i]], out[Output(i)].time)

\* Element i is not skipped.
OutOfDate(i) ==
    \/ opts.full \/ opts.force
    \/ IsFileNewer(inTime[InputField[i]], out[Output(i)].time)

TypeOK ==
    /\ rule \in Rules
    /\ now \in 0..MaxTick
    /\ inTime \in [Elements -> Ticks]
    /\ out \in [Outputs -> [time : Ticks, made : [Elements -> Ticks], broken : BOOLEAN]]
    /\ pc \in {"idle", "loop", "script", "returned", "undefined"}
    /\ opts \in Options
    /\ during \subseteq Elements /\ late \subseteq Elements
    /\ ix \in Nat \ {0}
    /\ inputs \subseteq Elements
    /\ read \in [Elements -> Ticks]
    /\ ret \in {0, 1}
    /\ pc = "script" => inputs # {} /\ ix <= Len(Looped) + 1

\* No build so far; sources that are there, or are still to be generated.
Init ==
    /\ rule \in Rules
    /\ now = 0
    /\ inTime \in [Elements -> {Gone, 0}]
    /\ out = [o \in Outputs |-> NoFile]
    /\ pc = "idle"
    /\ opts = [full |-> FALSE, force |-> FALSE, keepGoing |-> FALSE]
    /\ during = {} /\ late = {}
    /\ ix = 1 /\ inputs = {} /\ read = Nothing /\ ret = 1

-----------------------------------------------------------------------------
(* The user and the clock, at any time.                                    *)

Tick ==
    /\ now < MaxTick
    /\ now' = now + 1
    /\ UNCHANGED <<rule, inTime, out, during, late, pc, opts, ix, inputs, read, ret>>

AtRest == pc \in {"idle", "returned"}

\* An edit is late while a build runs, and in the second an output was written in.
Edit(e) ==
    /\ now < MaxTick
    /\ now' = now + 1
    /\ inTime' = [inTime EXCEPT ![e] = now']
    /\ during' = IF AtRest THEN during ELSE during \cup {e}
    /\ late' = IF AtRest /\ \A o \in Outputs : Second(out[o].time) # Second(now')
               THEN late \ {e} ELSE late \cup {e}
    /\ pc' = IF AtRest THEN "idle" ELSE pc
    /\ UNCHANGED <<rule, out, opts, ix, inputs, read, ret>>

Clean ==
    /\ AtRest /\ pc' = "idle"
    /\ out' = [o \in Outputs |-> NoFile]
    /\ UNCHANGED <<rule, now, inTime, during, late, opts, ix, inputs, read, ret>>

-----------------------------------------------------------------------------
(* A build of the rule.                                                    *)

\* Without usable lists the build ends here. A list without data, and a field of
\* another type that is read as a list, are undefined.
Start ==
    /\ AtRest
    /\ opts' \in Options
    /\ during' = {}
    /\ ix' = 1 /\ inputs' = {} /\ read' = Nothing
    /\ pc' = IF ~GetIoFields THEN "returned"
             ELSE IF Looped \in NoList THEN "undefined" ELSE "loop"
    /\ ret' = IF GetIoFields THEN 0 ELSE 1
    /\ UNCHANGED <<rule, now, inTime, out, late>>

\* A missing exec or format field, or a format that cannot be expanded.
Fails ==
    /\ pc = "loop"
    /\ pc' = "returned" /\ ret' = 1
    /\ UNCHANGED <<rule, files, opts, ix, inputs, read>>

\* run_singular reads the input that belongs to an output: behind the end of the
\* list of inputs if that is shorter.
ReadBehindEnd ==
    /\ pc = "loop" /\ ix \in (DOMAIN Looped) \ (DOMAIN InputField)
    /\ pc' = "undefined"
    /\ UNCHANGED <<rule, files, opts, ix, inputs, read, ret>>

AtElement == pc = "loop" /\ ix \in (DOMAIN Looped) \cap (DOMAIN InputField)

Skip ==
    /\ AtElement /\ ~OutOfDate(ix)
    /\ ix' = ix + 1
    /\ UNCHANGED <<rule, files, pc, opts, inputs, read, ret>>

\* run_unify appends the input to those for the script.
Collect ==
    /\ AtElement /\ rule.unify /\ OutOfDate(ix)
    /\ inputs' = inputs \cup {InputField[ix]}
    /\ ix' = ix + 1
    /\ UNCHANGED <<rule, files, pc, opts, read, ret>>

RunScript(S) ==
    /\ inputs' = S
    /\ read' = [e \in Elements |-> IF e \in S THEN inTime[e] ELSE Gone]
    /\ pc' = "script"
    /\ UNCHANGED <<rule, files, opts, ix, ret>>

ExecSingular == AtElement /\ ~rule.unify /\ OutOfDate(ix) /\ RunScript({InputField[ix]})

\* Mistake: only the input that was looked at last is passed.
ExecUnifyLast ==
    /\ pc = "loop" /\ rule.unify /\ ix > Len(Looped)
    /\ inputs # {} /\ RunScript(inputs \cap {InputField[ix - 1]})

ExecUnify ==
    /\ pc = "loop" /\ rule.unify /\ ix > Len(Looped)
    /\ inputs # {} /\ RunScript(inputs)

LoopEnds ==
    /\ pc = "loop" /\ ix > Len(Looped)
    /\ inputs = {} \/ ~rule.unify
    /\ pc' = "returned"
    /\ UNCHANGED <<rule, files, opts, ix, inputs, read, ret>>

\* The script writes its output from what it read, which it cannot if an input is
\* missing; or it fails, before it wrote anything or after.
ScriptEnds ==
    /\ pc = "script"
    /\ LET o    == Output(ix)
           kept == IF rule.archive THEN out[o] ELSE NoFile
           made == [e \in Elements |-> IF e \in inputs THEN read[e] ELSE kept.made[e]]
       IN  \/ /\ \A e \in inputs : read[e] # Gone
              /\ out' = [out EXCEPT ![o] = [time |-> now, made |-> made,
                                            broken |-> kept.broken]]
              /\ UNCHANGED ret
           \/ /\ \/ UNCHANGED out
                 \/ out' = [out EXCEPT ![o] = [NoFile EXCEPT !.time = now,
                                                              !.broken = TRUE]]
              /\ ret' = 1
    /\ pc' = IF rule.unify \/ (ret' # 0 /\ ~opts.keepGoing) THEN "returned" ELSE "loop"
    /\ ix' = ix + 1 /\ inputs' = {} /\ read' = Nothing
    /\ UNCHANGED <<rule, now, inTime, during, late, opts>>

Next ==
    \/ Tick \/ Clean \/ \E e \in Elements : Edit(e)
    \/ Start \/ Fails \/ ReadBehindEnd \/ Skip \/ Collect
    \/ ExecSingular \/ ExecUnify \/ LoopEnds \/ ScriptEnds
    \/ pc = "undefined" /\ UNCHANGED vars

Spec == Init /\ [][Next]_vars

-----------------------------------------------------------------------------
(* Properties.                                                             *)

Succeeded == pc = "returned" /\ ret = 0
Forced    == opts.full \/ opts.force

\* A time that an int cannot hold, as from 2038 on.
Beyond(t) == Second(t) > IntMax

\* No other element of the rule writes to the output of this one. An output that
\* is listed twice is made from the input of either of the two, not of both.
OwnOutput(i) == rule.unify \/ \A j \in (DOMAIN Looped) \ {i} : Output(j) # Output(i)

\* A successful build leaves every output that is listed once made from the present
\* version of its input, except for late edits, for an output a failed script has
\* left, and for edits after 2038. A unify rule gets as much only from a script that keeps what
\* it is not given anew.
UpToDate ==
    Succeeded /\ (rule.unify => rule.archive) =>
        \A i \in {j \in DOMAIN Looped : OwnOutput(j)} :
            LET e == InputField[i]
                o == out[Output(i)]
            IN  o.made[e] = inTime[e] \/ e \in late \/ o.broken \/ Beyond(inTime[e])

\* After a full or forced build only edits made meanwhile are missing, whatever
\* was there before and whatever the rule's script does with its output.
ForcedIsUpToDate ==
    Succeeded /\ Forced =>
        \A i \in {j \in DOMAIN Looped : OwnOutput(j)} :
            LET e == InputField[i]
            IN  out[Output(i)].made[e] = inTime[e] \/ e \in during

\* An incremental build runs no script for an input that its output was made
\* from, and the first script for an output gets all inputs there are for it.
ScriptInputs ==
    [][ pc = "loop" /\ pc' = "script" =>
          LET o == out[Output(ix)] IN
          /\ Forced \/ \A e \in inputs' :
                 o.made[e] # inTime[e] \/ inTime[e] = Gone \/ Beyond(o.time)
          /\ rule.unify /\ o = NoFile => inputs' = Range(InputField) ]_vars

\* The lists are read in bounds, and as what they are, in every rule that names
\* only one: without a field "output", and with either "input" or "input_src".
OneListIsSafe ==
    pc = "undefined" =>
        \/ rule.output # Absent
        \/ rule.input # Absent /\ rule.inputSrc # Absent
=============================================================================
