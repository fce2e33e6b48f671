------------------------------- MODULE Target -------------------------------
(***************************************************************************)
(* mb_begin_build, mb_run_target and run_required_targets (src/src/build.c,*)
(* src/src/target.c): the recursion over required targets, with its        *)
(* history, which detects cycles, and the dynfields through which a target *)
(* hands its target_ fields to rules and scripts.                          *)
(*                                                                         *)
(* A target's rules and its exec script are one step each, which returns   *)
(* any of Codes (CRules and RunSingular model what happens inside). 0 also *)
(* stands for a field the target does not have. The build file is chosen   *)
(* in the initial state and never changes.                                 *)
(***************************************************************************)
EXTENDS Integers, Sequences, FiniteSets, Functions

CONSTANTS
    Targets,    \* names of the declared targets
    Missing,    \* a name that is not declared
    Fields,     \* names with the prefix target_
    NoTarget,   \* nobody: an unregistered dynfield, a freed history entry
    Files,      \* the build files a behaviour may start from
    Codes       \* return codes of rules and scripts

ASSUME NamesAssumption ==
    /\ Missing \notin Targets
    /\ NoTarget \notin Targets \cup {Missing}
    /\ IsFiniteSet(Targets)
ASSUME FilesAssumption ==
    Files \subseteq [target   : Targets \cup {Missing},
                     required : [Targets -> Seq(Targets \cup {Missing})],
                     fields   : [Targets -> SUBSET Fields]]
ASSUME CodesAssumption == Codes \subseteq 0..255 /\ 0 \in Codes

VARIABLES
    file,       \* cfg.target, and each target's required_targets and target_ fields
    keepGoing,  \* the -k flag, cfg.ignore_failures
    pc,         \* "begin" in mb_begin_build, "run" in mb_run_target, "ended"
    stack,      \* the activations of mb_run_target, the innermost one last
    history,    \* target_history, including an entry freed too early
    dynfields,  \* whose value each registered target_ dynfield has
    result,     \* what mb_begin_build returns
    started,    \* (history variable) targets that were entered
    succeeded   \* (history variable) targets whose activation returned 0

vars == <<file, keepGoing, pc, stack, history, dynfields, result, started, succeeded>>

\* phase follows the "Target Execution Order"; next indexes required_targets;
\* ret is run_required_targets' ret in phase "required", mb_run_target's later.
Frame == [name : Targets, phase : {"required", "rules", "exec", "exit"},
          next : Nat \ {0}, ret : 0..255, linked : SUBSET Fields]

Depth    == Len(stack)
Top      == stack[Depth]
Required == file.required[Top.name]

TypeOK ==
    /\ file \in Files
    /\ keepGoing \in BOOLEAN
    /\ pc \in {"begin", "run", "ended"}
    /\ stack \in Seq(Frame)
    /\ history \in Seq(Targets \cup {NoTarget})
    /\ dynfields \in [Fields -> Targets \cup {NoTarget}]
    /\ result \in 0..255
    /\ started \subseteq Targets
    /\ succeeded \subseteq Targets
    /\ pc = "run" <=> Depth > 0

Init ==
    /\ file \in Files
    /\ keepGoing \in BOOLEAN
    /\ pc = "begin"
    /\ stack = <<>>
    /\ history = <<>>
    /\ dynfields = [f \in Fields |-> NoTarget]
    /\ result = 0
    /\ started = {}
    /\ succeeded = {}

-----------------------------------------------------------------------------
(* Entering a target.                                                      *)

\* Mistake: a registered name is replaced and linked a second time.
LinkAll(t) == file.fields[t]

\* link_target_fields: a name that is registered already stays as it is and is
\* not linked (MCFG_DUPLICATE_DYNFIELD).
Linkable(t) == {f \in file.fields[t] : dynfields[f] = NoTarget}

\* mb_run_target's first part, for a target that is not in the history.
Enter(t, below) ==
    /\ stack' = Append(below, [name |-> t, phase |-> "required", next |-> 1,
                               ret |-> 0, linked |-> Linkable(t)])
    /\ history' = Append(history, t)
    /\ dynfields' = [f \in Fields |-> IF f \in Linkable(t) THEN t ELSE dynfields[f]]
    /\ started' = started \cup {t}

\* Mistake: no early return for a target that is not declared.
BeginBuildAnyway ==
    /\ pc = "begin"
    /\ \/ /\ file.target \in Targets
          /\ Enter(file.target, <<>>)
       \/ /\ file.target \notin Targets
          /\ UNCHANGED <<stack, history, dynfields, started>>
    /\ pc' = "run"
    /\ UNCHANGED <<file, keepGoing, result, succeeded>>

\* mb_begin_build
BeginBuild ==
    /\ pc = "begin"
    /\ \/ /\ file.target \in Targets
          /\ Enter(file.target, <<>>)
          /\ pc' = "run"
          /\ UNCHANGED result
       \/ /\ file.target \notin Targets
          /\ pc' = "ended"
          /\ result' = 1
          /\ UNCHANGED <<stack, history, dynfields, started>>
    /\ UNCHANGED <<file, keepGoing, succeeded>>

-----------------------------------------------------------------------------
(* run_required_targets.                                                   *)

AtRequired(name) ==
    /\ pc = "run" /\ Top.phase = "required"
    /\ Top.next \in DOMAIN Required
    /\ Required[Top.next] = name

ReplaceTop(frame) == stack' = [stack EXCEPT ![Depth] = frame]

\* Mistake: a failure of a required target is never looked at.
ResumeRegardless(frame, r) == [frame EXCEPT !.next = @ + 1]

\* The caller's frame after the target it required came back with code r. Under
\* -k the code is lost: an inner variable ret hides the one that is returned.
Resume(frame, r) ==
    IF r # 0 /\ ~keepGoing
    THEN [frame EXCEPT !.phase = "exit", !.ret = r]
    ELSE [frame EXCEPT !.next = @ + 1]

\* Mistake: -k does not apply to a target that is not declared.
RequireMissingStops ==
    /\ AtRequired(Missing)
    /\ ReplaceTop([Top EXCEPT !.phase = "exit", !.ret = 1])
    /\ UNCHANGED <<file, keepGoing, pc, history, dynfields, result, started, succeeded>>

\* Mistake: the same list entry is looked at again.
RequireMissingAgain ==
    /\ AtRequired(Missing)
    /\ ReplaceTop(IF keepGoing THEN [Top EXCEPT !.ret = 1]
                               ELSE [Top EXCEPT !.phase = "exit", !.ret = 1])
    /\ UNCHANGED <<file, keepGoing, pc, history, dynfields, result, started, succeeded>>

\* A required target that is not declared.
RequireMissing ==
    /\ AtRequired(Missing)
    /\ ReplaceTop(IF keepGoing THEN [Top EXCEPT !.next = @ + 1, !.ret = 1]
                               ELSE [Top EXCEPT !.phase = "exit", !.ret = 1])
    /\ UNCHANGED <<file, keepGoing, pc, history, dynfields, result, started, succeeded>>

\* Mistake: a target that is being built already counts as built.
RequireCircularQuiet ==
    /\ \E t \in Targets \cap Range(history) : AtRequired(t)
    /\ ReplaceTop(Resume(Top, 0))
    /\ UNCHANGED <<file, keepGoing, pc, history, dynfields, result, started, succeeded>>

\* A circular dependency: mb_run_target returns 1 before it changes anything.
RequireCircular ==
    /\ \E t \in Targets \cap Range(history) : AtRequired(t)
    /\ ReplaceTop(Resume(Top, 1))
    /\ UNCHANGED <<file, keepGoing, pc, history, dynfields, result, started, succeeded>>

\* Mistake: no look at the history.
RequireTargetUnchecked ==
    /\ \E t \in Targets : AtRequired(t) /\ Enter(t, stack)
    /\ UNCHANGED <<file, keepGoing, pc, result, succeeded>>

RequireTarget ==
    /\ \E t \in Targets \ Range(history) : AtRequired(t) /\ Enter(t, stack)
    /\ UNCHANGED <<file, keepGoing, pc, result, succeeded>>

\* All required targets were seen to. With ret # 0 only under -k.
RequiredDone ==
    /\ pc = "run" /\ Top.phase = "required"
    /\ Top.next \notin DOMAIN Required
    /\ ReplaceTop([Top EXCEPT !.phase = "rules"])
    /\ UNCHANGED <<file, keepGoing, pc, history, dynfields, result, started, succeeded>>

-----------------------------------------------------------------------------
(* The rules, the script, and the way out.                                 *)

\* ret = ret > tmp_ret ? ret : tmp_ret, and on to the next phase or the exit.
Proceed(code, phase) ==
    LET r == IF Top.ret > code THEN Top.ret ELSE code
    IN  ReplaceTop([Top EXCEPT !.ret = r,
                      !.phase = IF r # 0 /\ ~keepGoing THEN "exit" ELSE phase])

\* mb_run_c_rules on the target's c_rules.
RunRules ==
    /\ pc = "run" /\ Top.phase = "rules"
    /\ \E code \in Codes : Proceed(code, "exec")
    /\ UNCHANGED <<file, keepGoing, pc, history, dynfields, result, started, succeeded>>

\* mb_exec on the target's exec field. A script whose embeds cannot be expanded
\* is reported in the log only.
RunExec ==
    /\ pc = "run" /\ Top.phase = "exec"
    /\ \E code \in Codes : Proceed(code, "exit")
    /\ UNCHANGED <<file, keepGoing, pc, history, dynfields, result, started, succeeded>>

\* The history after the exit: the first entry with the name is freed, then the
\* list becomes one shorter at its end.
Leave(h, t) ==
    LET found == {i \in DOMAIN h : h[i] = t}
    IN  [i \in 1..(Len(h) - 1) |->
            IF i \in found /\ (\A k \in found : i <= k) THEN NoTarget ELSE h[i]]

Exit ==
    /\ pc = "run" /\ Top.phase = "exit"
    /\ LET below == SubSeq(stack, 1, Depth - 1)
       IN  IF below = <<>>
           THEN stack' = below /\ pc' = "ended" /\ result' = Top.ret
           ELSE /\ stack' = [below EXCEPT ![Len(below)] = Resume(@, Top.ret)]
                /\ UNCHANGED <<pc, result>>
    /\ history' = Leave(history, Top.name)
    /\ dynfields' = [f \in Fields |-> IF f \in Top.linked THEN NoTarget ELSE dynfields[f]]
    /\ succeeded' = IF Top.ret = 0 THEN succeeded \cup {Top.name} ELSE succeeded
    /\ UNCHANGED <<file, keepGoing, started>>

Ended == pc = "ended" /\ UNCHANGED vars

Next ==
    \/ BeginBuild
    \/ RequireMissing \/ RequireCircular \/ RequireTarget \/ RequiredDone
    \/ RunRules \/ RunExec \/ Exit
    \/ Ended

Spec == Init /\ [][Next]_vars

\* Rules and scripts come back; mb itself never waits for anything else.
FairSpec == Spec /\ WF_vars(Next)

-----------------------------------------------------------------------------
(* Properties.                                                             *)

\* The history holds exactly the targets being built, in order and without a
\* repetition. So the entry freed at the exit of a target is always the last,
\* no freed entry is compared, and the recursion is never deeper than there are
\* targets.
HistoryIsStack ==
    /\ history = [i \in 1..Depth |-> stack[i].name]
    /\ \A i, k \in 1..Depth : stack[i].name = stack[k].name => i = k

\* A registered dynfield has the value of a target being built that linked it,
\* and each target being built still owns what it linked. At the end no dynfield
\* is left that points into the build file.
DynfieldsOwned ==
    \A f \in Fields, t \in Targets :
        dynfields[f] = t <=> \E i \in 1..Depth : stack[i].name = t /\ f \in stack[i].linked

\* Without -k a target's rules and script are run only after all its required
\* targets were built successfully, and those that they required.
RequiredFirst ==
    ~keepGoing =>
        /\ \A i \in 1..Depth : stack[i].phase \in {"rules", "exec"} =>
              Range(file.required[stack[i].name]) \subseteq succeeded
        /\ \A t \in succeeded : Range(file.required[t]) \subseteq succeeded

\* A set of targets without a cycle has, like each of its subsets, a member
\* that requires no member.
Acyclic(S) ==
    \A X \in (SUBSET S) \ {{}} : \E t \in X : Range(file.required[t]) \cap X = {}

\* Without -k mb reports success only for a build file whose targets, as far as
\* they were built, are all declared and require each other without a cycle.
SuccessMeansAcyclic ==
    pc = "ended" /\ result = 0 /\ ~keepGoing =>
        /\ file.target \in succeeded
        /\ \A t \in succeeded : Range(file.required[t]) \subseteq Targets
        /\ Acyclic(succeeded)

\* With -k every target that the build needs is entered, whatever fails, and
\* what it needs is closed under required_targets.
KeepGoingTriesAll ==
    pc = "ended" /\ keepGoing =>
        /\ {file.target} \cap Targets \subseteq started
        /\ \A t \in started : Range(file.required[t]) \cap Targets \subseteq started

\* The recursion ends for every build file, circular ones included.
Termination == <>(pc = "ended")

-----------------------------------------------------------------------------
(* What the documentation says, and the code does not do.                  *)

\* Comment in build.mb: "Any field defined within a target of which the name if
\* prefixed with target_ is registered as a dynfield with the exact same name."
\* The rules and the script of a target should see its own fields.
OwnFieldsVisible ==
    pc = "run" /\ Top.phase \in {"rules", "exec"} =>
        \A f \in file.fields[Top.name] : dynfields[f] = Top.name
=============================================================================
