------------------------------- MODULE CRules -------------------------------
(***************************************************************************)
(* mb_run_c_rules and mb_run_c_rule (src/src/c_rule.c): the compilation    *)
(* rules a target lists are fulfilled in order, each after the rules it    *)
(* requires itself. Nothing remembers which rules are being run, so a      *)
(* circular requirement recurses until the stack of the process is full.   *)
(*                                                                         *)
(* The body of a rule (run_singular or run_unify) is one step that returns *)
(* any of Codes; RunSingular models the former.                            *)
(***************************************************************************)
EXTENDS Integers, Sequences, FiniteSets, Functions

CONSTANTS
    Rules,      \* names of the declared compilation rules
    Missing,    \* a name that is not declared
    Org,        \* the target whose c_rules field is run
    Files,      \* the build files a behaviour may start from
    Codes,      \* return codes of the bodies
    MaxDepth    \* activations the process stack has room for

ASSUME RuleNamesAssumption ==
    /\ Missing \notin Rules /\ Org \notin Rules
    /\ IsFiniteSet(Rules)
ASSUME RuleFilesAssumption ==
    Files \subseteq [Rules \cup {Org} -> Seq(Rules \cup {Missing})]
ASSUME RuleCodesAssumption == Codes \subseteq 0..255 /\ 0 \in Codes
ASSUME MaxDepthAssumption == MaxDepth \in Nat \ {0}

VARIABLES
    required,   \* the c_rules field of each rule and of the target
    keepGoing,  \* the -k flag
    pc,         \* "run", "ended", or "overflow" of the process stack
    stack,      \* the activations, the innermost one last
    result,     \* what the target gets back
    fulfilled,  \* (history variable) rules whose last activation returned 0
    spoiled     \* (history variable) something failed on the way

vars == <<required, keepGoing, pc, stack, result, fulfilled, spoiled>>

\* An activation of mb_run_c_rules on behalf of org, together with the call of
\* mb_run_c_rule(org) around it. next indexes the list, ret is the loop's ret.
Frame == [org : Rules \cup {Org}, next : Nat \ {0}, ret : 0..255]

Depth == Len(stack)
Top   == stack[Depth]
List  == required[Top.org]
\* Mistake: the code of the last rule wins.
LastCode(x, y) == y
Greater(x, y) == IF x > y THEN x ELSE y

TypeOK ==
    /\ required \in Files
    /\ keepGoing \in BOOLEAN
    /\ pc \in {"run", "ended", "overflow"}
    /\ stack \in Seq(Frame)
    /\ Depth <= MaxDepth
    /\ result \in 0..255
    /\ fulfilled \subseteq Rules
    /\ spoiled \in BOOLEAN
    /\ pc = "run" => Depth > 0

\* mb_run_c_rules is entered for the target's field. Without a rule in the build
\* file it fails at once, whatever the field says.
Init ==
    /\ required \in Files
    /\ keepGoing \in BOOLEAN
    /\ fulfilled = {}
    /\ IF Rules = {}
       THEN pc = "ended" /\ stack = <<>> /\ result = 1 /\ spoiled = TRUE
       ELSE /\ pc = "run" /\ stack = <<[org |-> Org, next |-> 1, ret |-> 0]>>
            /\ result = 0 /\ spoiled = FALSE

-----------------------------------------------------------------------------

\* The loop goes on; after a failure only under -k.
InLoop ==
    /\ pc = "run"
    /\ Top.next \in DOMAIN List
    /\ Top.ret # 0 => keepGoing

\* Mistake: -1 for an error.
RuleMissingNegative ==
    /\ InLoop
    /\ List[Top.next] = Missing
    /\ stack' = [stack EXCEPT ![Depth].ret = -1, ![Depth].next = @ + 1]
    /\ spoiled' = TRUE
    /\ UNCHANGED <<required, keepGoing, pc, result, fulfilled>>

\* Mistake: the same list entry is looked at again.
RuleMissingAgain ==
    /\ InLoop
    /\ List[Top.next] = Missing
    /\ stack' = [stack EXCEPT ![Depth].ret = 1]
    /\ spoiled' = TRUE
    /\ UNCHANGED <<required, keepGoing, pc, result, fulfilled>>

\* A rule that is not declared: ret is set to 1, whatever it was.
RuleMissing ==
    /\ InLoop
    /\ List[Top.next] = Missing
    /\ stack' = [stack EXCEPT ![Depth].ret = 1, ![Depth].next = @ + 1]
    /\ spoiled' = TRUE
    /\ UNCHANGED <<required, keepGoing, pc, result, fulfilled>>

\* Mistake: the list of the caller is run instead of the rule's own.
EnterRuleSameList ==
    /\ InLoop
    /\ List[Top.next] \in Rules
    /\ IF Depth < MaxDepth
       THEN /\ stack' = Append(stack, [org |-> Top.org, next |-> 1, ret |-> 0])
            /\ UNCHANGED pc
       ELSE pc' = "overflow" /\ UNCHANGED stack
    /\ UNCHANGED <<required, keepGoing, result, fulfilled, spoiled>>

\* mb_run_c_rule is entered and runs mb_run_c_rules on the rule's own list.
\* No cycle is looked for.
EnterRule ==
    /\ InLoop
    /\ \E r \in Rules :
         /\ List[Top.next] = r
         /\ IF Depth < MaxDepth
            THEN /\ stack' = Append(stack, [org |-> r, next |-> 1, ret |-> 0])
                 /\ UNCHANGED pc
            ELSE pc' = "overflow" /\ UNCHANGED stack
    /\ UNCHANGED <<required, keepGoing, result, fulfilled, spoiled>>

\* mb_run_c_rules returns.
LoopEnds == pc = "run" /\ ~InLoop

\* The rule returns code to the loop that runs it.
ReturnToLoop(code) ==
    LET below == SubSeq(stack, 1, Depth - 1)
    IN  stack' = [below EXCEPT ![Depth - 1].next = @ + 1,
                               ![Depth - 1].ret = Greater(@, code)]

\* Mistake: a rule that was not run counts as fulfilled.
RuleNotReadyQuiet ==
    /\ LoopEnds
    /\ Top.org # Org /\ Top.ret # 0
    /\ ReturnToLoop(0)
    /\ fulfilled' = fulfilled \ {Top.org}
    /\ UNCHANGED <<required, keepGoing, pc, result, spoiled>>

\* A rule whose required rules failed is left without running it, under -k too.
RuleNotReady ==
    /\ LoopEnds
    /\ Top.org # Org /\ Top.ret # 0
    /\ ReturnToLoop(Top.ret)
    /\ fulfilled' = fulfilled \ {Top.org}
    /\ UNCHANGED <<required, keepGoing, pc, result, spoiled>>

\* Mistake: -k runs a rule whose required rules failed.
RunBodyAnyway ==
    /\ LoopEnds
    /\ Top.org # Org /\ (Top.ret = 0 \/ keepGoing)
    /\ \E code \in Codes :
         /\ ReturnToLoop(code)
         /\ fulfilled' = IF code = 0 THEN fulfilled \cup {Top.org}
                                    ELSE fulfilled \ {Top.org}
         /\ spoiled' = (spoiled \/ code # 0)
    /\ UNCHANGED <<required, keepGoing, pc, result>>

\* run_singular or run_unify
RunBody ==
    /\ LoopEnds
    /\ Top.org # Org /\ Top.ret = 0
    /\ \E code \in Codes :
         /\ ReturnToLoop(code)
         /\ fulfilled' = IF code = 0 THEN fulfilled \cup {Top.org}
                                    ELSE fulfilled \ {Top.org}
         /\ spoiled' = (spoiled \/ code # 0)
    /\ UNCHANGED <<required, keepGoing, pc, result>>

\* The target gets its result.
ReturnToTarget ==
    /\ LoopEnds
    /\ Top.org = Org
    /\ stack' = <<>>
    /\ result' = Top.ret
    /\ pc' = "ended"
    /\ UNCHANGED <<required, keepGoing, fulfilled, spoiled>>

Stopped == pc \in {"ended", "overflow"} /\ UNCHANGED vars

Next ==
    \/ RuleMissing \/ EnterRule \/ RuleNotReady \/ RunBody \/ ReturnToTarget
    \/ Stopped

Spec == Init /\ [][Next]_vars

FairSpec == Spec /\ WF_vars(Next)

-----------------------------------------------------------------------------
(* Properties.                                                             *)

\* A rule is run only when all rules it requires were fulfilled the last time
\* they were run, under -k too: mb_run_c_rule does not look at the flag.
RulesFirst ==
    [][\A r \in fulfilled' \ fulfilled : Range(required[r]) \subseteq fulfilled]_vars

\* The target sees a failure if and only if there was one: unlike that of a
\* required target, a failed rule is not lost under -k.
FailureReported == pc = "ended" => (result # 0 <=> spoiled)

\* Success means that every rule the target lists was fulfilled, and that the
\* last time it was run.
SuccessMeansFulfilled ==
    pc = "ended" /\ result = 0 => Range(required[Org]) \subseteq fulfilled

\* No subset of S requires only itself.
Acyclic(S) ==
    \A X \in (SUBSET S) \ {{}} : \E r \in X : Range(required[r]) \cap X = {}

\* The recursion is deeper than there are rules, and may overflow, only if the
\* required rules are circular.
DeepOnlyIfCircular ==
    Depth > Cardinality(Rules) + 1 \/ pc = "overflow" => ~Acyclic(Rules)

\* It ends one way or the other.
Termination == <>(pc \in {"ended", "overflow"})
=============================================================================
