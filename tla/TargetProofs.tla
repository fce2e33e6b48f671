---------------------------- MODULE TargetProofs ----------------------------
(***************************************************************************)
(* Proofs about Target for every set of targets, every build file and      *)
(* every result of rules and scripts.                                      *)
(***************************************************************************)
EXTENDS Target, SequenceTheorems, FiniteSetTheorems, TLAPS

-----------------------------------------------------------------------------
(* Types.                                                                  *)

LEMMA FileType ==
    ASSUME NEW x \in Files
    PROVE  /\ x.target \in Targets \cup {Missing}
           /\ x.required \in [Targets -> Seq(Targets \cup {Missing})]
           /\ x.fields \in [Targets -> SUBSET Fields]
  BY FilesAssumption

LEMMA TopType ==
    ASSUME TypeOK, pc = "run"
    PROVE  /\ Depth \in Nat \ {0} /\ Depth \in DOMAIN stack
           /\ Top \in Frame
  BY DEF TypeOK, Depth, Top

\* The two frames that a missing required target leads to.
LEMMA MissingFrame ==
    ASSUME NEW f \in Frame
    PROVE  /\ [f EXCEPT !.next = f.next + 1, !.ret = 1] \in Frame
           /\ [f EXCEPT !.next = f.next + 1, !.ret = 1].name = f.name
           /\ [f EXCEPT !.next = f.next + 1, !.ret = 1].linked = f.linked
           /\ [f EXCEPT !.phase = "exit", !.ret = 1] \in Frame
           /\ [f EXCEPT !.phase = "exit", !.ret = 1].name = f.name
           /\ [f EXCEPT !.phase = "exit", !.ret = 1].linked = f.linked
<1>1. 1 \in 0..255
  OBVIOUS
<1>2. \A n \in Nat \ {0}, r \in 0..255 :
        /\ [f EXCEPT !.next = n, !.ret = r] \in Frame
        /\ [f EXCEPT !.next = n, !.ret = r].name = f.name
        /\ [f EXCEPT !.next = n, !.ret = r].linked = f.linked
  BY DEF Frame
<1>3. \A w \in {"required", "rules", "exec", "exit"}, r \in 0..255 :
        /\ [f EXCEPT !.phase = w, !.ret = r] \in Frame
        /\ [f EXCEPT !.phase = w, !.ret = r].name = f.name
        /\ [f EXCEPT !.phase = w, !.ret = r].linked = f.linked
  BY DEF Frame
<1>4. f.next + 1 \in Nat \ {0}
  BY DEF Frame
<1> QED
  BY <1>1, <1>2, <1>3, <1>4, ZenonT(30)

LEMMA TypeInit == Init => TypeOK
  BY DEF Init, TypeOK, Depth

\* The frame on top is exchanged.
LEMMA ReplaceTopType ==
    ASSUME TypeOK, pc = "run", NEW frame \in Frame, ReplaceTop(frame)
    PROVE  /\ stack' \in Seq(Frame)
           /\ Depth' = Depth
           /\ \A i \in 1..Depth : stack'[i] = IF i = Depth THEN frame ELSE stack[i]
  BY TopType DEF TypeOK, ReplaceTop, Depth

LEMMA ResumeType ==
    ASSUME NEW frame \in Frame, NEW r \in 0..255
    PROVE  /\ Resume(frame, r) \in Frame
           /\ Resume(frame, r).name = frame.name
           /\ Resume(frame, r).linked = frame.linked
<1>1. CASE r # 0 /\ ~keepGoing
  BY <1>1 DEF Resume, Frame
<1>2. CASE ~(r # 0 /\ ~keepGoing)
  <2>1. Resume(frame, r) = [frame EXCEPT !.next = frame.next + 1]
    BY <1>2 DEF Resume
  <2>2. frame.next + 1 \in Nat \ {0}
    BY DEF Frame
  <2> QED
    BY <2>1, <2>2 DEF Frame
<1> QED
  BY <1>1, <1>2

\* A target is entered.
LEMMA EnterType ==
    ASSUME TypeOK, NEW t \in Targets, NEW below \in Seq(Frame), Enter(t, below)
    PROVE  /\ stack' \in Seq(Frame)
           /\ Len(stack') = Len(below) + 1
           /\ \A i \in 1..Len(below) : stack'[i] = below[i]
           /\ stack'[Len(below) + 1] =
                [name |-> t, phase |-> "required", next |-> 1, ret |-> 0,
                 linked |-> Linkable(t)]
           /\ history' \in Seq(Targets \cup {NoTarget})
           /\ dynfields' \in [Fields -> Targets \cup {NoTarget}]
           /\ started' \subseteq Targets
<1>1. Linkable(t) \in SUBSET Fields
  BY FileType DEF Linkable, TypeOK
<1>2. [name |-> t, phase |-> "required", next |-> 1, ret |-> 0, linked |-> Linkable(t)]
        \in Frame
  BY <1>1 DEF Frame
<1> QED
  BY <1>2 DEF Enter, TypeOK

LEMMA ProceedFrame ==
    ASSUME TypeOK, pc = "run", NEW code \in Codes, NEW phase \in {"exec", "exit"},
           Proceed(code, phase)
    PROVE  \E frame \in Frame :
             ReplaceTop(frame) /\ frame.name = Top.name /\ frame.linked = Top.linked
<1> DEFINE r == IF Top.ret > code THEN Top.ret ELSE code
           w == IF r # 0 /\ ~keepGoing THEN "exit" ELSE phase
           f == [Top EXCEPT !.ret = r, !.phase = w]
<1>1. Top \in Frame /\ r \in 0..255
  BY TopType, CodesAssumption DEF Frame
<1>2. w \in {"required", "rules", "exec", "exit"}
  OBVIOUS
<1>3. ReplaceTop(f)
  BY DEF Proceed
<1> HIDE DEF r, w
<1>4. f \in Frame /\ f.name = Top.name /\ f.linked = Top.linked
  BY <1>1, <1>2 DEF Frame
<1> QED
  BY <1>3, <1>4

\* The actions that only move the target on top along.
Along == RequireMissing \/ RequireCircular \/ RequiredDone \/ RunRules \/ RunExec

LEMMA AlongFrame ==
    ASSUME TypeOK, Along
    PROVE  /\ pc = "run"
           /\ UNCHANGED <<file, keepGoing, pc, history, dynfields, result, started, succeeded>>
           /\ \E frame \in Frame :
                ReplaceTop(frame) /\ frame.name = Top.name /\ frame.linked = Top.linked
<1>1. pc = "run"
  BY DEF Along, RequireMissing, RequireCircular, RequiredDone, RunRules, RunExec, AtRequired
<1>2. UNCHANGED <<file, keepGoing, pc, history, dynfields, result, started, succeeded>>
  BY DEF Along, RequireMissing, RequireCircular, RequiredDone, RunRules, RunExec
<1>3. Top \in Frame
  BY <1>1, TopType
<1>4. CASE RequireMissing
  <2>1. CASE keepGoing
    <3> DEFINE f == [Top EXCEPT !.next = Top.next + 1, !.ret = 1]
    <3>1. ReplaceTop(f)
      BY <1>4, <2>1 DEF RequireMissing
    <3>2. f \in Frame /\ f.name = Top.name /\ f.linked = Top.linked
      BY <1>3, MissingFrame, Zenon
    <3> HIDE DEF f
    <3> QED
      BY <1>1, <1>2, <3>1, <3>2
  <2>2. CASE ~keepGoing
    <3> DEFINE f == [Top EXCEPT !.phase = "exit", !.ret = 1]
    <3>1. ReplaceTop(f)
      BY <1>4, <2>2 DEF RequireMissing
    <3>2. f \in Frame /\ f.name = Top.name /\ f.linked = Top.linked
      BY <1>3, MissingFrame, Zenon
    <3> HIDE DEF f
    <3> QED
      BY <1>1, <1>2, <3>1, <3>2
  <2> QED
    BY <2>1, <2>2
<1>5. CASE RequireCircular
  BY <1>1, <1>2, <1>3, <1>5, ResumeType DEF RequireCircular
<1>6. CASE RequiredDone
  <2>1. ReplaceTop([Top EXCEPT !.phase = "rules"])
    BY <1>6 DEF RequiredDone
  <2> QED
    BY <1>1, <1>2, <1>3, <2>1 DEF Frame
<1>7. CASE RunRules
  BY <1>1, <1>2, <1>7, ProceedFrame DEF RunRules
<1>8. CASE RunExec
  BY <1>1, <1>2, <1>8, ProceedFrame DEF RunExec
<1> QED
  BY <1>4, <1>5, <1>6, <1>7, <1>8 DEF Along

\* A target is left.
LEMMA ExitType ==
    ASSUME TypeOK, Exit
    PROVE  /\ stack' \in Seq(Frame)
           /\ Depth' = Depth - 1
           /\ \A i \in 1..(Depth - 1) : /\ stack'[i].name = stack[i].name
                                      /\ stack'[i].linked = stack[i].linked
           /\ \A i \in 1..(Depth - 2) : stack'[i] = stack[i]
           /\ Depth # 1 => stack'[Depth - 1] = Resume(stack[Depth - 1], Top.ret)
           /\ IF Depth = 1 THEN pc' = "ended" /\ result' = Top.ret
                           ELSE pc' = "run" /\ result' = result
<1> DEFINE below == SubSeq(stack, 1, Depth - 1)
<1>1. Depth \in Nat \ {0} /\ Top \in Frame /\ pc = "run"
  BY TopType DEF Exit
<1>2. below \in Seq(Frame) /\ Len(below) = Depth - 1
      /\ \A i \in 1..(Depth - 1) : below[i] = stack[i]
  <2>1. stack \in Seq(Frame) /\ Len(stack) = Depth
    BY DEF TypeOK, Depth
  <2>2. \A i \in 1..(Depth - 1) : stack[i] \in Frame
    BY <1>1, <2>1
  <2>3. 1 \in Int /\ Depth - 1 \in Int
    BY <1>1
  <2>4. /\ below \in Seq(Frame)
        /\ Len(below) = IF 1 <= Depth - 1 THEN (Depth - 1) - 1 + 1 ELSE 0
        /\ \A i \in 1..((Depth - 1) - 1 + 1) : below[i] = stack[1 + i - 1]
    BY <2>2, <2>3, SubSeqProperties
  <2> QED
    BY <1>1, <2>4
<1>3. below = <<>> <=> Depth = 1
  <2>1. ASSUME Depth = 1 PROVE below = <<>>
    BY <2>1, SubSeqEmpty
  <2>2. ASSUME below = <<>> PROVE Depth = 1
    <3>1. Len(<<>>) = 0
      BY EmptySeq
    <3>2. Len(below) = 0
      BY <2>2, <3>1
    <3> QED
      BY <1>1, <1>2, <3>2
  <2> QED
    BY <2>1, <2>2
<1>4. CASE Depth = 1
  <2>1. stack' = below /\ pc' = "ended" /\ result' = Top.ret
    BY <1>3, <1>4 DEF Exit
  <2> QED
    BY <1>2, <1>4, <2>1 DEF Depth
<1>5. CASE Depth # 1
  <2>1. /\ stack' = [below EXCEPT ![Len(below)] = Resume(below[Len(below)], Top.ret)]
        /\ UNCHANGED <<pc, result>>
    BY <1>3, <1>5 DEF Exit
  <2>2. Len(below) \in DOMAIN below
    BY <1>1, <1>2, <1>5
  <2>3. Top.ret \in 0..255
    BY <1>1 DEF Frame
  <2>4. below[Len(below)] \in Frame
    BY <1>2, <2>2
  <2>5. /\ Resume(below[Len(below)], Top.ret) \in Frame
        /\ Resume(below[Len(below)], Top.ret).name = below[Len(below)].name
        /\ Resume(below[Len(below)], Top.ret).linked = below[Len(below)].linked
    BY <2>3, <2>4, ResumeType
  <2> HIDE DEF below
  <2>6. /\ stack' \in Seq(Frame)
        /\ Len(stack') = Len(below)
        /\ \A i \in 1..Len(below) : /\ stack'[i].name = below[i].name
                                   /\ stack'[i].linked = below[i].linked
    BY <1>2, <2>1, <2>2, <2>5
  <2>7. /\ \A i \in 1..(Depth - 2) : stack'[i] = stack[i]
        /\ stack'[Depth - 1] = Resume(stack[Depth - 1], Top.ret)
    BY <1>1, <1>2, <1>5, <2>1, <2>2, <2>5
  <2> QED
    BY <1>1, <1>2, <1>5, <2>1, <2>6, <2>7 DEF Depth
<1> QED
  BY <1>4, <1>5

LEMMA LeaveType ==
    ASSUME NEW h \in Seq(Targets \cup {NoTarget}), Len(h) > 0, NEW t \in Targets
    PROVE  Leave(h, t) \in Seq(Targets \cup {NoTarget})
<1>1. Len(h) - 1 \in Nat
  OBVIOUS
<1>2. \A i \in 1..(Len(h) - 1) : h[i] \in Targets \cup {NoTarget}
  BY <1>1
<1> QED
  BY <1>1, <1>2 DEF Leave

LEMMA AppendIsFunction ==
    ASSUME NEW S, NEW s \in Seq(S), NEW n \in Nat, Len(s) = n, NEW e \in S
    PROVE  Append(s, e) = [i \in 1..(n + 1) |-> IF i = n + 1 THEN e ELSE s[i]]
<1> DEFINE g == [i \in 1..(n + 1) |-> IF i = n + 1 THEN e ELSE s[i]]
<1>1. Append(s, e) \in Seq(S) /\ Len(Append(s, e)) = n + 1
      /\ \A i \in 1..(n + 1) : Append(s, e)[i] = IF i = n + 1 THEN e ELSE s[i]
  OBVIOUS
<1>2. g \in Seq(S) /\ Len(g) = n + 1
  <2>1. \A i \in 1..(n + 1) : (IF i = n + 1 THEN e ELSE s[i]) \in S
    OBVIOUS
  <2> QED
    BY <2>1
<1> HIDE DEF g
<1>3. \A i \in 1..(n + 1) : g[i] = Append(s, e)[i]
  BY <1>1 DEF g
<1>4. Append(s, e) = g
  BY <1>1, <1>2, <1>3, SeqEqual
<1> QED
  BY <1>4 DEF g

\* Every way into a target, from mb_begin_build and from run_required_targets.
Entering(t) == t \in Targets \ Range(history) /\ Enter(t, stack)

LEMMA BeginCases ==
    ASSUME TypeOK, HistoryIsStack, BeginBuild
    PROVE  /\ UNCHANGED <<file, keepGoing, succeeded>>
           /\ \/ /\ \E t \in Targets : Entering(t)
                 /\ pc' = "run" /\ result' = result
              \/ /\ UNCHANGED <<stack, history, dynfields, started>>
                 /\ pc' = "ended" /\ result' = 1
<1>1. stack = <<>> /\ Depth = 0
  BY DEF TypeOK, BeginBuild, Depth
<1>2. DOMAIN history = {}
  BY <1>1 DEF HistoryIsStack
<1>3. Range(history) = {}
  BY <1>2 DEF Range
<1>4. CASE file.target \in Targets
  BY <1>1, <1>3, <1>4 DEF BeginBuild, Entering
<1>5. CASE file.target \notin Targets
  BY <1>5 DEF BeginBuild
<1> QED
  BY <1>4, <1>5

LEMMA RequireCases ==
    ASSUME RequireTarget
    PROVE  /\ UNCHANGED <<file, keepGoing, pc, result, succeeded>>
           /\ pc = "run"
           /\ \E t \in Targets : Entering(t)
  BY DEF RequireTarget, AtRequired, Entering

-----------------------------------------------------------------------------
(* The history is the stack of the targets being built, and each of them   *)
(* owns the dynfields it linked.                                           *)

Inv == TypeOK /\ HistoryIsStack /\ DynfieldsOwned

LEMMA InvInit == Init => Inv
<1> SUFFICES ASSUME Init PROVE Inv
  OBVIOUS
<1>1. TypeOK
  BY TypeInit
<1>2. Depth = 0
  BY DEF Init, Depth
<1>3. HistoryIsStack
  BY <1>2 DEF HistoryIsStack, Init
<1>4. DynfieldsOwned
  BY <1>2, NamesAssumption DEF DynfieldsOwned, Init
<1> QED
  BY <1>1, <1>3, <1>4 DEF Inv

LEMMA AlongInv ==
    ASSUME Inv, Along
    PROVE  Inv'
<1>1. PICK frame \in Frame :
        ReplaceTop(frame) /\ frame.name = Top.name /\ frame.linked = Top.linked
  BY AlongFrame DEF Inv
<1>2. /\ pc = "run" /\ TypeOK
      /\ UNCHANGED <<file, keepGoing, pc, history, dynfields, result, started, succeeded>>
  BY AlongFrame DEF Inv
<1>3. /\ stack' \in Seq(Frame)
      /\ Depth' = Depth
      /\ \A i \in 1..Depth : stack'[i] = IF i = Depth THEN frame ELSE stack[i]
  BY <1>1, <1>2, ReplaceTopType
<1>4. Depth \in Nat \ {0}
  BY <1>2, TopType
<1>5. \A i \in 1..Depth : /\ stack'[i].name = stack[i].name
                          /\ stack'[i].linked = stack[i].linked
  BY <1>1, <1>3 DEF Top
<1>6. TypeOK'
  <2>1. pc' = "run" <=> Depth' > 0
    BY <1>2, <1>3, <1>4
  <2> QED
    BY <1>2, <1>3, <2>1 DEF TypeOK
<1>7. HistoryIsStack'
  BY <1>2, <1>3, <1>5 DEF Inv, HistoryIsStack
<1>8. DynfieldsOwned'
  BY <1>2, <1>3, <1>5 DEF Inv, DynfieldsOwned
<1> QED
  BY <1>6, <1>7, <1>8 DEF Inv

LEMMA EnterInv ==
    ASSUME Inv, NEW t \in Targets, Entering(t)
    PROVE  /\ stack' \in Seq(Frame) /\ Depth' = Depth + 1
           /\ history' \in Seq(Targets \cup {NoTarget})
           /\ dynfields' \in [Fields -> Targets \cup {NoTarget}]
           /\ started' \subseteq Targets
           /\ HistoryIsStack' /\ DynfieldsOwned'
<1>1. stack \in Seq(Frame) /\ Depth \in Nat /\ TypeOK /\ Enter(t, stack)
  BY DEF Inv, TypeOK, Depth, Entering
<1>2. /\ stack' \in Seq(Frame) /\ Depth' = Depth + 1
      /\ history' \in Seq(Targets \cup {NoTarget})
      /\ dynfields' \in [Fields -> Targets \cup {NoTarget}]
      /\ started' \subseteq Targets
      /\ \A i \in 1..Depth : stack'[i] = stack[i]
      /\ stack'[Depth + 1].name = t /\ stack'[Depth + 1].linked = Linkable(t)
  <2> DEFINE frame == [name |-> t, phase |-> "required", next |-> 1, ret |-> 0,
                       linked |-> Linkable(t)]
  <2>1. frame.name = t /\ frame.linked = Linkable(t)
    OBVIOUS
  <2>2. /\ stack' \in Seq(Frame) /\ Len(stack') = Len(stack) + 1
        /\ history' \in Seq(Targets \cup {NoTarget})
        /\ dynfields' \in [Fields -> Targets \cup {NoTarget}]
        /\ started' \subseteq Targets
        /\ \A i \in 1..Len(stack) : stack'[i] = stack[i]
        /\ stack'[Len(stack) + 1] = frame
    BY <1>1, EnterType
  <2> HIDE DEF frame
  <2> QED
    BY <2>1, <2>2 DEF Depth
<1>3. history = [i \in 1..Depth |-> stack[i].name]
  BY DEF Inv, HistoryIsStack
<1>4. \A i \in 1..Depth : stack[i].name # t
  <2>1. \A i \in 1..Depth : history[i] # t
    BY <1>3 DEF Entering, Range
  <2> QED
    BY <1>3, <2>1
<1>5. HistoryIsStack'
  <2>1. history' = [i \in 1..(Depth + 1) |-> IF i = Depth + 1 THEN t ELSE stack[i].name]
    <3>1. history' = Append(history, t)
      BY <1>1 DEF Enter
    <3>2. Len(history) = Depth /\ history \in Seq(Targets \cup {NoTarget})
      BY <1>1, <1>3 DEF TypeOK
    <3>3. Append(history, t) = [i \in 1..(Depth + 1) |-> IF i = Depth + 1 THEN t ELSE history[i]]
      BY <3>2, AppendIsFunction
    <3> QED
      BY <1>1, <1>3, <3>1, <3>3
  <2>2. history' = [i \in 1..Depth' |-> stack'[i].name]
    BY <1>1, <1>2, <2>1
  <2>3. \A i, k \in 1..Depth' : stack'[i].name = stack'[k].name => i = k
    <3>1. \A i, k \in 1..Depth : stack[i].name = stack[k].name => i = k
      BY DEF Inv, HistoryIsStack
    <3> QED
      BY <1>1, <1>2, <1>4, <3>1, SMTT(20)
  <2> QED
    BY <2>2, <2>3 DEF HistoryIsStack
<1>6. DynfieldsOwned'
  <2> SUFFICES ASSUME NEW f \in Fields, NEW u \in Targets
               PROVE  dynfields'[f] = u <=>
                        \E i \in 1..Depth' : stack'[i].name = u /\ f \in stack'[i].linked
    BY DEF DynfieldsOwned
  <2>1. dynfields[f] = u <=> \E i \in 1..Depth : stack[i].name = u /\ f \in stack[i].linked
    BY DEF Inv, DynfieldsOwned
  <2>2. dynfields'[f] = IF f \in Linkable(t) THEN t ELSE dynfields[f]
    BY <1>1 DEF Enter
  <2>3. (\E i \in 1..Depth' : stack'[i].name = u /\ f \in stack'[i].linked)
          <=> \/ \E i \in 1..Depth : stack[i].name = u /\ f \in stack[i].linked
              \/ t = u /\ f \in Linkable(t)
    <3>1. /\ Depth' = Depth + 1 /\ Depth \in Nat
          /\ \A i \in 1..Depth : i \in 1..(Depth + 1) /\ stack'[i] = stack[i]
          /\ \A i \in 1..(Depth + 1) : i \in 1..Depth \/ i = Depth + 1
          /\ Depth + 1 \in 1..(Depth + 1)
          /\ stack'[Depth + 1].name = t /\ stack'[Depth + 1].linked = Linkable(t)
      BY <1>1, <1>2
    <3> QED
      BY <3>1
  <2>4. f \in Linkable(t) => dynfields[f] = NoTarget
    BY DEF Linkable
  <2>5. u # NoTarget
    BY NamesAssumption
  <2> QED
    BY <2>1, <2>2, <2>3, <2>4, <2>5
<1> QED
  BY <1>2, <1>5, <1>6

\* The entry that is freed is the last one, so it is dropped at once.
LEMMA ExitHistory ==
    ASSUME Inv, Exit
    PROVE  Leave(history, Top.name) = [i \in 1..(Depth - 1) |-> stack[i].name]
<1>1. Depth \in Nat \ {0}
  BY TopType DEF Inv, Exit
<1>2. history = [i \in 1..Depth |-> stack[i].name]
      /\ \A i, k \in 1..Depth : stack[i].name = stack[k].name => i = k
  BY DEF Inv, HistoryIsStack
<1>3. Len(history) = Depth /\ DOMAIN history = 1..Depth
  BY <1>1, <1>2 DEF Inv, TypeOK
<1>4. \A i \in 1..(Depth - 1) : history[i] = stack[i].name /\ history[i] # Top.name
  BY <1>1, <1>2 DEF Top
<1> QED
  BY <1>1, <1>3, <1>4 DEF Leave

LEMMA ExitInv ==
    ASSUME Inv, Exit
    PROVE  Inv'
<1>1. Depth \in Nat \ {0} /\ Top \in Frame /\ TypeOK /\ pc = "run"
  BY TopType DEF Inv, Exit
<1>2. /\ stack' \in Seq(Frame)
      /\ Depth' = Depth - 1
      /\ \A i \in 1..(Depth - 1) : /\ stack'[i].name = stack[i].name
                                 /\ stack'[i].linked = stack[i].linked
      /\ IF Depth = 1 THEN pc' = "ended" /\ result' = Top.ret
                      ELSE pc' = "run" /\ result' = result
  BY <1>1, ExitType
<1>3. history' = [i \in 1..(Depth - 1) |-> stack[i].name]
  BY ExitHistory DEF Exit
<1>4. \A i, k \in 1..Depth : stack[i].name = stack[k].name => i = k
  BY DEF Inv, HistoryIsStack
<1>5. dynfields' = [f \in Fields |-> IF f \in Top.linked THEN NoTarget ELSE dynfields[f]]
  BY DEF Exit
<1>6. TypeOK'
  <2>1. UNCHANGED <<file, keepGoing, started>>
    BY DEF Exit
  <2>2. Top.name \in Targets /\ Top.ret \in 0..255
    BY <1>1 DEF Frame
  <2>3. succeeded' \subseteq Targets
    BY <1>1, <2>2 DEF Exit, TypeOK
  <2>4. history' \in Seq(Targets \cup {NoTarget})
    <3>1. Len(history) > 0
      BY <1>1 DEF Inv, HistoryIsStack, TypeOK
    <3> QED
      BY <1>1, <2>2, <3>1, LeaveType DEF TypeOK, Exit
  <2>5. dynfields' \in [Fields -> Targets \cup {NoTarget}]
    BY <1>1, <1>5 DEF TypeOK
  <2>6. result' \in 0..255 /\ pc' \in {"begin", "run", "ended"}
    BY <1>1, <1>2, <2>2 DEF TypeOK
  <2>7. pc' = "run" <=> Depth' > 0
    BY <1>1, <1>2
  <2> QED
    BY <1>1, <1>2, <2>1, <2>3, <2>4, <2>5, <2>6, <2>7 DEF TypeOK
<1>7. HistoryIsStack'
  <2>1. history' = [i \in 1..Depth' |-> stack'[i].name]
    BY <1>2, <1>3
  <2>2. \A i, k \in 1..Depth' : stack'[i].name = stack'[k].name => i = k
    BY <1>1, <1>2, <1>4
  <2> QED
    BY <2>1, <2>2 DEF HistoryIsStack
<1>8. DynfieldsOwned'
  <2> SUFFICES ASSUME NEW f \in Fields, NEW u \in Targets
               PROVE  dynfields'[f] = u <=>
                        \E i \in 1..Depth' : stack'[i].name = u /\ f \in stack'[i].linked
    BY DEF DynfieldsOwned
  <2>1. \A v \in Targets : dynfields[f] = v <=>
          \E i \in 1..Depth : stack[i].name = v /\ f \in stack[i].linked
    BY DEF Inv, DynfieldsOwned
  <2>2. dynfields'[f] = IF f \in Top.linked THEN NoTarget ELSE dynfields[f]
    BY <1>5
  <2>3. (\E i \in 1..Depth' : stack'[i].name = u /\ f \in stack'[i].linked)
          <=> \E i \in 1..(Depth - 1) : stack[i].name = u /\ f \in stack[i].linked
    BY <1>2
  <2>4. u # NoTarget /\ Top.name \in Targets
    BY <1>1, NamesAssumption DEF Frame
  <2>5. CASE f \in Top.linked
    <3>1. dynfields[f] = Top.name
      BY <1>1, <2>1, <2>4, <2>5 DEF Top
    <3>2. ~\E i \in 1..(Depth - 1) : stack[i].name = u /\ f \in stack[i].linked
      <4> SUFFICES ASSUME NEW i \in 1..(Depth - 1),
                          stack[i].name = u, f \in stack[i].linked
                   PROVE  FALSE
        OBVIOUS
      <4>1. i \in 1..Depth /\ i # Depth /\ Depth \in 1..Depth
        BY <1>1
      <4>2. dynfields[f] = u
        BY <2>1, <4>1
      <4>3. stack[i].name = stack[Depth].name
        BY <3>1, <4>2 DEF Top
      <4> QED
        BY <1>4, <4>1, <4>3
    <3> QED
      BY <2>2, <2>3, <2>4, <2>5, <3>2
  <2>6. CASE f \notin Top.linked
    <3>1. (\E i \in 1..Depth : stack[i].name = u /\ f \in stack[i].linked)
            <=> \E i \in 1..(Depth - 1) : stack[i].name = u /\ f \in stack[i].linked
      BY <1>1, <2>6 DEF Top
    <3> QED
      BY <2>1, <2>2, <2>3, <2>6, <3>1
  <2> QED
    BY <2>5, <2>6
<1> QED
  BY <1>6, <1>7, <1>8 DEF Inv

LEMMA InvStep == Inv /\ [Next]_vars => Inv'
<1> SUFFICES ASSUME Inv, [Next]_vars PROVE Inv'
  OBVIOUS
<1>1. CASE BeginBuild
  <2>1. TypeOK /\ HistoryIsStack /\ DynfieldsOwned
    BY DEF Inv
  <2>2. CASE (\E t \in Targets : Entering(t)) /\ pc' = "run" /\ result' = result
    <3>1. PICK t \in Targets : Entering(t)
      BY <2>2
    <3>2. UNCHANGED <<file, keepGoing, succeeded>> /\ pc' = "run" /\ result' = result
      BY <1>1, <2>1, <2>2, BeginCases
    <3>3. /\ stack' \in Seq(Frame) /\ Depth' = Depth + 1
          /\ history' \in Seq(Targets \cup {NoTarget})
          /\ dynfields' \in [Fields -> Targets \cup {NoTarget}]
          /\ started' \subseteq Targets
          /\ HistoryIsStack' /\ DynfieldsOwned'
      BY <3>1, EnterInv
    <3>4. Depth' > 0
      BY <2>1, <3>3 DEF TypeOK, Depth
    <3> QED
      BY <2>1, <3>2, <3>3, <3>4 DEF Inv, TypeOK
  <2>3. CASE /\ UNCHANGED <<stack, history, dynfields, started>>
             /\ pc' = "ended" /\ result' = 1
    <3>1. UNCHANGED <<file, keepGoing, succeeded, stack, history, dynfields, started>>
      BY <1>1, <2>3 DEF BeginBuild
    <3>2. Depth' = 0
      BY <1>1, <2>1, <3>1 DEF BeginBuild, TypeOK, Depth
    <3>3. TypeOK'
      BY <2>1, <2>3, <3>1, <3>2 DEF TypeOK
    <3> QED
      BY <2>1, <3>1, <3>3 DEF Inv, HistoryIsStack, DynfieldsOwned, Depth
  <2> QED
    BY <1>1, <2>1, <2>2, <2>3, BeginCases
<1>2. CASE RequireTarget
  <2>1. PICK t \in Targets : Entering(t)
    BY <1>2, RequireCases
  <2>2. UNCHANGED <<file, keepGoing, pc, result, succeeded>> /\ pc = "run" /\ TypeOK
    BY <1>2, RequireCases DEF Inv
  <2>3. /\ stack' \in Seq(Frame) /\ Depth' = Depth + 1
        /\ history' \in Seq(Targets \cup {NoTarget})
        /\ dynfields' \in [Fields -> Targets \cup {NoTarget}]
        /\ started' \subseteq Targets
        /\ HistoryIsStack' /\ DynfieldsOwned'
    BY <2>1, EnterInv
  <2>4. Depth' > 0
    BY <2>2, <2>3 DEF TypeOK, Depth
  <2> QED
    BY <2>2, <2>3, <2>4 DEF Inv, TypeOK
<1>3. CASE Along
  BY <1>3, AlongInv
<1>4. CASE Exit
  BY <1>4, ExitInv
<1>5. CASE UNCHANGED vars
  BY <1>5 DEF vars, Inv, TypeOK, HistoryIsStack, DynfieldsOwned, Depth
<1> QED
  BY <1>1, <1>2, <1>3, <1>4, <1>5 DEF Next, Along, Ended

-----------------------------------------------------------------------------
(* Theorems.                                                               *)

LEMMA InvAlways == Spec => []Inv
<1>1. Init => Inv
  BY InvInit
<1>2. Inv /\ [Next]_vars => Inv'
  BY InvStep
<1> QED
  BY <1>1, <1>2, PTL DEF Spec

\* The state keeps its types: in particular mb is inside mb_run_target exactly
\* when a target is being built, and every return code fits into a byte.
THEOREM TypeCorrect == Spec => []TypeOK
<1>1. Inv => TypeOK
  BY DEF Inv
<1> QED
  BY <1>1, InvAlways, PTL

\* For every build file, circular ones included, target_history is exactly the
\* stack of activations of mb_run_target, and no target is on it twice. What
\* mb_run_target removes at its end, by name and then from the list's end, is
\* therefore one and the same entry.
THEOREM HistoryCorrect == Spec => []HistoryIsStack
<1>1. Inv => HistoryIsStack
  BY DEF Inv
<1> QED
  BY <1>1, InvAlways, PTL

\* For every build file a target_ dynfield points to a field of a target that is
\* being built and that linked it, and the target still owns it when it ends:
\* unlinking never takes away the field of another target.
THEOREM DynfieldsCorrect == Spec => []DynfieldsOwned
<1>1. Inv => DynfieldsOwned
  BY DEF Inv
<1> QED
  BY <1>1, InvAlways, PTL

\* The recursion is never deeper than there are targets.
THEOREM DepthBounded == Spec => [](Depth <= Cardinality(Targets))
<1>1. Inv => Depth <= Cardinality(Targets)
  <2> SUFFICES ASSUME Inv PROVE Depth <= Cardinality(Targets)
    OBVIOUS
  <2> DEFINE name == [i \in 1..Depth |-> stack[i].name]
  <2>1. Depth \in Nat
    BY DEF Inv, TypeOK, Depth
  <2>2. \A i \in 1..Depth : stack[i].name \in Targets
    <3>1. \A i \in 1..Depth : stack[i] \in Frame
      BY DEF Inv, TypeOK, Depth
    <3> QED
      BY <3>1 DEF Frame
  <2>3. name \in Injection(1..Depth, Targets)
    BY <2>2 DEF Inv, HistoryIsStack, Injection, IsInjective
  <2>4. IsFiniteSet(1..Depth) /\ Cardinality(1..Depth) = Depth
    <3>1. 1 \in Int /\ Depth \in Int
      BY <2>1
    <3>2. IsFiniteSet(1..Depth)
          /\ Cardinality(1..Depth) = IF 1 > Depth THEN 0 ELSE Depth - 1 + 1
      BY <3>1, FS_Interval
    <3> QED
      BY <2>1, <3>2
  <2>5. IsFiniteSet(Targets)
    BY NamesAssumption
  <2> HIDE DEF name
  <2> QED
    BY <2>3, <2>4, <2>5, FS_Injection
<1> QED
  BY <1>1, InvAlways, PTL
-----------------------------------------------------------------------------
(* What is built before what.                                              *)

\* The entries of its required_targets that a target is past.
SeenTo(req, frame) ==
    {k \in DOMAIN req[frame.name] : frame.phase = "required" => k < frame.next}

\* Without -k a target goes on only while nothing failed, and then what it is past
\* was built; with -k what it is past was entered, if it is declared.
FrameGood(frame, req, k, built, entered) ==
    /\ ~k => /\ frame.phase # "exit" => frame.ret = 0
             /\ frame.ret = 0 =>
                  \A j \in SeenTo(req, frame) : req[frame.name][j] \in built
    /\ k => /\ frame.name \in entered
            /\ \A j \in SeenTo(req, frame) :
                 req[frame.name][j] \in Targets => req[frame.name][j] \in entered

FramesGood ==
    \A i \in 1..Depth :
        FrameGood(stack[i], file.required, keepGoing, succeeded, started)

\* The stack is a path along required_targets from the target that is built.
Linked ==
    /\ Depth > 0 => stack[1].name = file.target
    /\ \A i \in 1..(Depth - 1) :
         /\ stack[i].phase = "required"
         /\ stack[i].next \in DOMAIN file.required[stack[i].name]
         /\ file.required[stack[i].name][stack[i].next] = stack[i + 1].name

Built ==
    ~keepGoing =>
        /\ \A t \in succeeded : Range(file.required[t]) \subseteq succeeded
        /\ Acyclic(succeeded)
        /\ pc = "ended" /\ result = 0 => file.target \in succeeded

\* What was entered is closed under required_targets but for what is being built.
Entered ==
    keepGoing =>
        /\ pc # "begin" => {file.target} \cap Targets \subseteq started
        /\ \A t \in started :
             \/ \E i \in 1..Depth : stack[i].name = t
             \/ Range(file.required[t]) \cap Targets \subseteq started

OrderInv == Linked /\ FramesGood /\ Built /\ Entered

LEMMA FrameGrows ==
    ASSUME NEW frame, NEW req, NEW k, NEW built, NEW entered,
           NEW built2, NEW entered2,
           FrameGood(frame, req, k, built, entered),
           built \subseteq built2, entered \subseteq entered2
    PROVE  FrameGood(frame, req, k, built2, entered2)
  BY Zenon DEF FrameGood

LEMMA OrderInit == Init => OrderInv
<1> SUFFICES ASSUME Init PROVE OrderInv
  OBVIOUS
<1>1. Depth = 0
  BY DEF Init, Depth
<1>2. Acyclic(succeeded)
  BY DEF Init, Acyclic
<1> QED
  BY <1>1, <1>2 DEF Init, OrderInv, Linked, FramesGood, Built, Entered

\* A step that only changes the target on top keeps the order if the new frame
\* is good.
LEMMA ReplaceOrder ==
    ASSUME Inv, OrderInv, NEW frame \in Frame, pc = "run", ReplaceTop(frame),
           frame.name = Top.name,
           UNCHANGED <<file, keepGoing, pc, history, dynfields, result, started, succeeded>>,
           FrameGood(frame, file.required, keepGoing, succeeded, started)
    PROVE  OrderInv'
<1>1. /\ Depth' = Depth /\ Depth \in Nat \ {0}
      /\ \A i \in 1..Depth : stack'[i] = IF i = Depth THEN frame ELSE stack[i]
  BY ReplaceTopType, TopType DEF Inv
<1>2. \A i \in 1..Depth : stack'[i].name = stack[i].name
  BY <1>1 DEF Top
<1>3. Linked'
  <2>1. \A i \in 1..(Depth - 1) : /\ stack'[i] = stack[i]
                                   /\ stack'[i + 1].name = stack[i + 1].name
    BY <1>1, <1>2
  <2> QED
    BY <1>1, <1>2, <2>1 DEF OrderInv, Linked
<1>4. FramesGood'
  BY <1>1 DEF OrderInv, FramesGood
<1>5. Built'
  BY DEF OrderInv, Built, Acyclic
<1>6. Entered'
  BY <1>1, <1>2 DEF OrderInv, Entered
<1> QED
  BY <1>3, <1>4, <1>5, <1>6 DEF OrderInv
LEMMA TopGood ==
    ASSUME Inv, OrderInv, pc = "run"
    PROVE  /\ Top \in Frame
           /\ FrameGood(Top, file.required, keepGoing, succeeded, started)
           /\ Required = file.required[Top.name]
           /\ DOMAIN Required \subseteq Nat \ {0}
<1>1. Top \in Frame /\ Depth \in 1..Depth
  BY TopType DEF Inv
<1>2. FrameGood(Top, file.required, keepGoing, succeeded, started)
  BY <1>1 DEF OrderInv, FramesGood, Top
<1>3. Required \in Seq(Targets \cup {Missing})
  BY <1>1, FileType DEF Inv, TypeOK, Required, Frame
<1> QED
  BY <1>1, <1>2, <1>3 DEF Required

\* The loop goes on to the next entry after one that was seen to.
LEMMA ResumeGood ==
    ASSUME NEW frame \in Frame, NEW r \in 0..255, NEW built, NEW entered,
           FrameGood(frame, file.required, keepGoing, built, entered),
           frame.phase = "required",
           LET req == file.required[frame.name]
           IN  /\ DOMAIN req \subseteq Nat \ {0}
               /\ frame.next \in DOMAIN req
               /\ keepGoing => req[frame.next] \in entered
               /\ ~keepGoing /\ r = 0 => req[frame.next] \in built
    PROVE  FrameGood(Resume(frame, r), file.required, keepGoing, built, entered)
<1> DEFINE g == Resume(frame, r)
<1>1. g.name = frame.name
  BY ResumeType
<1>2. CASE r # 0 /\ ~keepGoing
  <2>1. g = [frame EXCEPT !.phase = "exit", !.ret = r]
    BY <1>2 DEF Resume
  <2>2. g.phase = "exit" /\ g.ret # 0
    BY <1>2, <2>1 DEF Frame
  <2> QED
    BY <1>2, <2>2 DEF FrameGood
<1>3. CASE ~(r # 0 /\ ~keepGoing)
  <2>1. g = [frame EXCEPT !.next = frame.next + 1]
    BY <1>3 DEF Resume
  <2>2. /\ g.phase = frame.phase /\ g.ret = frame.ret
        /\ g.next = frame.next + 1 /\ frame.next \in Nat
    BY <2>1 DEF Frame
  <2>3. SeenTo(file.required, g) \subseteq SeenTo(file.required, frame) \cup {frame.next}
    BY <1>1, <2>2 DEF SeenTo
  <2>4. CASE keepGoing
    BY <1>1, <2>3, <2>4 DEF FrameGood
  <2>5. CASE ~keepGoing
    <3>1. r = 0
      BY <1>3, <2>5
    <3> QED
      BY <1>1, <2>2, <2>3, <2>5, <3>1 DEF FrameGood
  <2> QED
    BY <2>4, <2>5
<1> QED
  BY <1>2, <1>3

LEMMA MissingOrder ==
    ASSUME Inv, OrderInv, RequireMissing
    PROVE  OrderInv'
<1>1. /\ pc = "run" /\ Top.phase = "required"
      /\ Top.next \in DOMAIN Required /\ Required[Top.next] = Missing
      /\ UNCHANGED <<file, keepGoing, pc, history, dynfields, result, started, succeeded>>
  BY DEF RequireMissing, AtRequired
<1>2. /\ Top \in Frame
      /\ FrameGood(Top, file.required, keepGoing, succeeded, started)
      /\ Required = file.required[Top.name] /\ DOMAIN Required \subseteq Nat \ {0}
  BY <1>1, TopGood
<1>3. CASE keepGoing
  <2> DEFINE g == [Top EXCEPT !.next = Top.next + 1, !.ret = 1]
  <2>1. ReplaceTop(g)
    BY <1>3 DEF RequireMissing
  <2>2. g \in Frame /\ g.name = Top.name
    BY <1>2, MissingFrame, Zenon
  <2>3. g.phase = Top.phase /\ g.next = Top.next + 1 /\ Top.next \in Nat
    BY <1>2 DEF Frame
  <2> HIDE DEF g
  <2>4. SeenTo(file.required, g) \subseteq SeenTo(file.required, Top) \cup {Top.next}
    BY <1>1, <1>2, <2>2, <2>3 DEF SeenTo
  <2>5. FrameGood(g, file.required, keepGoing, succeeded, started)
    BY <1>1, <1>2, <1>3, <2>2, <2>4, NamesAssumption DEF FrameGood
  <2> QED
    BY <1>1, <2>1, <2>2, <2>5, ReplaceOrder
<1>4. CASE ~keepGoing
  <2> DEFINE g == [Top EXCEPT !.phase = "exit", !.ret = 1]
  <2>1. ReplaceTop(g)
    BY <1>4 DEF RequireMissing
  <2>2. g \in Frame /\ g.name = Top.name
    BY <1>2, MissingFrame, Zenon
  <2>3. g.phase = "exit" /\ g.ret = 1
    BY <1>2 DEF Frame
  <2> HIDE DEF g
  <2>4. FrameGood(g, file.required, keepGoing, succeeded, started)
    BY <1>4, <2>3 DEF FrameGood
  <2> QED
    BY <1>1, <2>1, <2>2, <2>4, ReplaceOrder
<1> QED
  BY <1>3, <1>4

LEMMA CircularOrder ==
    ASSUME Inv, OrderInv, RequireCircular
    PROVE  OrderInv'
<1>1. /\ pc = "run" /\ Top.phase = "required"
      /\ Top.next \in DOMAIN Required /\ Required[Top.next] \in Range(history)
      /\ Required[Top.next] \in Targets
      /\ ReplaceTop(Resume(Top, 1))
      /\ UNCHANGED <<file, keepGoing, pc, history, dynfields, result, started, succeeded>>
  BY DEF RequireCircular, AtRequired
<1>2. /\ Top \in Frame
      /\ FrameGood(Top, file.required, keepGoing, succeeded, started)
      /\ Required = file.required[Top.name] /\ DOMAIN Required \subseteq Nat \ {0}
  BY <1>1, TopGood
<1>3. keepGoing => Required[Top.next] \in started
  <2>1. PICK i \in 1..Depth : Required[Top.next] = stack[i].name
    BY <1>1 DEF Inv, HistoryIsStack, Range
  <2> QED
    BY <2>1 DEF OrderInv, FramesGood, FrameGood
<1>4. 1 \in 0..255 /\ 1 # 0
  OBVIOUS
<1>5. FrameGood(Resume(Top, 1), file.required, keepGoing, succeeded, started)
  BY <1>1, <1>2, <1>3, <1>4, ResumeGood
<1>6. Resume(Top, 1) \in Frame /\ Resume(Top, 1).name = Top.name
  BY <1>2, <1>4, ResumeType
<1> QED
  BY <1>1, <1>5, <1>6, ReplaceOrder

LEMMA DoneOrder ==
    ASSUME Inv, OrderInv, RequiredDone
    PROVE  OrderInv'
<1> DEFINE g == [Top EXCEPT !.phase = "rules"]
<1>1. /\ pc = "run" /\ Top.phase = "required" /\ Top.next \notin DOMAIN Required
      /\ ReplaceTop(g)
      /\ UNCHANGED <<file, keepGoing, pc, history, dynfields, result, started, succeeded>>
  BY DEF RequiredDone
<1>2. /\ Top \in Frame
      /\ FrameGood(Top, file.required, keepGoing, succeeded, started)
      /\ Required = file.required[Top.name]
  BY <1>1, TopGood
<1>3. \A k \in DOMAIN Required : k < Top.next
  <2>1. Required \in Seq(Targets \cup {Missing})
    BY <1>2, FileType DEF Inv, TypeOK, Required, Frame
  <2>2. Top.next \in Nat \ {0}
    BY <1>2 DEF Frame
  <2> QED
    BY <1>1, <2>1, <2>2
<1>4. g \in Frame /\ g.name = Top.name /\ g.ret = Top.ret /\ g.phase = "rules"
  BY <1>2 DEF Frame
<1> HIDE DEF g
<1>5. SeenTo(file.required, g) = SeenTo(file.required, Top)
  BY <1>1, <1>2, <1>3, <1>4 DEF SeenTo
<1>6. Top.phase # "exit" /\ g.phase # "exit"
  BY <1>1, <1>4
<1>7. FrameGood(g, file.required, keepGoing, succeeded, started)
  BY <1>2, <1>4, <1>5, <1>6 DEF FrameGood
<1> QED
  BY <1>1, <1>4, <1>7, ReplaceOrder

LEMMA ProceedOrder ==
    ASSUME Inv, OrderInv, pc = "run", Top.phase \in {"rules", "exec"},
           NEW code \in Codes, NEW phase \in {"exec", "exit"}, Proceed(code, phase),
           UNCHANGED <<file, keepGoing, pc, history, dynfields, result, started, succeeded>>
    PROVE  OrderInv'
<1> DEFINE r == IF Top.ret > code THEN Top.ret ELSE code
           w == IF r # 0 /\ ~keepGoing THEN "exit" ELSE phase
           g == [Top EXCEPT !.ret = r, !.phase = w]
<1>1. /\ Top \in Frame
      /\ FrameGood(Top, file.required, keepGoing, succeeded, started)
  BY TopGood
<1>2. code \in 0..255 /\ Top.ret \in 0..255
  BY <1>1, CodesAssumption DEF Frame
<1>3. r \in 0..255 /\ (r = 0 => Top.ret = 0) /\ w \in {"exec", "exit"}
  BY <1>2
<1>4. ReplaceTop(g)
  BY DEF Proceed
<1>5. ~keepGoing /\ r # 0 => w = "exit"
  OBVIOUS
<1> HIDE DEF r, w
<1>6. g \in Frame /\ g.name = Top.name /\ g.ret = r /\ g.phase = w
  BY <1>1, <1>3 DEF Frame
<1> HIDE DEF g
<1>7. SeenTo(file.required, g) = SeenTo(file.required, Top)
  BY <1>3, <1>6 DEF SeenTo
<1>8. FrameGood(g, file.required, keepGoing, succeeded, started)
  <2>1. CASE keepGoing
    BY <1>1, <1>6, <1>7, <2>1 DEF FrameGood
  <2>2. CASE ~keepGoing
    BY <1>1, <1>3, <1>5, <1>6, <1>7, <2>2 DEF FrameGood
  <2> QED
    BY <2>1, <2>2
<1> QED
  BY <1>4, <1>6, <1>8, ReplaceOrder

LEMMA AlongOrder ==
    ASSUME Inv, OrderInv, Along
    PROVE  OrderInv'
<1>1. CASE RunRules
  <2>1. PICK code \in Codes : Proceed(code, "exec")
    BY <1>1 DEF RunRules
  <2> QED
    BY <1>1, <2>1, ProceedOrder DEF RunRules
<1>2. CASE RunExec
  <2>1. PICK code \in Codes : Proceed(code, "exit")
    BY <1>2 DEF RunExec
  <2> QED
    BY <1>2, <2>1, ProceedOrder DEF RunExec
<1> QED
  BY <1>1, <1>2, MissingOrder, CircularOrder, DoneOrder DEF Along
LEMMA EnterOrder ==
    ASSUME Inv, OrderInv, NEW t \in Targets, Entering(t), pc' = "run",
           UNCHANGED <<file, keepGoing, result, succeeded>>,
           \/ Depth = 0 /\ t = file.target
           \/ pc = "run" /\ AtRequired(t)
    PROVE  OrderInv'
<1>1. TypeOK /\ Depth \in Nat /\ Depth = Len(stack) /\ stack \in Seq(Frame)
      /\ Enter(t, stack)
  BY DEF Inv, TypeOK, Depth, Entering
<1>2. /\ Depth' = Depth + 1
      /\ \A i \in 1..Depth : stack'[i] = stack[i]
      /\ stack'[Depth + 1] = [name |-> t, phase |-> "required", next |-> 1, ret |-> 0,
                             linked |-> Linkable(t)]
      /\ started' = started \cup {t}
  BY <1>1, EnterType DEF Depth, Enter
<1>3. pc = "run" => Depth > 0
  BY <1>1 DEF TypeOK
<1>4. Linked'
  <2>1. stack'[1].name = file.target
    <3>1. CASE Depth = 0
      BY <1>2, <1>3, <3>1
    <3>2. CASE Depth > 0
      BY <1>1, <1>2, <3>2 DEF OrderInv, Linked
    <3> QED
      BY <1>1, <3>1, <3>2
  <2>2. ASSUME NEW i \in 1..Depth
        PROVE  /\ stack'[i].phase = "required"
               /\ stack'[i].next \in DOMAIN file.required[stack'[i].name]
               /\ file.required[stack'[i].name][stack'[i].next] = stack'[i + 1].name
    <3>1. CASE i = Depth
      <4>1. pc = "run" /\ AtRequired(t)
        BY <1>1, <3>1
      <4> QED
        BY <1>2, <3>1, <4>1 DEF AtRequired, Top, Required
    <3>2. CASE i # Depth
      <4>1. i \in 1..(Depth - 1) /\ i + 1 \in 1..Depth
        BY <1>1, <3>2
      <4> QED
        BY <1>2, <4>1 DEF OrderInv, Linked
    <3> QED
      BY <3>1, <3>2
  <2>3. Depth' - 1 = Depth
    BY <1>1, <1>2
  <2> QED
    BY <2>1, <2>2, <2>3 DEF Linked
<1>5. FramesGood'
  <2> SUFFICES ASSUME NEW i \in 1..(Depth + 1)
               PROVE  FrameGood(stack'[i], file.required, keepGoing, succeeded, started')
    BY <1>2 DEF FramesGood
  <2>1. CASE i = Depth + 1
    <3>1. file.required[t] \in Seq(Targets \cup {Missing})
      BY <1>1, FileType DEF TypeOK
    <3>2. SeenTo(file.required, stack'[i]) = {}
      BY <1>2, <2>1, <3>1 DEF SeenTo
    <3>3. /\ stack'[i].ret = 0 /\ stack'[i].name \in started'
      BY <1>2, <2>1
    <3> QED
      BY <3>2, <3>3 DEF FrameGood
  <2>2. CASE i # Depth + 1
    <3>1. i \in 1..Depth
      BY <1>1, <2>2
    <3>2. FrameGood(stack[i], file.required, keepGoing, succeeded, started)
      BY <3>1 DEF OrderInv, FramesGood
    <3> QED
      BY <1>2, <3>1, <3>2, FrameGrows
  <2> QED
    BY <2>1, <2>2
<1>6. Built'
  BY DEF OrderInv, Built, Acyclic
<1>7. Entered'
  <2> SUFFICES ASSUME keepGoing
               PROVE  /\ {file.target} \cap Targets \subseteq started'
                      /\ \A u \in started' :
                           \/ \E i \in 1..(Depth + 1) : stack'[i].name = u
                           \/ Range(file.required[u]) \cap Targets \subseteq started'
    BY <1>2 DEF Entered
  <2>1. {file.target} \cap Targets \subseteq started'
    BY <1>1, <1>2 DEF OrderInv, Entered
  <2>2. ASSUME NEW u \in started'
        PROVE  \/ \E i \in 1..(Depth + 1) : stack'[i].name = u
               \/ Range(file.required[u]) \cap Targets \subseteq started'
    <3>1. CASE u = t
      <4>1. Depth + 1 \in 1..(Depth + 1) /\ stack'[Depth + 1].name = t
        BY <1>1, <1>2
      <4> QED
        BY <3>1, <4>1
    <3>2. CASE u \in started
      <4>1. \A i \in 1..Depth : i \in 1..(Depth + 1) /\ stack'[i].name = stack[i].name
        BY <1>1, <1>2
      <4> QED
        BY <1>2, <3>2, <4>1 DEF OrderInv, Entered
    <3> QED
      BY <1>2, <3>1, <3>2
  <2> QED
    BY <2>1, <2>2
<1> QED
  BY <1>4, <1>5, <1>6, <1>7 DEF OrderInv

\* A target whose required targets are in a closed set without a cycle makes no
\* cycle when it is added.
LEMMA AcyclicGrows ==
    ASSUME NEW S, NEW t, Acyclic(S),
           \A u \in S : Range(file.required[u]) \subseteq S,
           Range(file.required[t]) \subseteq S
    PROVE  Acyclic(S \cup {t})
<1>1. CASE t \in S
  <2>1. S \cup {t} = S
    BY <1>1
  <2> QED
    BY <2>1
<1>2. CASE t \notin S
  <2> SUFFICES ASSUME NEW X \in (SUBSET (S \cup {t})) \ {{}}
               PROVE  \E u \in X : Range(file.required[u]) \cap X = {}
    BY DEF Acyclic
  <2>1. CASE X \cap S = {}
    <3>1. t \in X /\ Range(file.required[t]) \cap X = {}
      BY <2>1
    <3> QED
      BY <3>1
  <2>2. CASE X \cap S # {}
    <3>1. PICK u \in X \cap S : Range(file.required[u]) \cap (X \cap S) = {}
      BY <2>2 DEF Acyclic
    <3>2. Range(file.required[u]) \cap X = {}
      BY <3>1
    <3> QED
      BY <3>1, <3>2
  <2> QED
    BY <2>1, <2>2
<1> QED
  BY <1>1, <1>2

LEMMA ExitOrder ==
    ASSUME Inv, OrderInv, Exit
    PROVE  OrderInv'
<1>1. /\ TypeOK /\ pc = "run" /\ Top.phase = "exit"
      /\ succeeded' = IF Top.ret = 0 THEN succeeded \cup {Top.name} ELSE succeeded
      /\ UNCHANGED <<file, keepGoing, started>>
  BY DEF Inv, Exit
<1>2. /\ Depth \in Nat \ {0} /\ Top \in Frame /\ Top.ret \in 0..255
      /\ Top.name \in Targets
      /\ \A i \in 1..Depth : stack[i] \in Frame
  <2>1. Depth \in Nat \ {0} /\ Top \in Frame
    BY <1>1, TopType
  <2>2. Top.ret \in 0..255 /\ Top.name \in Targets
    BY <2>1 DEF Frame
  <2>3. \A i \in 1..Depth : stack[i] \in Frame
    BY <1>1 DEF TypeOK, Depth
  <2> QED
    BY <2>1, <2>2, <2>3
<1>3. /\ Depth' = Depth - 1
      /\ \A i \in 1..(Depth - 1) : stack'[i].name = stack[i].name
      /\ \A i \in 1..(Depth - 2) : stack'[i] = stack[i]
      /\ Depth # 1 => stack'[Depth - 1] = Resume(stack[Depth - 1], Top.ret)
      /\ IF Depth = 1 THEN pc' = "ended" /\ result' = Top.ret
                      ELSE pc' = "run" /\ result' = result
  BY <1>1, ExitType
<1>4. FrameGood(Top, file.required, keepGoing, succeeded, started)
  BY <1>1, TopGood
<1>5. SeenTo(file.required, Top) = DOMAIN file.required[Top.name]
  BY <1>1 DEF SeenTo
<1>6. Linked'
  <2>1. Depth > 1 => stack'[1].name = file.target
    BY <1>2, <1>3 DEF OrderInv, Linked
  <2>2. ASSUME NEW i \in 1..(Depth - 2)
        PROVE  /\ stack'[i].phase = "required"
               /\ stack'[i].next \in DOMAIN file.required[stack'[i].name]
               /\ file.required[stack'[i].name][stack'[i].next] = stack'[i + 1].name
    <3>1. i \in 1..(Depth - 1) /\ i + 1 \in 1..(Depth - 1)
      BY <1>2
    <3> QED
      BY <1>3, <3>1 DEF OrderInv, Linked
  <2>3. Depth' - 1 = Depth - 2 /\ (Depth' > 0 <=> Depth > 1)
    BY <1>2, <1>3
  <2> QED
    BY <1>1, <2>1, <2>2, <2>3 DEF Linked
<1>7. FramesGood'
  <2> SUFFICES ASSUME NEW i \in 1..(Depth - 1)
               PROVE  FrameGood(stack'[i], file.required, keepGoing, succeeded', started)
    BY <1>1, <1>3 DEF FramesGood
  <2>1. i \in 1..Depth /\ succeeded \subseteq succeeded'
    BY <1>1, <1>2
  <2>2. FrameGood(stack[i], file.required, keepGoing, succeeded, started)
    BY <2>1 DEF OrderInv, FramesGood
  <2>3. FrameGood(stack[i], file.required, keepGoing, succeeded', started)
    BY <2>1, <2>2, FrameGrows
  <2>4. CASE i = Depth - 1
    <3>1. /\ stack[i].phase = "required"
          /\ stack[i].next \in DOMAIN file.required[stack[i].name]
          /\ file.required[stack[i].name][stack[i].next] = Top.name
      BY <1>2, <2>4 DEF OrderInv, Linked, Top
    <3>2. DOMAIN file.required[stack[i].name] \subseteq Nat \ {0}
      <4>1. stack[i].name \in Targets
        BY <1>2, <2>1 DEF Frame
      <4>2. file.required[stack[i].name] \in Seq(Targets \cup {Missing})
        BY <1>1, <4>1, FileType DEF TypeOK
      <4> QED
        BY <4>2
    <3>3. keepGoing => Top.name \in started
      BY <1>4 DEF FrameGood
    <3>4. Top.ret = 0 => Top.name \in succeeded'
      BY <1>1
    <3>5. FrameGood(Resume(stack[i], Top.ret), file.required, keepGoing, succeeded', started)
      BY <1>2, <2>1, <2>3, <3>1, <3>2, <3>3, <3>4, ResumeGood
    <3>6. stack'[i] = Resume(stack[i], Top.ret)
      BY <1>2, <1>3, <2>4
    <3> QED
      BY <3>5, <3>6
  <2>5. CASE i # Depth - 1
    <3>1. i \in 1..(Depth - 2)
      BY <1>2, <2>5
    <3> QED
      BY <1>3, <2>3, <3>1
  <2> QED
    BY <2>4, <2>5
<1>8. Built'
  <2> SUFFICES ASSUME ~keepGoing
               PROVE  /\ \A t \in succeeded' : Range(file.required[t]) \subseteq succeeded'
                      /\ Acyclic(succeeded')
                      /\ pc' = "ended" /\ result' = 0 => file.target \in succeeded'
    BY <1>1 DEF Built, Acyclic
  <2>1. /\ \A t \in succeeded : Range(file.required[t]) \subseteq succeeded
        /\ Acyclic(succeeded)
    BY DEF OrderInv, Built
  <2>2. Top.ret = 0 => Range(file.required[Top.name]) \subseteq succeeded
    BY <1>4, <1>5 DEF FrameGood, Range
  <2>3. \A t \in succeeded' : Range(file.required[t]) \subseteq succeeded'
    BY <1>1, <2>1, <2>2
  <2>4. Acyclic(succeeded')
    BY <1>1, <2>1, <2>2, AcyclicGrows
  <2>5. pc' = "ended" /\ result' = 0 => file.target \in succeeded'
    BY <1>1, <1>2, <1>3 DEF OrderInv, Linked, Top
  <2> QED
    BY <2>3, <2>4, <2>5
<1>9. Entered'
  <2> SUFFICES ASSUME keepGoing
               PROVE  /\ {file.target} \cap Targets \subseteq started
                      /\ \A u \in started :
                           \/ \E i \in 1..(Depth - 1) : stack'[i].name = u
                           \/ Range(file.required[u]) \cap Targets \subseteq started
    BY <1>1, <1>3 DEF Entered
  <2>1. {file.target} \cap Targets \subseteq started
    BY <1>1 DEF OrderInv, Entered
  <2>2. ASSUME NEW u \in started
        PROVE  \/ \E i \in 1..(Depth - 1) : stack'[i].name = u
               \/ Range(file.required[u]) \cap Targets \subseteq started
    <3>1. CASE u = Top.name
      <4>1. Range(file.required[u]) \cap Targets \subseteq started
        BY <1>4, <1>5, <3>1 DEF FrameGood, Range
      <4> QED
        BY <4>1
    <3>2. CASE \E i \in 1..Depth : stack[i].name = u /\ u # Top.name
      <4>1. PICK i \in 1..Depth : stack[i].name = u /\ u # Top.name
        BY <3>2
      <4>2. i \in 1..(Depth - 1)
        BY <1>2, <4>1 DEF Top
      <4> QED
        BY <1>3, <4>1, <4>2
    <3> QED
      BY <3>1, <3>2 DEF OrderInv, Entered
  <2> QED
    BY <2>1, <2>2
<1> QED
  BY <1>6, <1>7, <1>8, <1>9 DEF OrderInv

LEMMA OrderStep == Inv /\ OrderInv /\ [Next]_vars => OrderInv'
<1> SUFFICES ASSUME Inv, OrderInv, [Next]_vars PROVE OrderInv'
  OBVIOUS
<1>1. CASE BeginBuild
  <2>1. /\ TypeOK /\ HistoryIsStack /\ pc = "begin"
        /\ UNCHANGED <<file, keepGoing, succeeded>>
    BY <1>1 DEF Inv, BeginBuild
  <2>2. stack = <<>> /\ Depth = 0
    BY <2>1 DEF TypeOK, Depth
  <2>3. CASE file.target \in Targets
    <3>1. DOMAIN history = {}
      BY <2>1, <2>2 DEF HistoryIsStack
    <3>2. /\ Entering(file.target) /\ pc' = "run" /\ UNCHANGED result
      BY <1>1, <2>2, <2>3, <3>1 DEF BeginBuild, Entering, Range
    <3> QED
      BY <2>1, <2>2, <2>3, <3>2, EnterOrder
  <2>4. CASE file.target \notin Targets
    <3>1. /\ UNCHANGED <<stack, history, dynfields, started>>
          /\ pc' = "ended" /\ result' = 1
      BY <1>1, <2>4 DEF BeginBuild
    <3>2. Depth' = 0
      BY <2>2, <3>1 DEF Depth
    <3>3. Linked' /\ FramesGood'
      BY <3>2 DEF Linked, FramesGood
    <3>4. Built'
      BY <2>1, <3>1 DEF OrderInv, Built, Acyclic
    <3>5. Entered'
      BY <2>1, <2>2, <2>4, <3>1, <3>2 DEF OrderInv, Entered
    <3> QED
      BY <3>3, <3>4, <3>5 DEF OrderInv
  <2> QED
    BY <2>3, <2>4
<1>2. CASE RequireTarget
  <2>1. PICK t \in Targets \ Range(history) : AtRequired(t) /\ Enter(t, stack)
    BY <1>2 DEF RequireTarget
  <2>2. pc = "run" /\ Entering(t)
    BY <2>1 DEF AtRequired, Entering
  <2> QED
    BY <1>2, <2>1, <2>2, EnterOrder DEF RequireTarget
<1>3. CASE Along
  BY <1>3, AlongOrder
<1>4. CASE Exit
  BY <1>4, ExitOrder
<1>5. CASE UNCHANGED vars
  BY <1>5 DEF vars, OrderInv, Linked, FramesGood, Built, Entered, Acyclic, Depth
<1> QED
  BY <1>1, <1>2, <1>3, <1>4, <1>5 DEF Next, Along, Ended

LEMMA OrderAlways == Spec => [](Inv /\ OrderInv)
<1>1. Init => Inv /\ OrderInv
  BY InvInit, OrderInit
<1>2. Inv /\ OrderInv /\ [Next]_vars => (Inv /\ OrderInv)'
  BY InvStep, OrderStep
<1> QED
  BY <1>1, <1>2, PTL DEF Spec

\* Without -k mb_run_target runs a target's rules and script only after
\* everything it requires was built successfully; what was built is closed under
\* required_targets at any time.
THEOREM RequiredFirstCorrect == Spec => []RequiredFirst
<1>1. Inv /\ OrderInv => RequiredFirst
  <2> SUFFICES ASSUME Inv, OrderInv, ~keepGoing
               PROVE  /\ \A i \in 1..Depth : stack[i].phase \in {"rules", "exec"} =>
                            Range(file.required[stack[i].name]) \subseteq succeeded
                      /\ \A t \in succeeded : Range(file.required[t]) \subseteq succeeded
    BY DEF RequiredFirst
  <2>1. ASSUME NEW i \in 1..Depth, stack[i].phase \in {"rules", "exec"}
        PROVE  Range(file.required[stack[i].name]) \subseteq succeeded
    <3>1. FrameGood(stack[i], file.required, keepGoing, succeeded, started)
      BY DEF OrderInv, FramesGood
    <3>2. stack[i].ret = 0
      BY <2>1, <3>1 DEF FrameGood
    <3>3. SeenTo(file.required, stack[i]) = DOMAIN file.required[stack[i].name]
      BY <2>1 DEF SeenTo
    <3> QED
      BY <3>1, <3>2, <3>3 DEF FrameGood, Range
  <2> QED
    BY <2>1 DEF OrderInv, Built
<1> QED
  BY <1>1, OrderAlways, PTL

\* Without -k mb_begin_build returns 0 only for a build file whose targets, as
\* far as they were built, are declared and require each other without a cycle.
THEOREM SuccessIsAcyclic == Spec => []SuccessMeansAcyclic
<1>1. Inv /\ OrderInv => SuccessMeansAcyclic
  BY DEF Inv, TypeOK, OrderInv, Built, SuccessMeansAcyclic
<1> QED
  BY <1>1, OrderAlways, PTL

\* With -k every declared target that the build needs is entered, whatever fails
\* on the way.
THEOREM KeepGoingCorrect == Spec => []KeepGoingTriesAll
<1>1. Inv /\ OrderInv => KeepGoingTriesAll
  <2> SUFFICES ASSUME Inv, OrderInv, pc = "ended", keepGoing
               PROVE  /\ {file.target} \cap Targets \subseteq started
                      /\ \A t \in started :
                           Range(file.required[t]) \cap Targets \subseteq started
    BY DEF KeepGoingTriesAll
  <2>1. Depth = 0
    BY DEF Inv, TypeOK, Depth
  <2> QED
    BY <2>1 DEF OrderInv, Entered
<1> QED
  BY <1>1, OrderAlways, PTL
=============================================================================
