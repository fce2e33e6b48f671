---------------------------- MODULE CRulesProofs ----------------------------
(***************************************************************************)
(* Proofs about CRules for every set of rules, every build file, every     *)
(* return code of the bodies and every size of the process stack.          *)
(***************************************************************************)
EXTENDS CRules, SequenceTheorems, FiniteSetTheorems, TLAPS

-----------------------------------------------------------------------------
(* The inductive invariant.                                                *)

\* The stack is a path along the required rules from the target: each
\* activation stands at the entry of its list that the next one was made for.
Linked ==
    /\ pc = "ended" => stack = <<>>
    /\ Depth > 0 => stack[1].org = Org
    /\ \A i \in 1..(Depth - 1) :
         /\ stack[i].next \in DOMAIN required[stack[i].org]
         /\ stack[i + 1].org = required[stack[i].org][stack[i].next]
         /\ stack[i + 1].org \in Rules
    /\ pc = "overflow" =>
         /\ Depth = MaxDepth
         /\ Top.next \in DOMAIN List
         /\ List[Top.next] \in Rules

\* A failure is on its way to the target while some loop holds it.
Pending == \E i \in 1..Depth : stack[i].ret # 0

NothingLost ==
    /\ pc # "ended" => (spoiled <=> Pending)
    /\ FailureReported

\* The entries a loop is past were fulfilled, unless a failure is held by it
\* or by a loop inside it: that may be one of the same rules, run again.
PastFulfilled ==
    \A i \in 1..Depth :
        (\A j \in i..Depth : stack[j].ret = 0)
        => \A k \in DOMAIN required[stack[i].org] :
             k < stack[i].next => required[stack[i].org][k] \in fulfilled

Inv ==
    /\ TypeOK
    /\ Linked
    /\ NothingLost
    /\ PastFulfilled
    /\ SuccessMeansFulfilled

-----------------------------------------------------------------------------
(* What the steps do to the stack.                                         *)

LEMMA FileType ==
    ASSUME TypeOK
    PROVE  required \in [Rules \cup {Org} -> Seq(Rules \cup {Missing})]
  BY RuleFilesAssumption DEF TypeOK

LEMMA StackType ==
    ASSUME TypeOK
    PROVE  \A i \in 1..Depth :
             /\ stack[i] \in Frame
             /\ stack[i].org \in Rules \cup {Org}
             /\ stack[i].next \in Nat \ {0}
             /\ stack[i].ret \in 0..255
<1>1. \A i \in 1..Depth : stack[i] \in Frame
  BY DEF TypeOK, Depth
<1> QED
  BY <1>1 DEF Frame

LEMMA TopType ==
    ASSUME TypeOK, pc = "run"
    PROVE  /\ Depth \in Nat \ {0} /\ Depth \in DOMAIN stack
           /\ Top \in Frame
           /\ List \in Seq(Rules \cup {Missing})
<1>1. Depth \in Nat \ {0} /\ Depth \in DOMAIN stack /\ Top \in Frame
  BY DEF TypeOK, Depth, Top
<1> QED
  BY <1>1, FileType DEF Frame, List

\* An activation holds the first one's name only if it is the first one.
LEMMA OrgIsFirst ==
    ASSUME TypeOK, Linked, pc = "run"
    PROVE  /\ Top.org = Org <=> Depth = 1
           /\ Top.org # Org => Top.org \in Rules /\ Depth - 1 \in 1..(Depth - 1)
<1>1. Depth \in Nat \ {0}
  BY TopType
<1>2. CASE Depth = 1
  BY <1>2 DEF Linked, Top
<1>3. CASE Depth # 1
  <2>1. Depth - 1 \in 1..(Depth - 1)
    BY <1>1, <1>3
  <2>2. stack[(Depth - 1) + 1].org \in Rules
    BY <2>1 DEF Linked
  <2> QED
    BY <1>1, <1>3, <2>1, <2>2, RuleNamesAssumption DEF Top
<1> QED
  BY <1>2, <1>3

LEMMA GreaterType ==
    ASSUME NEW x \in 0..255, NEW y \in 0..255
    PROVE  /\ Greater(x, y) \in 0..255
           /\ Greater(x, y) = 0 <=> x = 0 /\ y = 0
  BY DEF Greater

\* The loop goes to the next entry with a return code.
LEMMA NextFrame ==
    ASSUME NEW f \in Frame, NEW r \in 0..255
    PROVE  LET g == [f EXCEPT !.next = f.next + 1, !.ret = r]
           IN  /\ g \in Frame
               /\ g.org = f.org /\ g.next = f.next + 1 /\ g.ret = r
<1>1. f.next + 1 \in Nat \ {0}
  BY DEF Frame
<1> QED
  BY <1>1 DEF Frame

LEMMA ReturnFrames ==
    ASSUME TypeOK, Linked, pc = "run", Top.org # Org,
           NEW code \in 0..255, ReturnToLoop(code)
    PROVE  /\ Depth - 1 \in 1..(Depth - 1)
           /\ stack' \in Seq(Frame)
           /\ Depth' = Depth - 1
           /\ \A i \in 1..(Depth - 2) : stack'[i] = stack[i]
           /\ stack'[Depth - 1].org = stack[Depth - 1].org
           /\ stack'[Depth - 1].next = stack[Depth - 1].next + 1
           /\ stack'[Depth - 1].ret = Greater(stack[Depth - 1].ret, code)
<1> DEFINE d == Depth - 1
           below == SubSeq(stack, 1, d)
           frame == [below[d] EXCEPT !.next = @ + 1, !.ret = Greater(@, code)]
<1>1. Depth \in Nat /\ d \in 1..d /\ stack \in Seq(Frame) /\ Depth = Len(stack)
  BY TopType, OrgIsFirst DEF TypeOK, Depth
<1>2. \A i \in 1..d : stack[i] \in Frame
  BY <1>1
<1>3. below \in Seq(Frame) /\ Len(below) = d /\ \A i \in 1..d : below[i] = stack[i]
  BY <1>1, <1>2, SubSeqProperties
<1>4. below[d] \in Frame
  BY <1>1, <1>2, <1>3
<1>5. /\ frame \in Frame /\ frame.org = below[d].org
      /\ frame.next = below[d].next + 1 /\ frame.ret = Greater(below[d].ret, code)
  <2>1. Greater(below[d].ret, code) \in 0..255
    BY <1>4, GreaterType, ZenonT(30) DEF Frame
  <2> QED
    BY <1>4, <2>1, NextFrame, ZenonT(30)
<1>6. stack' = [below EXCEPT ![d] = frame]
  <2>1. stack' = [below EXCEPT ![d].next = @ + 1, ![d].ret = Greater(@, code)]
    BY DEF ReturnToLoop
  <2>2. d \in DOMAIN below
    BY <1>1, <1>3
  <2> QED
    BY <1>3, <1>4, <2>1, <2>2 DEF Frame
<1> HIDE DEF frame, below
<1>7. stack' \in Seq(Frame) /\ Len(stack') = d
  BY <1>1, <1>3, <1>5, <1>6
<1>8. /\ \A i \in 1..(Depth - 2) : stack'[i] = below[i]
      /\ stack'[d] = frame
  BY <1>1, <1>3, <1>6
<1> QED
  BY <1>1, <1>3, <1>5, <1>7, <1>8 DEF Depth

LEMMA EnterFrames ==
    ASSUME TypeOK, pc = "run", NEW r \in Rules,
           stack' = Append(stack, [org |-> r, next |-> 1, ret |-> 0])
    PROVE  /\ stack' \in Seq(Frame)
           /\ Depth' = Depth + 1
           /\ \A i \in 1..Depth : stack'[i] = stack[i]
           /\ stack'[Depth + 1] = [org |-> r, next |-> 1, ret |-> 0]
<1>1. [org |-> r, next |-> 1, ret |-> 0] \in Frame
  BY DEF Frame
<1> QED
  BY <1>1 DEF TypeOK, Depth

LEMMA MissingFrames ==
    ASSUME TypeOK, pc = "run", RuleMissing
    PROVE  /\ stack' \in Seq(Frame)
           /\ Depth' = Depth
           /\ \A i \in 1..(Depth - 1) : stack'[i] = stack[i]
           /\ stack'[Depth].org = stack[Depth].org
           /\ stack'[Depth].ret = 1
<1> DEFINE frame == [stack[Depth] EXCEPT !.next = @ + 1, !.ret = 1]
<1>1. stack \in Seq(Frame) /\ Depth \in DOMAIN stack /\ stack[Depth] \in Frame
  BY TopType DEF TypeOK, Top
<1>2. frame \in Frame /\ frame.org = stack[Depth].org /\ frame.ret = 1
  <2>1. 1 \in 0..255
    OBVIOUS
  <2> QED
    BY <1>1, <2>1, NextFrame
<1>3. stack' = [stack EXCEPT ![Depth] = frame]
  BY <1>1 DEF RuleMissing, Frame
<1> HIDE DEF frame
<1> QED
  BY <1>1, <1>2, <1>3 DEF Depth
-----------------------------------------------------------------------------
(* The invariant is inductive.                                             *)

\* A build file without rules: the recursion is over before it starts.
LEMMA InvInitNoRules ==
    ASSUME Init, Rules = {}
    PROVE  Inv
<1>1. /\ required \in Files /\ keepGoing \in BOOLEAN /\ fulfilled = {}
      /\ pc = "ended" /\ stack = <<>> /\ result = 1 /\ spoiled = TRUE
  BY DEF Init
<1>2. Depth = 0 /\ stack \in Seq(Frame)
  BY <1>1 DEF Depth
<1>3. TypeOK
  <2>1. Depth <= MaxDepth
    BY <1>2, MaxDepthAssumption
  <2>2. spoiled \in BOOLEAN /\ fulfilled \subseteq Rules /\ pc # "run"
    BY <1>1
  <2>3. result \in 0..255
    BY <1>1
  <2> QED
    BY <1>1, <1>2, <2>1, <2>2, <2>3, Zenon DEF TypeOK
<1>4. Linked
  BY <1>1, <1>2 DEF Linked
<1>5. NothingLost
  <2>1. result # 0
    BY <1>1
  <2> QED
    BY <1>1, <2>1 DEF NothingLost, FailureReported
<1>6. PastFulfilled
  BY <1>2 DEF PastFulfilled
<1>7. SuccessMeansFulfilled
  BY <1>1 DEF SuccessMeansFulfilled
<1> QED
  BY <1>3, <1>4, <1>5, <1>6, <1>7 DEF Inv

LEMMA InvInit == Init => Inv
<1> SUFFICES ASSUME Init, Rules # {} PROVE Inv
  BY InvInitNoRules
<1> DEFINE f == [org |-> Org, next |-> 1, ret |-> 0]
<1>0. /\ required \in Files /\ keepGoing \in BOOLEAN /\ fulfilled = {}
      /\ pc = "run" /\ stack = <<f>> /\ result = 0 /\ spoiled = FALSE
  BY DEF Init
<1>1. f \in Frame /\ stack \in Seq(Frame) /\ Depth = 1 /\ stack[1] = f
  BY <1>0 DEF Frame, Depth
<1>2. TypeOK
  <2>1. Depth <= MaxDepth /\ Depth > 0
    BY <1>1, MaxDepthAssumption
  <2>2. spoiled \in BOOLEAN /\ fulfilled \subseteq Rules
    BY <1>0
  <2>3. result \in 0..255
    BY <1>0
  <2> QED
    BY <1>0, <1>1, <2>1, <2>2, <2>3, Zenon DEF TypeOK
<1>3. Linked
  BY <1>0, <1>1 DEF Linked
<1>4. NothingLost
  BY <1>0, <1>1 DEF NothingLost, Pending, FailureReported
<1>5. PastFulfilled
  <2>1. DOMAIN required[Org] \subseteq Nat \ {0}
    BY <1>2, FileType
  <2> QED
    BY <1>1, <2>1 DEF PastFulfilled
<1>6. SuccessMeansFulfilled
  BY <1>0 DEF SuccessMeansFulfilled
<1> QED
  BY <1>2, <1>3, <1>4, <1>5, <1>6 DEF Inv

LEMMA MissingInv ==
    ASSUME Inv, RuleMissing
    PROVE  Inv'
<1>1. /\ pc = "run" /\ pc' = "run" /\ spoiled' = TRUE
      /\ UNCHANGED <<required, keepGoing, result, fulfilled>>
  BY DEF RuleMissing, InLoop
<1>2. TypeOK /\ Linked
  BY DEF Inv
<1>3. /\ stack' \in Seq(Frame) /\ Depth' = Depth
      /\ \A i \in 1..(Depth - 1) : stack'[i] = stack[i]
      /\ stack'[Depth].org = stack[Depth].org
      /\ stack'[Depth].ret = 1
  BY <1>1, <1>2, MissingFrames
<1>4. Depth \in Nat \ {0} /\ Depth = Len(stack)
  BY <1>1, <1>2, TopType DEF Depth
<1>5. TypeOK'
  BY <1>1, <1>2, <1>3, <1>4 DEF TypeOK
<1>6. Linked'
  <2>1. \A i \in 1..Depth : stack'[i].org = stack[i].org
    BY <1>3, <1>4
  <2>2. (Depth > 0 => stack[1].org = Org)'
    BY <1>2, <1>3, <1>4, <2>1 DEF Linked
  <2>3. ASSUME NEW i \in 1..(Depth - 1)
        PROVE  /\ stack'[i].next \in DOMAIN required'[stack'[i].org]
               /\ stack'[i + 1].org = required'[stack'[i].org][stack'[i].next]
               /\ stack'[i + 1].org \in Rules
    <3>1. stack'[i] = stack[i] /\ stack'[i + 1].org = stack[i + 1].org
      BY <1>3, <1>4, <2>1
    <3> QED
      BY <1>1, <1>2, <3>1 DEF Linked
  <2> QED
    BY <1>1, <1>3, <2>2, <2>3 DEF Linked
<1>7. NothingLost'
  BY <1>1, <1>3, <1>4 DEF NothingLost, Pending, FailureReported
<1>8. PastFulfilled'
  BY <1>3, <1>4 DEF PastFulfilled
<1>9. SuccessMeansFulfilled'
  BY <1>1 DEF SuccessMeansFulfilled
<1> QED
  BY <1>5, <1>6, <1>7, <1>8, <1>9 DEF Inv

LEMMA EnterInv ==
    ASSUME Inv, EnterRule
    PROVE  Inv'
<1>1. /\ pc = "run" /\ Top.next \in DOMAIN List
      /\ UNCHANGED <<required, keepGoing, result, fulfilled, spoiled>>
  BY DEF EnterRule, InLoop
<1>2. TypeOK /\ Linked /\ NothingLost /\ PastFulfilled /\ SuccessMeansFulfilled
  BY DEF Inv
<1>3. Depth \in Nat \ {0} /\ Depth = Len(stack)
  BY <1>1, <1>2, TopType DEF Depth
<1>4. PICK r \in Rules :
        /\ List[Top.next] = r
        /\ IF Depth < MaxDepth
           THEN /\ stack' = Append(stack, [org |-> r, next |-> 1, ret |-> 0])
                /\ UNCHANGED pc
           ELSE pc' = "overflow" /\ UNCHANGED stack
  BY DEF EnterRule
<1>5. CASE Depth < MaxDepth
  <2>1. pc' = "run" /\ stack' = Append(stack, [org |-> r, next |-> 1, ret |-> 0])
    BY <1>1, <1>4, <1>5
  <2>2. /\ stack' \in Seq(Frame) /\ Depth' = Depth + 1
        /\ \A i \in 1..Depth : stack'[i] = stack[i]
        /\ stack'[Depth + 1] = [org |-> r, next |-> 1, ret |-> 0]
    BY <1>1, <1>2, <2>1, EnterFrames
  <2>3. TypeOK'
    BY <1>1, <1>2, <1>3, <1>5, <2>1, <2>2, MaxDepthAssumption DEF TypeOK
  <2>4. Linked'
    <3>1. (Depth > 0 => stack[1].org = Org)'
      BY <1>2, <1>3, <2>2 DEF Linked
    <3>2. ASSUME NEW i \in 1..Depth
          PROVE  /\ stack'[i].next \in DOMAIN required'[stack'[i].org]
                 /\ stack'[i + 1].org = required'[stack'[i].org][stack'[i].next]
                 /\ stack'[i + 1].org \in Rules
      <4>1. CASE i = Depth
        BY <1>1, <1>4, <2>2, <4>1 DEF Top, List
      <4>2. CASE i # Depth
        <5>1. i \in 1..(Depth - 1) /\ i + 1 \in 1..Depth
          BY <1>3, <4>2
        <5> QED
          BY <1>1, <1>2, <2>2, <5>1 DEF Linked
      <4> QED
        BY <4>1, <4>2
    <3> QED
      BY <1>3, <2>1, <2>2, <3>1, <3>2 DEF Linked
  <2>5. NothingLost'
    <3>1. Pending' <=> Pending
      BY <1>3, <2>2 DEF Pending
    <3> QED
      BY <1>1, <1>2, <2>1, <3>1 DEF NothingLost, FailureReported
  <2>6. PastFulfilled'
    <3> SUFFICES ASSUME NEW i \in 1..(Depth + 1),
                        \A j \in i..(Depth + 1) : stack'[j].ret = 0,
                        NEW k \in DOMAIN required[stack'[i].org],
                        k < stack'[i].next
                 PROVE  required[stack'[i].org][k] \in fulfilled
      BY <1>1, <2>2 DEF PastFulfilled
    <3>1. CASE i = Depth + 1
      <4>1. k \in Nat \ {0} /\ stack'[i].next = 1
        BY <1>2, <2>2, <3>1, FileType
      <4> QED
        BY <4>1
    <3>2. CASE i # Depth + 1
      <4>1. i \in 1..Depth /\ i..Depth \subseteq i..(Depth + 1)
        BY <1>3, <3>2
      <4>2. \A j \in i..Depth : stack[j].ret = 0
        BY <1>3, <2>2, <4>1
      <4> QED
        BY <1>2, <2>2, <4>1, <4>2 DEF PastFulfilled
    <3> QED
      BY <3>1, <3>2
  <2>7. SuccessMeansFulfilled'
    BY <2>1 DEF SuccessMeansFulfilled
  <2> QED
    BY <2>3, <2>4, <2>5, <2>6, <2>7 DEF Inv
<1>6. CASE ~(Depth < MaxDepth)
  <2>1. pc' = "overflow" /\ UNCHANGED stack /\ Depth = MaxDepth
    BY <1>2, <1>3, <1>4, <1>6, MaxDepthAssumption DEF TypeOK
  <2>2. TypeOK'
    BY <1>1, <1>2, <2>1 DEF TypeOK, Depth
  <2>3. Linked'
    BY <1>1, <1>2, <1>4, <2>1 DEF Linked, Depth, Top, List
  <2>4. NothingLost'
    BY <1>1, <1>2, <2>1 DEF NothingLost, Pending, FailureReported, Depth
  <2>5. PastFulfilled'
    BY <1>1, <1>2, <2>1 DEF PastFulfilled, Depth
  <2>6. SuccessMeansFulfilled'
    BY <2>1 DEF SuccessMeansFulfilled
  <2> QED
    BY <2>2, <2>3, <2>4, <2>5, <2>6 DEF Inv
<1> QED
  BY <1>5, <1>6
\* When a loop has ended without a failure, its whole list was fulfilled.
LEMMA LoopFulfilled ==
    ASSUME Inv, LoopEnds, Top.ret = 0
    PROVE  Range(List) \subseteq fulfilled
<1>1. TypeOK /\ PastFulfilled /\ pc = "run"
  BY DEF Inv, LoopEnds
<1>2. /\ Depth \in Nat \ {0} /\ Top \in Frame
      /\ List \in Seq(Rules \cup {Missing})
  BY <1>1, TopType
<1>3. Top.next \notin DOMAIN List
  BY DEF LoopEnds, InLoop
<1>4. \A k \in DOMAIN List : k < Top.next
  BY <1>2, <1>3 DEF Frame
<1>5. \A j \in Depth..Depth : stack[j].ret = 0
  BY <1>2 DEF Top
<1>6. \A k \in DOMAIN List : List[k] \in fulfilled
  BY <1>1, <1>2, <1>4, <1>5 DEF PastFulfilled, Top, List
<1> QED
  BY <1>6 DEF Range

LEMMA ReturnLinked ==
    ASSUME TypeOK, Linked, pc = "run", pc' = "run", UNCHANGED required,
           Top.org # Org, NEW code \in 0..255, ReturnToLoop(code)
    PROVE  Linked'
<1>1. Depth - 1 \in 1..(Depth - 1) /\ Depth \in Nat /\ Depth' = Depth - 1
  BY ReturnFrames, TopType
<1>2. /\ \A i \in 1..(Depth - 2) : stack'[i] = stack[i]
      /\ stack'[Depth - 1].org = stack[Depth - 1].org
  BY ReturnFrames
<1>3. \A i \in 1..(Depth - 1) : stack'[i].org = stack[i].org
  BY <1>1, <1>2
<1>4. stack'[1].org = Org
  BY <1>1, <1>3 DEF Linked
<1>5. ASSUME NEW i \in 1..(Depth - 2)
      PROVE  /\ stack'[i].next \in DOMAIN required'[stack'[i].org]
             /\ stack'[i + 1].org = required'[stack'[i].org][stack'[i].next]
             /\ stack'[i + 1].org \in Rules
  <2>1. i \in 1..(Depth - 1) /\ i + 1 \in 1..(Depth - 1)
    BY <1>1
  <2> QED
    BY <1>2, <1>3, <2>1 DEF Linked
<1>6. Depth' - 1 = Depth - 2
  BY <1>1
<1> QED
  BY <1>4, <1>5, <1>6 DEF Linked

\* The loop of the caller holds a failure if it held one before or gets one now.
LEMMA ReturnPending ==
    ASSUME TypeOK, Linked, pc = "run", Top.org # Org,
           NEW code \in 0..255, ReturnToLoop(code)
    PROVE  /\ Pending' <=> code # 0 \/ \E i \in 1..(Depth - 1) : stack[i].ret # 0
           /\ code # 0 => stack'[Depth - 1].ret # 0
<1>1. /\ Depth - 1 \in 1..(Depth - 1) /\ Depth \in Nat /\ Depth' = Depth - 1
      /\ \A i \in 1..(Depth - 2) : stack'[i] = stack[i]
      /\ stack'[Depth - 1].ret = Greater(stack[Depth - 1].ret, code)
  BY ReturnFrames, TopType
<1>2. stack[Depth - 1].ret \in 0..255
  <2>1. Depth - 1 \in 1..Depth
    BY <1>1
  <2> QED
    BY <2>1, StackType
<1>3. stack'[Depth - 1].ret = 0 <=> stack[Depth - 1].ret = 0 /\ code = 0
  BY <1>1, <1>2 DEF Greater
<1>4. \A i \in 1..(Depth - 1) : i \in 1..(Depth - 2) \/ i = Depth - 1
  BY <1>1
<1>5. \A i \in 1..(Depth - 2) : i \in 1..(Depth - 1) /\ stack'[i].ret = stack[i].ret
  BY <1>1
<1> QED
  BY <1>1, <1>3, <1>4, <1>5 DEF Pending

LEMMA ReturnType ==
    ASSUME TypeOK, Linked, pc = "run", pc' = "run", Top.org # Org,
           NEW code \in 0..255, ReturnToLoop(code),
           UNCHANGED <<required, keepGoing, result>>,
           fulfilled' \in SUBSET Rules, spoiled' \in BOOLEAN
    PROVE  TypeOK'
<1>1. /\ Depth - 1 \in 1..(Depth - 1) /\ Depth \in Nat /\ Depth' = Depth - 1
      /\ stack' \in Seq(Frame)
  BY ReturnFrames, TopType
<1>2. Depth' <= MaxDepth /\ Depth' > 0
  BY <1>1, MaxDepthAssumption DEF TypeOK
<1> QED
  BY <1>1, <1>2 DEF TypeOK

LEMMA NotReadyInv ==
    ASSUME Inv, RuleNotReady
    PROVE  Inv'
<1> DEFINE code == Top.ret
<1>1. /\ pc = "run" /\ pc' = "run" /\ Top.org # Org
      /\ ReturnToLoop(code) /\ code # 0
      /\ fulfilled' = fulfilled \ {Top.org}
      /\ UNCHANGED <<required, keepGoing, result, spoiled>>
  BY DEF RuleNotReady, LoopEnds
<1>2. TypeOK /\ Linked /\ NothingLost
  BY DEF Inv
<1>3. Depth \in Nat \ {0} /\ Top \in Frame /\ code \in 0..255
  BY <1>1, <1>2, TopType DEF Frame
<1> HIDE DEF code
<1>4. TypeOK'
  <2>1. fulfilled' \in SUBSET Rules /\ spoiled' \in BOOLEAN
    BY <1>1, <1>2 DEF TypeOK
  <2> QED
    BY <1>1, <1>2, <1>3, <2>1, ReturnType
<1>5. Linked'
  BY <1>1, <1>2, <1>3, ReturnLinked
<1>6. NothingLost'
  <2>1. Pending /\ Pending'
    <3>1. Depth \in 1..Depth /\ stack[Depth].ret # 0
      BY <1>1, <1>3 DEF code, Top
    <3>2. Pending' <=> code # 0 \/ \E i \in 1..(Depth - 1) : stack[i].ret # 0
      BY <1>1, <1>2, <1>3, ReturnPending
    <3> QED
      BY <1>1, <3>1, <3>2, Zenon DEF Pending
  <2> QED
    BY <1>1, <1>2, <2>1 DEF NothingLost, FailureReported
<1>7. PastFulfilled'
  <2>1. Depth - 1 \in 1..(Depth - 1) /\ Depth' = Depth - 1
    BY <1>1, <1>2, <1>3, ReturnFrames
  <2>2. stack'[Depth - 1].ret # 0
    BY <1>1, <1>2, <1>3, ReturnPending
  <2>3. \A i \in 1..(Depth - 1) : Depth - 1 \in i..(Depth - 1)
    BY <1>3, <2>1
  <2> QED
    BY <2>1, <2>2, <2>3 DEF PastFulfilled
<1>8. SuccessMeansFulfilled'
  BY <1>1 DEF SuccessMeansFulfilled
<1> QED
  BY <1>4, <1>5, <1>6, <1>7, <1>8 DEF Inv

LEMMA RunBodyInv ==
    ASSUME Inv, RunBody
    PROVE  Inv'
<1>1. /\ pc = "run" /\ pc' = "run" /\ Top.org # Org /\ Top.ret = 0
      /\ UNCHANGED <<required, keepGoing, result>>
  BY DEF RunBody, LoopEnds
<1>2. TypeOK /\ Linked /\ NothingLost /\ PastFulfilled
  BY DEF Inv
<1>3. PICK code \in Codes :
        /\ ReturnToLoop(code)
        /\ fulfilled' = IF code = 0 THEN fulfilled \cup {Top.org}
                                   ELSE fulfilled \ {Top.org}
        /\ spoiled' = (spoiled \/ code # 0)
  BY DEF RunBody
<1>4. Depth \in Nat \ {0} /\ Top \in Frame /\ code \in 0..255
  BY <1>1, <1>2, TopType, RuleCodesAssumption
<1>5. TypeOK'
  <2>1. Top.org \in Rules
    BY <1>1, <1>2, OrgIsFirst
  <2>2. fulfilled' \in SUBSET Rules /\ spoiled' \in BOOLEAN
    BY <1>2, <1>3, <2>1 DEF TypeOK
  <2> QED
    BY <1>1, <1>2, <1>3, <1>4, <2>2, ReturnType
<1>6. Linked'
  BY <1>1, <1>2, <1>3, <1>4, ReturnLinked
<1>7. NothingLost'
  <2>1. Pending' <=> code # 0 \/ \E i \in 1..(Depth - 1) : stack[i].ret # 0
    BY <1>1, <1>2, <1>3, <1>4, ReturnPending
  <2>2. \A i \in 1..Depth : i \in 1..(Depth - 1) \/ stack[i].ret = 0
    BY <1>1, <1>4 DEF Top
  <2>3. Pending <=> \E i \in 1..(Depth - 1) : stack[i].ret # 0
    BY <1>4, <2>2 DEF Pending
  <2> QED
    BY <1>1, <1>2, <1>3, <2>1, <2>3 DEF NothingLost, FailureReported
<1>8. PastFulfilled'
  <2>1. /\ Depth - 1 \in 1..(Depth - 1) /\ Depth' = Depth - 1
        /\ \A i \in 1..(Depth - 2) : stack'[i] = stack[i]
        /\ stack'[Depth - 1].org = stack[Depth - 1].org
        /\ stack'[Depth - 1].next = stack[Depth - 1].next + 1
    BY <1>1, <1>2, <1>3, <1>4, ReturnFrames
  <2>2. CASE code # 0
    <3>1. stack'[Depth - 1].ret # 0
      BY <1>1, <1>2, <1>3, <1>4, <2>2, ReturnPending
    <3>2. \A i \in 1..(Depth - 1) : Depth - 1 \in i..(Depth - 1)
      BY <1>4, <2>1
    <3> QED
      BY <2>1, <3>1, <3>2 DEF PastFulfilled
  <2>3. CASE code = 0
    <3> SUFFICES ASSUME NEW i \in 1..(Depth - 1),
                        \A j \in i..(Depth - 1) : stack'[j].ret = 0,
                        NEW k \in DOMAIN required[stack'[i].org],
                        k < stack'[i].next
                 PROVE  required[stack'[i].org][k] \in fulfilled'
      BY <1>1, <2>1 DEF PastFulfilled
    <3>1. stack[Depth - 1].ret = 0
      <4>1. Depth - 1 \in i..(Depth - 1)
        BY <1>4, <2>1
      <4>2. Greater(stack[Depth - 1].ret, code) = 0
        BY <1>1, <1>2, <1>3, <1>4, <4>1, ReturnFrames
      <4>3. stack[Depth - 1].ret \in 0..255
        <5>1. Depth - 1 \in 1..Depth
          BY <1>4, <2>1
        <5> QED
          BY <1>2, <5>1, StackType
      <4> QED
        BY <1>4, <4>2, <4>3, GreaterType
    <3>2. \A j \in i..Depth : stack[j].ret = 0
      <4>1. \A j \in i..Depth :
              \/ j = Depth \/ j = Depth - 1
              \/ j \in i..(Depth - 1) /\ j \in 1..(Depth - 2)
        BY <1>4
      <4> QED
        BY <1>1, <2>1, <3>1, <4>1 DEF Top
    <3>3. stack'[i].org = stack[i].org /\ fulfilled \subseteq fulfilled'
      <4>1. i \in 1..(Depth - 2) \/ i = Depth - 1
        BY <1>4
      <4> QED
        BY <1>3, <2>1, <2>3, <4>1
    <3>4. CASE k < stack[i].next
      <4>1. i \in 1..Depth
        BY <1>4
      <4> QED
        BY <1>2, <3>2, <3>3, <3>4, <4>1 DEF PastFulfilled
    <3>5. CASE ~(k < stack[i].next)
      <4>1. i = Depth - 1 /\ k = stack[i].next
        <5>1. i \in 1..(Depth - 2) \/ i = Depth - 1
          BY <1>4
        <5>2. k \in Nat /\ stack[Depth - 1].next \in Nat
          <6>1. Depth - 1 \in 1..Depth
            BY <1>4, <2>1
          <6>2. stack[i].org \in Rules \cup {Org}
            <7>1. i \in 1..Depth
              BY <1>4
            <7> QED
              BY <1>2, <7>1, StackType
          <6>3. required[stack[i].org] \in Seq(Rules \cup {Missing})
            BY <1>2, <6>2, FileType
          <6> QED
            BY <1>2, <3>3, <6>1, <6>3, StackType
        <5> QED
          BY <2>1, <3>5, <5>1, <5>2
      <4>2. required[stack[i].org][k] = Top.org
        BY <1>2, <1>4, <2>1, <4>1 DEF Linked, Top
      <4> QED
        BY <1>3, <2>3, <3>3, <4>2
    <3> QED
      BY <3>4, <3>5
  <2> QED
    BY <2>2, <2>3
<1>9. SuccessMeansFulfilled'
  BY <1>1 DEF SuccessMeansFulfilled
<1> QED
  BY <1>5, <1>6, <1>7, <1>8, <1>9 DEF Inv
LEMMA ToTargetInv ==
    ASSUME Inv, ReturnToTarget
    PROVE  Inv'
<1>1. /\ pc = "run" /\ pc' = "ended" /\ Top.org = Org
      /\ stack' = <<>> /\ result' = Top.ret
      /\ UNCHANGED <<required, keepGoing, fulfilled, spoiled>>
  BY DEF ReturnToTarget, LoopEnds
<1>2. TypeOK /\ Linked /\ NothingLost
  BY DEF Inv
<1>3. Depth = 1 /\ Top \in Frame
  BY <1>1, <1>2, OrgIsFirst, TopType
<1>4. stack' \in Seq(Frame) /\ Depth' = 0
  BY <1>1 DEF Depth
<1>5. TypeOK'
  BY <1>1, <1>2, <1>3, <1>4, MaxDepthAssumption DEF TypeOK, Frame
<1>6. Linked'
  BY <1>1, <1>4 DEF Linked
<1>7. NothingLost'
  BY <1>1, <1>2, <1>3 DEF NothingLost, Pending, FailureReported, Top
<1>8. PastFulfilled'
  BY <1>4 DEF PastFulfilled
<1>9. SuccessMeansFulfilled'
  BY <1>1, LoopFulfilled DEF SuccessMeansFulfilled, ReturnToTarget, List
<1> QED
  BY <1>5, <1>6, <1>7, <1>8, <1>9 DEF Inv

LEMMA InvStep == Inv /\ [Next]_vars => Inv'
<1> SUFFICES ASSUME Inv, [Next]_vars PROVE Inv'
  OBVIOUS
<1>1. CASE RuleMissing
  BY <1>1, MissingInv
<1>2. CASE EnterRule
  BY <1>2, EnterInv
<1>3. CASE RuleNotReady
  BY <1>3, NotReadyInv
<1>4. CASE RunBody
  BY <1>4, RunBodyInv
<1>5. CASE ReturnToTarget
  BY <1>5, ToTargetInv
<1>6. CASE UNCHANGED vars
  BY <1>6 DEF vars, Inv, TypeOK, Linked, NothingLost, PastFulfilled, Pending,
              FailureReported, SuccessMeansFulfilled, Depth, Top, List
<1> QED
  BY <1>1, <1>2, <1>3, <1>4, <1>5, <1>6 DEF Next, Stopped

LEMMA InvAlways == Spec => []Inv
<1> QED
  BY InvInit, InvStep, PTL DEF Spec

-----------------------------------------------------------------------------
(* The theorems.                                                           *)

\* Every state is well typed; in particular the number of activations stays
\* within the process stack until it overflows.
THEOREM TypeCorrect == Spec => []TypeOK
<1>1. Inv => TypeOK
  BY DEF Inv
<1> QED
  BY <1>1, InvAlways, PTL

\* mb_run_c_rules gives the target a code other than 0 if and only if a rule was
\* missing or a body failed on the way, with and without -k.
THEOREM FailureCorrect == Spec => []FailureReported
<1>1. Inv => FailureReported
  BY DEF Inv, NothingLost
<1> QED
  BY <1>1, InvAlways, PTL

\* mb_run_c_rules gives the target 0 only when each rule the target lists was
\* fulfilled the last time it was run.
THEOREM SuccessCorrect == Spec => []SuccessMeansFulfilled
<1>1. Inv => SuccessMeansFulfilled
  BY DEF Inv
<1> QED
  BY <1>1, InvAlways, PTL

\* A rule's body is run, by mb_run_c_rule, only with all the rules it requires
\* fulfilled.
LEMMA BodyAfterRules ==
    ASSUME Inv, [Next]_vars
    PROVE  \A r \in fulfilled' \ fulfilled : Range(required[r]) \subseteq fulfilled
<1> SUFFICES ASSUME NEW r \in fulfilled' \ fulfilled
             PROVE  Range(required[r]) \subseteq fulfilled
  OBVIOUS
<1>1. RunBody
  BY DEF Next, vars, Stopped, RuleMissing, EnterRule, RuleNotReady, ReturnToTarget
<1>2. r = Top.org /\ LoopEnds /\ Top.ret = 0
  BY <1>1 DEF RunBody
<1> QED
  BY <1>2, LoopFulfilled DEF List

\* No step runs the body of a rule before each rule it requires was fulfilled the
\* last time it was run, and a failure elsewhere that -k passes over changes
\* nothing of that (mb_run_c_rule).
THEOREM RulesFirstCorrect == Spec => RulesFirst
<1>1. Inv /\ [Next]_vars
      => [\A r \in fulfilled' \ fulfilled : Range(required[r]) \subseteq fulfilled]_vars
  BY BodyAfterRules
<1> QED
  BY <1>1, InvAlways, PTL DEF Spec, RulesFirst

\* A path along required rules with more entries than there are rules meets a
\* rule twice, so that the rules between require each other in a circle.
LEMMA LongPathIsCircular ==
    ASSUME NEW n \in Nat, NEW p \in [1..n -> Rules], n > Cardinality(Rules),
           \A i \in 1..(n - 1) : p[i + 1] \in Range(required[p[i]])
    PROVE  ~Acyclic(Rules)
<1>1. IsFiniteSet(1..n) /\ Cardinality(1..n) = n
  BY FS_Interval
<1>2. PICK x, y \in 1..n : x < y /\ p[x] = p[y]
  <2>1. IsFiniteSet(Rules)
    BY RuleNamesAssumption
  <2>2. Cardinality(Rules) < Cardinality(1..n)
    BY <1>1, <2>1, FS_CardinalityType
  <2>3. PICK u, v \in 1..n : u # v /\ p[u] = p[v]
    BY <1>1, <2>1, <2>2, FS_PigeonHole
  <2> QED
    BY <2>3
<1> DEFINE X == {p[i] : i \in x..(y - 1)}
<1>3. X \in (SUBSET Rules) \ {{}}
  <2>1. \A i \in x..(y - 1) : p[i] \in Rules
    BY <1>2
  <2>2. p[x] \in X
    BY <1>2
  <2> QED
    BY <2>1, <2>2
<1>4. ASSUME NEW r \in X
      PROVE  Range(required[r]) \cap X # {}
  <2>1. PICK i \in x..(y - 1) : r = p[i]
    OBVIOUS
  <2>2. i \in 1..(n - 1) /\ p[i + 1] \in Range(required[r])
    BY <1>2, <2>1
  <2>3. p[i + 1] \in X
    <3>1. CASE i = y - 1
      BY <1>2, <3>1
    <3>2. CASE i # y - 1
      <4>1. i + 1 \in x..(y - 1)
        BY <1>2, <3>2
      <4> QED
        BY <4>1
    <3> QED
      BY <3>1, <3>2
  <2> QED
    BY <2>2, <2>3
<1> QED
  BY <1>3, <1>4 DEF Acyclic

\* mb_run_c_rule keeps no track of the rules being run. As long as a process
\* stack has room for more activations than there are rules, it overflows only
\* when the required rules are circular, and no more than one activation per
\* rule and the target's own are in progress when they are not.
THEOREM DepthCorrect ==
    ASSUME MaxDepth > Cardinality(Rules)
    PROVE  Spec => []DeepOnlyIfCircular
<1>1. Inv => DeepOnlyIfCircular
  <2> SUFFICES ASSUME Inv, Depth > Cardinality(Rules) + 1 \/ pc = "overflow"
               PROVE  ~Acyclic(Rules)
    BY DEF DeepOnlyIfCircular
  <2>1. TypeOK /\ Linked
    BY DEF Inv
  <2>2. Depth \in Nat /\ Cardinality(Rules) \in Nat /\ MaxDepth \in Nat
    BY <2>1, FS_CardinalityType, RuleNamesAssumption, MaxDepthAssumption
       DEF TypeOK, Depth
  <2>3. ASSUME NEW i \in 1..(Depth - 1)
        PROVE  /\ stack[i + 1].org \in Rules
               /\ stack[i + 1].org \in Range(required[stack[i].org])
    BY <2>1 DEF Linked, Range
  <2>4. CASE Depth > Cardinality(Rules) + 1
    <3> DEFINE p == [i \in 1..(Depth - 1) |-> stack[i + 1].org]
    <3>1. p \in [1..(Depth - 1) -> Rules]
      BY <2>3
    <3>2. \A i \in 1..((Depth - 1) - 1) : p[i + 1] \in Range(required[p[i]])
      <4> SUFFICES ASSUME NEW i \in 1..((Depth - 1) - 1)
                   PROVE  p[i + 1] \in Range(required[p[i]])
        OBVIOUS
      <4>1. i \in 1..(Depth - 1) /\ i + 1 \in 1..(Depth - 1)
        BY <2>2
      <4> QED
        BY <2>3, <4>1
    <3> HIDE DEF p
    <3>3. Depth - 1 \in Nat /\ Depth - 1 > Cardinality(Rules)
      BY <2>2, <2>4
    <3> QED
      BY <3>1, <3>2, <3>3, LongPathIsCircular
  <2>5. CASE pc = "overflow"
    <3> DEFINE p == [i \in 1..Depth |->
                       IF i < Depth THEN stack[i + 1].org ELSE List[Top.next]]
    <3>1. Depth = MaxDepth /\ List[Top.next] \in Rules /\ Top.next \in DOMAIN List
      BY <2>1, <2>5 DEF Linked
    <3>2. p \in [1..Depth -> Rules]
      <4>1. \A i \in 1..Depth : i < Depth => i \in 1..(Depth - 1)
        BY <2>2
      <4>2. \A i \in 1..Depth :
              (IF i < Depth THEN stack[i + 1].org ELSE List[Top.next]) \in Rules
        BY <2>3, <3>1, <4>1
      <4> QED
        BY <4>2
    <3>3. \A i \in 1..(Depth - 1) : p[i + 1] \in Range(required[p[i]])
      <4> SUFFICES ASSUME NEW i \in 1..(Depth - 1)
                   PROVE  p[i + 1] \in Range(required[p[i]])
        OBVIOUS
      <4>1. p[i] = stack[i + 1].org
        BY <2>2
      <4>2. CASE i + 1 < Depth
        <5>1. i + 1 \in 1..(Depth - 1) /\ p[i + 1] = stack[(i + 1) + 1].org
          BY <2>2, <4>2
        <5> QED
          BY <2>3, <4>1, <5>1
      <4>3. CASE i + 1 = Depth
        <5>1. p[i + 1] = List[Top.next]
          BY <2>2, <4>3
        <5> QED
          BY <3>1, <4>1, <4>3, <5>1 DEF Range, List, Top
      <4> QED
        BY <2>2, <4>2, <4>3
    <3> HIDE DEF p
    <3> QED
      BY <2>2, <3>1, <3>2, <3>3, LongPathIsCircular
  <2> QED
    BY <2>4, <2>5
<1> QED
  BY <1>1, InvAlways, PTL
=============================================================================
