------------------------- MODULE IncrementalProofs -------------------------
(***************************************************************************)
(* Proofs about Incremental for every set of elements and rules, every     *)
(* number of ticks, and seconds that an int cannot hold.                   *)
(***************************************************************************)
EXTENDS Incremental, TLAPS

-----------------------------------------------------------------------------
(* The inductive invariant.                                                *)

\* The fields are lists of elements.
Usable == InputField \notin NoList /\ Looped \notin NoList

\* The elements that were dealt with.
Seen == {j \in DOMAIN Looped : j < ix}

\* Nothing happened since it began that takes away what the build has done.
Building == pc \in {"loop", "script"} \/ Succeeded

\* Nothing is from the future.
Past ==
    /\ \A e \in Elements : inTime[e] <= now /\ read[e] <= now
    /\ \A o \in Outputs : /\ out[o].time <= now
                          /\ \A e \in Elements : out[o].made[e] <= out[o].time

\* Where the loop is, and what the script is given.
Loop ==
    /\ Building => Usable /\ Seen \subseteq DOMAIN InputField
    /\ Succeeded => ix > Len(Looped)
    /\ pc \in {"loop", "script"} => ix <= Len(Looped) + 1 /\ during \subseteq late
    /\ pc = "loop" /\ ~rule.unify => inputs = {}
    /\ pc \in {"loop", "script"} /\ rule.unify => ret = 0
    /\ pc = "script" /\ rule.unify => ix > Len(Looped)
    /\ pc = "script" /\ ~rule.unify =>
         /\ ix \in (DOMAIN Looped) \cap (DOMAIN InputField)
         /\ inputs = {InputField[ix]}
    /\ pc = "script" => \A e \in inputs : read[e] = inTime[e] \/ e \in during

\* The output of element i has what UpToDate asks for, what ForcedIsUpToDate
\* asks for; or is_file_newer will see that it has not.
Good(i) ==
    LET e == InputField[i]
        o == out[Output(i)]
    IN  o.made[e] = inTime[e] \/ e \in late \/ o.broken \/ Beyond(inTime[e])
GoodForced(i) ==
    LET e == InputField[i]
    IN  out[Output(i)].made[e] = inTime[e] \/ e \in during
Older(i) ==
    LET t == inTime[InputField[i]]
        u == out[Output(i)].time
    IN  Gone \in {t, u} \/ Second(u) < Second(t)

Keeps == rule.unify => rule.archive

\* At any time: an output that is not up to date is recognised as such.
Recognised ==
    Usable /\ Keeps =>
        \A i \in (DOMAIN Looped) \cap (DOMAIN InputField) :
            OwnOutput(i) => Good(i) \/ Older(i)

\* Of the elements dealt with, a singular rule's outputs are up to date; a unify
\* rule's is, or its script will make it so.
Made ==
    Building /\ ret = 0 =>
        \A j \in Seen :
            IF rule.unify /\ ~Succeeded
            THEN InputField[j] \in inputs \/ (~Forced /\ (Keeps => Good(j)))
            ELSE OwnOutput(j) => (Keeps => Good(j)) /\ (Forced => GoodForced(j))

\* A unify rule skips no input as long as there is no output.
AllPassed ==
    pc = "loop" /\ rule.unify =>
        /\ inputs \subseteq {InputField[j] : j \in Seen}
        /\ out[Whole] = NoFile => \A j \in Seen : InputField[j] \in inputs

\* It collects only what needs to be.
Collected ==
    pc = "loop" /\ rule.unify /\ ~Forced =>
        \A e \in inputs : \/ out[Whole].made[e] # inTime[e] \/ inTime[e] = Gone
                          \/ Beyond(out[Whole].time)

Inv == TypeOK /\ Past /\ Loop /\ Recognised /\ Made /\ AllPassed
       /\ Collected /\ OneListIsSafe

-----------------------------------------------------------------------------
(* Time.                                                                   *)

LEMMA DivBounds ==
    ASSUME NEW t \in Nat, NEW k \in Nat \ {0}
    PROVE  /\ t \div k \in Nat
           /\ k * (t \div k) <= t
           /\ t < k * (t \div k) + k
  OBVIOUS

LEMMA DivMonotone ==
    ASSUME NEW t \in Nat, NEW u \in Nat, NEW k \in Nat \ {0}, t <= u
    PROVE  t \div k <= u \div k
<1> DEFINE p == t \div k
           q == u \div k
<1>1. /\ p \in Nat /\ q \in Nat
      /\ k * p <= t /\ u < k * q + k
  BY DivBounds
<1> HIDE DEF p, q
<1>2. SUFFICES ASSUME q + 1 <= p PROVE FALSE
  BY <1>1 DEF p, q
<1>3. k * (q + 1) <= k * p
  BY <1>1, <1>2
<1>4. k * (q + 1) = k * q + k
  BY <1>1
<1> QED
  BY <1>1, <1>3, <1>4

LEMMA Seconds ==
    ASSUME NEW t \in Nat, NEW u \in Nat
    PROVE  /\ Second(t) \in Nat
           /\ t <= u => Second(t) <= Second(u)
  BY DivBounds, DivMonotone, TicksAssumption DEF Second

LEMMA ModSmall ==
    ASSUME NEW x \in Nat, NEW m \in Nat \ {0}, x < m
    PROVE  x % m = x
<1> DEFINE q == x \div m
           r == x % m
<1>1. /\ q \in Int /\ r \in Int
      /\ 0 <= r /\ r < m
      /\ x = m * q + r
  OBVIOUS
<1> HIDE DEF q, r
<1>2. CASE q <= -1
  <2>1. m * q <= m * (-1)
    BY <1>1, <1>2
  <2> QED
    BY <1>1, <2>1
<1>3. CASE q >= 1
  <2>1. m * q >= m * 1
    BY <1>1, <1>3
  <2> QED
    BY <1>1, <2>1
<1>4. CASE q = 0
  BY <1>1, <1>4 DEF r
<1> QED
  BY <1>1, <1>2, <1>3, <1>4

\* Before 2038 a time that was read is the time of the file.
LEMMA MtimeExact ==
    ASSUME NEW t \in Nat, ~Beyond(t)
    PROVE  Mtime(t) = Second(t)
<1> DEFINE s == Second(t)
           n == IntMax + 1
<1>1. s \in 0..IntMax /\ n \in Nat \ {0} /\ s < n
  BY Seconds, TicksAssumption DEF Beyond
<1> HIDE DEF s
<1>2. (s + n) % (2 * n) = s + n
  BY <1>1, ModSmall
<1>3. Mtime(t) = ((s + IntMax + 1) % (2 * n)) - n
  BY DEF Mtime, s
<1>4. s + IntMax + 1 = s + n
  BY <1>1, TicksAssumption
<1> QED
  BY <1>1, <1>2, <1>3, <1>4 DEF s

-----------------------------------------------------------------------------
(* The fields of the rule.                                                 *)

LEMMA FieldTypes ==
    ASSUME rule \in Rules
    PROVE  /\ rule.unify \in BOOLEAN /\ rule.archive \in BOOLEAN
           /\ InputField \in Field /\ OutputField \in Field
  BY IncrementalRulesAssumption, Zenon DEF Rule, InputField, OutputField

\* Usable fields are lists of elements.
LEMMA Lists ==
    ASSUME rule \in Rules, Usable
    PROVE  /\ InputField \in Seq(Elements) /\ Looped \in Seq(Elements)
           /\ \A i \in DOMAIN InputField : InputField[i] \in Elements
           /\ \A i \in DOMAIN Looped : Output(i) \in Outputs
           /\ rule.unify => Looped = InputField
           /\ Output(0) \in Outputs \/ ~rule.unify
<1>1. InputField \in Seq(Elements) /\ Looped \in Seq(Elements)
  BY FieldTypes DEF Usable, Field, Looped
<1>2. \A i \in DOMAIN InputField : InputField[i] \in Elements
  BY <1>1
<1>3. \A i \in DOMAIN Looped : Output(i) \in Outputs
  BY <1>1 DEF Output, Outputs, Looped
<1> QED
  BY <1>1, <1>2, <1>3 DEF Looped, Output, Outputs

LEMMA SameRule ==
    ASSUME rule' = rule
    PROVE  /\ InputField' = InputField /\ OutputField' = OutputField
           /\ Looped' = Looped /\ Usable' = Usable /\ Keeps' = Keeps
           /\ \A i : Output(i)' = Output(i) /\ OwnOutput(i)' = OwnOutput(i)
<1>1. InputField' = InputField /\ OutputField' = OutputField
  BY DEF InputField, OutputField
<1>2. Looped' = Looped
  BY <1>1 DEF Looped
<1>3. \A i : Output(i)' = Output(i)
  BY <1>1 DEF Output
<1>4. Usable' = Usable /\ Keeps' = Keeps
  BY <1>1, <1>2 DEF Usable, Keeps
<1>5. \A i : OwnOutput(i)' = OwnOutput(i)
  BY <1>2, <1>3 DEF OwnOutput
<1> QED
  BY <1>1, <1>2, <1>3, <1>4, <1>5

\* Steps that leave the files alone.
LEMMA SameFiles ==
    ASSUME rule' = rule, UNCHANGED <<inTime, out, late>>
    PROVE  /\ \A i : Good(i)' <=> Good(i)
           /\ \A i : Older(i)' <=> Older(i)
           /\ during' = during => \A i : GoodForced(i)' <=> GoodForced(i)
           /\ Recognised => Recognised'
<1>1. /\ InputField' = InputField /\ Looped' = Looped /\ Usable' = Usable /\ Keeps' = Keeps
      /\ \A i : Output(i)' = Output(i) /\ OwnOutput(i)' = OwnOutput(i)
  BY SameRule
<1>2. \A i : Good(i)' <=> Good(i)
  BY <1>1 DEF Good, Beyond, Second
<1>3. \A i : Older(i)' <=> Older(i)
  BY <1>1 DEF Older, Second
<1>4. during' = during => \A i : GoodForced(i)' <=> GoodForced(i)
  BY <1>1 DEF GoodForced
<1>5. Recognised => Recognised'
  BY <1>1, <1>2, <1>3 DEF Recognised
<1> QED
  BY <1>2, <1>3, <1>4, <1>5

LEMMA InitInv == Init => Inv
<1> SUFFICES ASSUME Init PROVE Inv
  OBVIOUS
<1>1. Nothing \in [Elements -> Ticks] /\ 0 \in 0..MaxTick
  BY TicksAssumption DEF Nothing, Ticks
<1>2. NoFile \in [time : Ticks, made : [Elements -> Ticks], broken : BOOLEAN]
  BY <1>1 DEF NoFile, Ticks
<1>3. TypeOK
  BY <1>1, <1>2 DEF Init, TypeOK, Ticks, Options
<1>4. Past
  BY DEF Init, Past, NoFile, Nothing, Gone
<1>5. Recognised
  <2>1. \A o \in Outputs : out[o].time = Gone
    BY DEF Init, NoFile
  <2> QED
    BY <2>1, <1>3, Lists DEF Recognised, Older, TypeOK
<1>6. pc = "idle" /\ ~Building
  BY DEF Init, Building, Succeeded
<1> QED
  BY <1>3, <1>4, <1>5, <1>6 DEF Inv, Loop, Made, AllPassed, Collected, OneListIsSafe,
     Building, Succeeded

LEMMA TickInv ==
    ASSUME Inv, Tick
    PROVE  Inv'
<1>1. /\ now' = now + 1 /\ now < MaxTick
      /\ UNCHANGED <<rule, inTime, out, during, late, pc, opts, ix, inputs, read, ret>>
  BY DEF Tick
<1>2. /\ InputField' = InputField /\ Looped' = Looped /\ Usable' = Usable /\ Keeps' = Keeps
      /\ \A i : Output(i)' = Output(i) /\ OwnOutput(i)' = OwnOutput(i)
  BY <1>1, SameRule
<1>3. /\ \A i : (Good(i)' <=> Good(i)) /\ (GoodForced(i)' <=> GoodForced(i))
      /\ Recognised'
  BY <1>1, SameFiles DEF Inv
<1>4. /\ Succeeded' = Succeeded /\ Building' = Building /\ Forced' = Forced
      /\ Seen' = Seen
  BY <1>1, <1>2 DEF Succeeded, Building, Forced, Seen
<1>5. TypeOK'
  BY <1>1, <1>2, TicksAssumption DEF Inv, TypeOK
<1>6. Past'
  BY <1>1, TicksAssumption DEF Inv, Past, TypeOK, Ticks, Gone
<1>7. Loop'
  BY <1>1, <1>2, <1>4 DEF Inv, Loop
<1>8. Made'
  BY <1>1, <1>2, <1>3, <1>4 DEF Inv, Made
<1>9. AllPassed' /\ Collected'
  BY <1>1, <1>2, <1>4 DEF Inv, AllPassed, Collected, Beyond, Second
<1>10. OneListIsSafe'
  BY <1>1 DEF Inv, OneListIsSafe
<1> QED
  BY <1>3, <1>5, <1>6, <1>7, <1>8, <1>9, <1>10 DEF Inv

\* An edit is late, or its tick is of a second in which nothing was written.
LEMMA EditInv ==
    ASSUME Inv, NEW a \in Elements, Edit(a)
    PROVE  Inv'
<1>1. /\ now < MaxTick /\ now' = now + 1
      /\ inTime' = [inTime EXCEPT ![a] = now']
      /\ during' = IF AtRest THEN during ELSE during \cup {a}
      /\ late' = IF AtRest /\ \A o \in Outputs : Second(out[o].time) # Second(now')
                 THEN late \ {a} ELSE late \cup {a}
      /\ pc' = IF AtRest THEN "idle" ELSE pc
      /\ UNCHANGED <<rule, out, opts, ix, inputs, read, ret>>
  BY DEF Edit
<1>2. /\ InputField' = InputField /\ Looped' = Looped /\ Usable' = Usable /\ Keeps' = Keeps
      /\ \A i : Output(i)' = Output(i) /\ OwnOutput(i)' = OwnOutput(i)
  BY <1>1, SameRule
<1>3. /\ now \in Nat /\ now' \in 0..MaxTick
      /\ inTime'[a] = now' /\ \A e \in Elements \ {a} : inTime'[e] = inTime[e]
      /\ inTime \in [Elements -> Ticks] /\ inTime' \in [Elements -> Ticks]
  BY <1>1, TicksAssumption DEF Inv, TypeOK, Ticks
<1>4. TypeOK'
  <2>1. during' \subseteq Elements /\ late' \subseteq Elements
    BY <1>1 DEF Inv, TypeOK
  <2>2. pc' \in {"idle", "loop", "script", "returned", "undefined"}
        /\ (pc' = "script" => pc = "script")
    BY <1>1 DEF Inv, TypeOK
  <2>3. /\ rule' \in Rules /\ opts' \in Options /\ ix' \in Nat \ {0}
        /\ inputs' \subseteq Elements /\ ret' \in {0, 1} /\ read' \in [Elements -> Ticks]
        /\ out' \in [Outputs -> [time : Ticks, made : [Elements -> Ticks],
                                 broken : BOOLEAN]]
    BY <1>1 DEF Inv, TypeOK
  <2>4. pc' = "script" => inputs' # {} /\ ix' <= Len(Looped') + 1
    BY <1>1, <1>2, <2>2 DEF Inv, TypeOK
  <2> QED
    BY <1>3, <2>1, <2>2, <2>3, <2>4, Zenon DEF TypeOK
<1>5. Past'
  BY <1>1, <1>3, TicksAssumption DEF Inv, Past, TypeOK, Ticks, Gone
<1>6. Building' => ~AtRest /\ pc' = pc /\ pc \in {"loop", "script"} /\ Building
                   /\ ~Succeeded /\ ~Succeeded'
  BY <1>1 DEF Building, Succeeded, AtRest
<1>7. \A i : InputField[i] \in Elements \ {a} =>
               /\ Good(i) => Good(i)'
               /\ Older(i) => Older(i)'
               /\ ~AtRest => (GoodForced(i) => GoodForced(i)')
  BY <1>1, <1>2, <1>3 DEF Good, Older, GoodForced, Beyond, Second, Gone
<1>8. \A i : InputField[i] = a /\ ~AtRest => Good(i)' /\ GoodForced(i)'
  BY <1>1, <1>2 DEF Good, GoodForced
<1>9. Loop'
  <2> SUFFICES ASSUME Building' PROVE Loop'
    BY DEF Loop, Building
  <2>1. /\ during' = during \cup {a} /\ late' = late \cup {a} /\ pc' = pc
        /\ Seen' = Seen
    BY <1>1, <1>2, <1>6 DEF Seen
  <2>2. pc = "script" => \A e \in inputs : read[e] = inTime'[e] \/ e \in during'
    BY <1>3, <2>1 DEF Inv, Loop, TypeOK
  <2> QED
    BY <1>1, <1>2, <1>6, <2>1, <2>2 DEF Inv, Loop
<1>10. Recognised'
  <2> SUFFICES ASSUME Usable, Keeps,
                      NEW i \in (DOMAIN Looped) \cap (DOMAIN InputField), OwnOutput(i)
               PROVE  Good(i)' \/ Older(i)'
    BY <1>2 DEF Recognised
  <2>1. InputField[i] \in Elements /\ Output(i) \in Outputs
    BY Lists DEF Inv, TypeOK
  <2>2. CASE InputField[i] # a
    BY <1>7, <2>1, <2>2 DEF Inv, Recognised
  <2>3. CASE InputField[i] = a /\ a \in late'
    BY <1>2, <2>3 DEF Good
  <2>4. CASE InputField[i] = a /\ a \notin late'
    <3> DEFINE u == out[Output(i)].time
    <3>1. Second(u) # Second(now')
      BY <1>1, <2>1, <2>4
    <3>2. u \in Ticks /\ u <= now
      BY <2>1 DEF Inv, Past, TypeOK
    <3>3. u # Gone => Second(u) < Second(now')
      BY <1>1, <1>3, <3>1, <3>2, Seconds DEF Ticks
    <3> QED
      BY <1>1, <1>2, <1>3, <2>4, <3>3 DEF Older, Second
  <2> QED
    BY <2>2, <2>3, <2>4
<1>11. Made'
  <2> SUFFICES ASSUME Building', ret = 0, NEW j \in Seen
               PROVE  IF rule.unify
                      THEN InputField[j] \in inputs \/ (~Forced /\ (Keeps => Good(j)'))
                      ELSE OwnOutput(j) => (Keeps => Good(j)') /\ (Forced => GoodForced(j)')
    BY <1>1, <1>2, <1>6 DEF Made, Seen, Forced
  <2>1. InputField[j] \in Elements
    BY <1>6, Lists DEF Inv, Loop, TypeOK
  <2>2. (Good(j) => Good(j)') /\ (GoodForced(j) => GoodForced(j)')
    BY <1>6, <1>7, <1>8, <2>1
  <2> QED
    BY <1>6, <2>2 DEF Inv, Made
<1>12. AllPassed'
  BY <1>1, <1>2 DEF Inv, AllPassed, Seen
<1>13. Collected'
  <2> SUFFICES ASSUME pc = "loop", rule.unify, ~Forced, NEW e \in inputs
               PROVE  \/ out[Whole].made[e] # inTime'[e] \/ inTime'[e] = Gone
                      \/ Beyond(out[Whole].time)
    BY <1>1 DEF Collected, Forced, Beyond, Second
  <2>1. CASE e = a
    <3>1. /\ out[Whole].made[e] <= out[Whole].time /\ out[Whole].time <= now
          /\ out[Whole].made[e] \in Ticks /\ out[Whole].time \in Ticks
      BY DEF Inv, Past, TypeOK, Outputs
    <3>2. out[Whole].made[e] # now'
      BY <1>1, <1>3, <3>1, TicksAssumption DEF Ticks, Gone
    <3> QED
      BY <1>3, <2>1, <3>2
  <2>2. CASE e # a
    BY <1>3, <2>2 DEF Inv, Collected, TypeOK
  <2> QED
    BY <2>1, <2>2
<1>14. OneListIsSafe'
  BY <1>1 DEF Inv, OneListIsSafe, AtRest
<1> QED
  BY <1>4, <1>5, <1>9, <1>10, <1>11, <1>12, <1>13, <1>14 DEF Inv

LEMMA CleanInv ==
    ASSUME Inv, Clean
    PROVE  Inv'
<1>1. /\ AtRest /\ pc' = "idle" /\ out' = [o \in Outputs |-> NoFile]
      /\ UNCHANGED <<rule, now, inTime, during, late, opts, ix, inputs, read, ret>>
  BY DEF Clean
<1>2. Usable' = Usable /\ Looped' = Looped /\ InputField' = InputField
      /\ \A i : Output(i)' = Output(i)
  BY <1>1, SameRule
<1>3. NoFile \in [time : Ticks, made : [Elements -> Ticks], broken : BOOLEAN]
      /\ NoFile.time = Gone /\ \A e \in Elements : NoFile.made[e] = Gone
  BY DEF NoFile, Nothing, Ticks
<1>4. TypeOK'
  BY <1>1, <1>3 DEF Inv, TypeOK
<1>5. Past'
  BY <1>1, <1>3 DEF Inv, Past, TypeOK, Gone
<1>6. Recognised'
  BY <1>1, <1>2, <1>3, Lists DEF Inv, TypeOK, Recognised, Older
<1>7. ~Building' /\ ~Succeeded'
  BY <1>1 DEF Building, Succeeded
<1> QED
  BY <1>1, <1>4, <1>5, <1>6, <1>7 DEF Inv, Loop, Made, AllPassed, Collected, OneListIsSafe

LEMMA StartInv ==
    ASSUME Inv, Start
    PROVE  Inv'
<1>1. /\ opts' \in Options /\ during' = {} /\ ix' = 1 /\ inputs' = {} /\ read' = Nothing
      /\ pc' = IF ~GetIoFields THEN "returned"
               ELSE IF Looped \in NoList THEN "undefined" ELSE "loop"
      /\ ret' = IF GetIoFields THEN 0 ELSE 1
      /\ UNCHANGED <<rule, now, inTime, out, late>>
  BY DEF Start
<1>2. /\ InputField' = InputField /\ Looped' = Looped /\ Usable' = Usable
      /\ \A i : Output(i)' = Output(i) /\ OwnOutput(i)' = OwnOutput(i)
  BY <1>1, SameRule
<1>3. GetIoFields => InputField \notin NoList
  BY DEF GetIoFields
<1>4. pc' \in {"returned", "undefined", "loop"}
      /\ (pc' = "loop" => Usable) /\ (pc' = "returned" => ret' = 1)
  BY <1>1, <1>3 DEF Usable
<1>5. Usable => Looped \in Seq(Elements)
  BY Lists DEF Inv, TypeOK
<1>6. TypeOK'
  <2>1. Nothing \in [Elements -> Ticks]
    BY DEF Nothing, Ticks
  <2> QED
    BY <1>1, <1>4, <2>1 DEF Inv, TypeOK
<1>7. Past'
  BY <1>1 DEF Inv, Past, TypeOK, Nothing, Gone
<1>8. Recognised'
  BY <1>1, SameFiles DEF Inv
<1>9. Usable => Seen' = {}
  BY <1>1, <1>2, <1>5 DEF Seen
<1>10. Loop'
  BY <1>1, <1>2, <1>4, <1>5, <1>9 DEF Loop, Building, Succeeded
<1>11. Made'
  BY <1>1, <1>2, <1>4, <1>9 DEF Made, Building, Succeeded
<1>12. AllPassed' /\ Collected'
  BY <1>1, <1>4, <1>9 DEF AllPassed, Collected
<1>13. OneListIsSafe'
  <2> SUFFICES ASSUME GetIoFields, Looped \in NoList, rule.output = Absent,
                      rule.input = Absent \/ rule.inputSrc = Absent
               PROVE  FALSE
    BY <1>1 DEF OneListIsSafe
  <2>1. OutputField = InputField
    BY DEF InputField, OutputField
  <2> QED
    BY <1>3, <2>1 DEF Looped
<1> QED
  BY <1>6, <1>7, <1>8, <1>10, <1>11, <1>12, <1>13 DEF Inv

LEMMA FailsInv ==
    ASSUME Inv, Fails
    PROVE  Inv'
<1>1. /\ pc = "loop" /\ pc' = "returned" /\ ret' = 1
      /\ UNCHANGED <<rule, now, inTime, out, during, late, opts, ix, inputs, read>>
  BY DEF Fails, files
<1>2. TypeOK'
  BY <1>1 DEF Inv, TypeOK
<1>3. Past' /\ Recognised'
  BY <1>1, SameFiles DEF Inv, Past
<1>4. ~Building' /\ ~Succeeded'
  BY <1>1 DEF Building, Succeeded
<1> QED
  BY <1>1, <1>2, <1>3, <1>4 DEF Inv, Loop, Made, AllPassed, Collected, OneListIsSafe

\* A rule with one list has no output behind its last input.
LEMMA ReadBehindEndInv ==
    ASSUME Inv, ReadBehindEnd
    PROVE  Inv'
<1>1. /\ pc = "loop" /\ pc' = "undefined" /\ ix \in (DOMAIN Looped) \ (DOMAIN InputField)
      /\ UNCHANGED <<rule, now, inTime, out, during, late, opts, ix, inputs, read, ret>>
  BY DEF ReadBehindEnd, files
<1>2. TypeOK'
  BY <1>1 DEF Inv, TypeOK
<1>3. Past' /\ Recognised'
  BY <1>1, SameFiles DEF Inv, Past
<1>4. ~Building' /\ ~Succeeded'
  BY <1>1 DEF Building, Succeeded
<1>5. OneListIsSafe'
  <2>1. Looped # InputField
    BY <1>1
  <2>2. OutputField # InputField
    BY <2>1 DEF Looped
  <2> QED
    BY <1>1, <2>2 DEF OneListIsSafe, InputField, OutputField
<1> QED
  BY <1>1, <1>2, <1>3, <1>4, <1>5 DEF Inv, Loop, Made, AllPassed, Collected

LEMMA StutterInv ==
    ASSUME Inv, UNCHANGED vars
    PROVE  Inv'
<1>1. UNCHANGED <<rule, now, inTime, out, during, late, pc, opts, ix, inputs, read, ret>>
  BY DEF vars, files
<1>2. /\ InputField' = InputField /\ Looped' = Looped /\ Usable' = Usable /\ Keeps' = Keeps
      /\ \A i : Output(i)' = Output(i) /\ OwnOutput(i)' = OwnOutput(i)
  BY <1>1, SameRule
<1>3. /\ \A i : (Good(i)' <=> Good(i)) /\ (GoodForced(i)' <=> GoodForced(i))
      /\ Recognised'
  BY <1>1, SameFiles DEF Inv
<1>4. /\ Succeeded' = Succeeded /\ Building' = Building /\ Forced' = Forced
      /\ Seen' = Seen
  BY <1>1, <1>2 DEF Succeeded, Building, Forced, Seen
<1>5. TypeOK'
  BY <1>1, <1>2 DEF Inv, TypeOK
<1>6. Past' /\ Loop'
  BY <1>1, <1>2, <1>4 DEF Inv, Past, Loop
<1>7. Made'
  BY <1>1, <1>2, <1>3, <1>4 DEF Inv, Made
<1>8. AllPassed' /\ Collected' /\ OneListIsSafe'
  BY <1>1, <1>2, <1>4 DEF Inv, AllPassed, Collected, OneListIsSafe, Beyond, Second
<1> QED
  BY <1>3, <1>5, <1>6, <1>7, <1>8 DEF Inv

-----------------------------------------------------------------------------
(* The loop.                                                               *)

\* What is not newer than its output was not edited after it, unless late.
LEMMA NotNewer ==
    ASSUME NEW t \in Ticks, NEW u \in Ticks, ~IsFileNewer(t, u), ~Beyond(t)
    PROVE  t # Gone /\ u # Gone /\ ~(Second(u) < Second(t))
<1>1. t # Gone /\ u # Gone /\ ~(Mtime(t) > Mtime(u))
  BY DEF IsFileNewer
<1>2. t \in Nat /\ u \in Nat
  BY <1>1 DEF Ticks
<1>3. SUFFICES ASSUME Second(u) < Second(t) PROVE FALSE
  BY <1>1
<1>4. Second(t) \in Nat /\ Second(u) \in Nat /\ ~Beyond(u)
  BY <1>2, <1>3, Seconds, TicksAssumption DEF Beyond
<1>5. Mtime(t) = Second(t) /\ Mtime(u) = Second(u)
  BY <1>2, <1>4, MtimeExact
<1> QED
  BY <1>1, <1>3, <1>4, <1>5

\* What is newer than its output is not what that was made from.
LEMMA Newer ==
    ASSUME NEW t \in Ticks, NEW u \in Ticks, IsFileNewer(t, u),
           NEW m \in Ticks, m <= u
    PROVE  m # t \/ t = Gone \/ Beyond(u)
<1> SUFFICES ASSUME m = t, t # Gone, ~Beyond(u) PROVE FALSE
  OBVIOUS
<1>1. t \in Nat /\ u \in Nat /\ t <= u
  BY DEF Ticks, Gone
<1>2. Second(t) \in Nat /\ Second(u) \in Nat /\ Second(t) <= Second(u)
  BY <1>1, Seconds
<1>3. ~Beyond(t)
  BY <1>2, TicksAssumption DEF Beyond
<1>4. Mtime(t) = Second(t) /\ Mtime(u) = Second(u)
  BY <1>1, <1>3, MtimeExact
<1> QED
  BY <1>1, <1>2, <1>4 DEF IsFileNewer, Gone

LEMMA ElementTypes ==
    ASSUME Inv, Usable, NEW i \in (DOMAIN Looped) \cap (DOMAIN InputField)
    PROVE  LET e == InputField[i]
               o == out[Output(i)]
           IN  /\ i \in 1..Len(Looped) /\ Len(Looped) \in Nat
               /\ e \in Elements /\ Output(i) \in Outputs
               /\ inTime[e] \in Ticks /\ o.time \in Ticks /\ o.made[e] \in Ticks
               /\ o.made[e] <= o.time
<1>1. Looped \in Seq(Elements) /\ InputField[i] \in Elements /\ Output(i) \in Outputs
  BY Lists DEF Inv, TypeOK
<1> QED
  BY <1>1 DEF Inv, TypeOK, Past

\* A skipped element's output is up to date.
LEMMA Skipped ==
    ASSUME Inv, AtElement, ~OutOfDate(ix)
    PROVE  /\ ~Forced
           /\ Keeps /\ OwnOutput(ix) => Good(ix)
           /\ out[Output(ix)] # NoFile
<1> DEFINE t == inTime[InputField[ix]]
           u == out[Output(ix)].time
<1>1. Usable /\ ix \in (DOMAIN Looped) \cap (DOMAIN InputField)
  BY DEF Inv, AtElement, Loop, Building
<1>2. t \in Ticks /\ u \in Ticks
  BY <1>1, ElementTypes
<1>3. ~Forced /\ ~IsFileNewer(t, u)
  BY DEF OutOfDate, Forced
<1>4. u # Gone
  BY <1>3 DEF IsFileNewer
<1>5. ASSUME Keeps, OwnOutput(ix), ~Good(ix) PROVE FALSE
  <2>1. ~Beyond(t)
    BY <1>5 DEF Good
  <2>2. Older(ix)
    BY <1>1, <1>5 DEF Inv, Recognised
  <2> QED
    BY <1>2, <1>3, <2>1, <2>2, NotNewer DEF Older
<1> QED
  BY <1>3, <1>4, <1>5 DEF NoFile

LEMMA SkipInv ==
    ASSUME Inv, Skip
    PROVE  Inv'
<1>1. /\ AtElement /\ ~OutOfDate(ix) /\ pc = "loop" /\ ix' = ix + 1
      /\ UNCHANGED <<rule, now, inTime, out, during, late, pc, opts, inputs, read, ret>>
  BY DEF Skip, AtElement, files
<1>2. /\ InputField' = InputField /\ Looped' = Looped /\ Usable' = Usable /\ Keeps' = Keeps
      /\ \A i : Output(i)' = Output(i) /\ OwnOutput(i)' = OwnOutput(i)
  BY <1>1, SameRule
<1>3. Usable /\ ix \in (DOMAIN Looped) \cap (DOMAIN InputField)
  BY <1>1 DEF Inv, AtElement, Loop, Building
<1>4. ix \in 1..Len(Looped) /\ Looped \in Seq(Elements) /\ Len(Looped) \in Nat
  BY <1>3, Lists DEF Inv, TypeOK
<1>5. Seen' = Seen \cup {ix}
  BY <1>1, <1>2, <1>3, <1>4 DEF Seen
<1>6. /\ \A i : (Good(i)' <=> Good(i)) /\ (GoodForced(i)' <=> GoodForced(i))
      /\ Recognised'
  BY <1>1, SameFiles DEF Inv
<1>7. Building' /\ Building /\ ~Succeeded' /\ ~Succeeded /\ Forced' = Forced
  BY <1>1 DEF Succeeded, Building, Forced
<1>8. TypeOK'
  BY <1>1, <1>2, <1>4 DEF Inv, TypeOK
<1>9. Past'
  BY <1>1 DEF Inv, Past
<1>10. Loop'
  BY <1>1, <1>2, <1>3, <1>4, <1>5, <1>7 DEF Inv, Loop
<1>11. Made'
  BY <1>1, <1>2, <1>5, <1>6, <1>7, Skipped DEF Inv, Made, OwnOutput
<1>12. AllPassed'
  <2>1. rule.unify => out[Whole] # NoFile
    BY <1>1, Skipped DEF Output
  <2> QED
    BY <1>1, <1>2, <1>5, <2>1 DEF Inv, AllPassed
<1>13. Collected' /\ OneListIsSafe'
  BY <1>1, <1>7 DEF Inv, Collected, OneListIsSafe, Beyond, Second
<1> QED
  BY <1>6, <1>8, <1>9, <1>10, <1>11, <1>12, <1>13 DEF Inv

LEMMA CollectInv ==
    ASSUME Inv, Collect
    PROVE  Inv'
<1>1. /\ AtElement /\ OutOfDate(ix) /\ pc = "loop" /\ ix' = ix + 1 /\ rule.unify
      /\ inputs' = inputs \cup {InputField[ix]}
      /\ UNCHANGED <<rule, now, inTime, out, during, late, pc, opts, read, ret>>
  BY DEF Collect, AtElement, files
<1>2. /\ InputField' = InputField /\ Looped' = Looped /\ Usable' = Usable /\ Keeps' = Keeps
      /\ \A i : Output(i)' = Output(i) /\ OwnOutput(i)' = OwnOutput(i)
  BY <1>1, SameRule
<1>3. Usable /\ ix \in (DOMAIN Looped) \cap (DOMAIN InputField)
  BY <1>1 DEF Inv, AtElement, Loop, Building
<1>4. /\ ix \in 1..Len(Looped) /\ Len(Looped) \in Nat
      /\ InputField[ix] \in Elements
  BY <1>3, ElementTypes
<1>5. Seen' = Seen \cup {ix}
  BY <1>1, <1>2, <1>3, <1>4 DEF Seen
<1>6. /\ \A i : (Good(i)' <=> Good(i)) /\ (GoodForced(i)' <=> GoodForced(i))
      /\ Recognised'
  BY <1>1, SameFiles DEF Inv
<1>7. Building' /\ Building /\ ~Succeeded' /\ ~Succeeded /\ Forced' = Forced
  BY <1>1 DEF Succeeded, Building, Forced
<1>8. TypeOK'
  BY <1>1, <1>2, <1>4 DEF Inv, TypeOK
<1>9. Past'
  BY <1>1 DEF Inv, Past
<1>10. Loop'
  BY <1>1, <1>2, <1>3, <1>4, <1>5, <1>7 DEF Inv, Loop
<1>11. Made'
  BY <1>1, <1>2, <1>5, <1>6, <1>7 DEF Inv, Made
<1>12. AllPassed'
  BY <1>1, <1>2, <1>5 DEF Inv, AllPassed
<1>13. Collected'
  <2>1. ~Forced => \/ out[Whole].made[InputField[ix]] # inTime[InputField[ix]]
                   \/ inTime[InputField[ix]] = Gone
                   \/ Beyond(out[Whole].time)
    <3>1. ~Forced => IsFileNewer(inTime[InputField[ix]], out[Output(ix)].time)
      BY <1>1 DEF OutOfDate, Forced
    <3> QED
      BY <1>1, <1>3, <3>1, ElementTypes, Newer DEF Output
  <2> QED
    BY <1>1, <1>7, <2>1 DEF Inv, Collected, Beyond, Second
<1>14. OneListIsSafe'
  BY <1>1 DEF OneListIsSafe
<1> QED
  BY <1>6, <1>8, <1>9, <1>10, <1>11, <1>12, <1>13, <1>14 DEF Inv

\* The script is started: it reads what it is given.
LEMMA RunScriptInv ==
    ASSUME Inv, pc = "loop", NEW S, S \subseteq Elements, S # {}, RunScript(S),
           rule.unify => ix > Len(Looped) /\ S = inputs,
           ~rule.unify => AtElement /\ S = {InputField[ix]}
    PROVE  Inv'
<1>1. /\ inputs' = S /\ pc' = "script"
      /\ read' = [e \in Elements |-> IF e \in S THEN inTime[e] ELSE Gone]
      /\ UNCHANGED <<rule, now, inTime, out, during, late, opts, ix, ret>>
  BY DEF RunScript, files
<1>2. /\ InputField' = InputField /\ Looped' = Looped /\ Usable' = Usable /\ Keeps' = Keeps
      /\ \A i : Output(i)' = Output(i) /\ OwnOutput(i)' = OwnOutput(i)
  BY <1>1, SameRule
<1>3. /\ \A i : (Good(i)' <=> Good(i)) /\ (GoodForced(i)' <=> GoodForced(i))
      /\ Recognised'
  BY <1>1, SameFiles DEF Inv
<1>4. /\ Building' /\ Building /\ ~Succeeded' /\ ~Succeeded /\ Forced' = Forced
      /\ Seen' = Seen
  BY <1>1, <1>2 DEF Succeeded, Building, Forced, Seen
<1>5. TypeOK'
  <2>1. read' \in [Elements -> Ticks]
    BY <1>1 DEF Inv, TypeOK, Ticks
  <2>2. ix <= Len(Looped) + 1
    BY DEF Inv, Loop
  <2> QED
    BY <1>1, <1>2, <2>1, <2>2 DEF Inv, TypeOK
<1>6. Past'
  BY <1>1 DEF Inv, Past, TypeOK, Ticks, Gone
<1>7. Loop'
  BY <1>1, <1>2, <1>4 DEF Inv, Loop, AtElement
<1>8. Made'
  BY <1>1, <1>2, <1>3, <1>4 DEF Inv, Made
<1>9. AllPassed' /\ Collected' /\ OneListIsSafe'
  BY <1>1 DEF AllPassed, Collected, OneListIsSafe
<1> QED
  BY <1>3, <1>5, <1>6, <1>7, <1>8, <1>9 DEF Inv

LEMMA ExecSingularInv ==
    ASSUME Inv, ExecSingular
    PROVE  Inv'
<1>1. /\ AtElement /\ ~rule.unify /\ pc = "loop" /\ RunScript({InputField[ix]})
  BY DEF ExecSingular, AtElement
<1>2. InputField[ix] \in Elements
  BY <1>1, ElementTypes DEF Inv, AtElement, Loop, Building
<1> QED
  BY <1>1, <1>2, RunScriptInv

LEMMA ExecUnifyInv ==
    ASSUME Inv, ExecUnify
    PROVE  Inv'
  BY RunScriptInv DEF ExecUnify, Inv, TypeOK

LEMMA LoopEndsInv ==
    ASSUME Inv, LoopEnds
    PROVE  Inv'
<1>1. /\ pc = "loop" /\ ix > Len(Looped) /\ (inputs = {} \/ ~rule.unify)
      /\ pc' = "returned"
      /\ UNCHANGED <<rule, now, inTime, out, during, late, opts, ix, inputs, read, ret>>
  BY DEF LoopEnds, files
<1>2. /\ InputField' = InputField /\ Looped' = Looped /\ Usable' = Usable /\ Keeps' = Keeps
      /\ \A i : Output(i)' = Output(i) /\ OwnOutput(i)' = OwnOutput(i)
  BY <1>1, SameRule
<1>3. /\ \A i : (Good(i)' <=> Good(i)) /\ (GoodForced(i)' <=> GoodForced(i))
      /\ Recognised'
  BY <1>1, SameFiles DEF Inv
<1>4. /\ Building /\ ~Succeeded /\ Forced' = Forced /\ Seen' = Seen
      /\ Succeeded' => ret = 0
  BY <1>1, <1>2 DEF Succeeded, Building, Forced, Seen
<1>5. TypeOK'
  BY <1>1 DEF Inv, TypeOK
<1>6. Past'
  BY <1>1 DEF Inv, Past
<1>7. Loop'
  BY <1>1, <1>2, <1>4 DEF Inv, Loop
<1>8. Made'
  BY <1>1, <1>2, <1>3, <1>4 DEF Inv, Made, Building
<1>9. AllPassed' /\ Collected' /\ OneListIsSafe'
  BY <1>1 DEF AllPassed, Collected, OneListIsSafe
<1> QED
  BY <1>3, <1>5, <1>6, <1>7, <1>8, <1>9 DEF Inv

-----------------------------------------------------------------------------
(* The script ends.                                                        *)

\* The output of the element the loop is at, or of all of them.
LEMMA ScriptOutput ==
    ASSUME Inv, pc = "script"
    PROVE  /\ Usable /\ Output(ix) \in Outputs
           /\ ix \in Nat /\ Len(Looped) \in Nat
           /\ rule.unify => ix = Len(Looped) + 1
           /\ \A i \in DOMAIN Looped :
                Output(i) = Output(ix) /\ OwnOutput(i) => rule.unify \/ i = ix
<1>1. Usable /\ Looped \in Seq(Elements)
  BY Lists DEF Inv, TypeOK, Loop, Building
<1>2. Output(ix) \in Outputs
  <2>1. CASE rule.unify
    BY <2>1 DEF Output, Outputs
  <2>2. CASE ~rule.unify
    BY <1>1, <2>2, Lists DEF Inv, TypeOK, Loop
  <2> QED
    BY <2>1, <2>2
<1>3. \A i \in DOMAIN Looped :
        Output(i) = Output(ix) /\ OwnOutput(i) => rule.unify \/ i = ix
  BY DEF Inv, Loop, OwnOutput
<1>4. rule.unify => ix = Len(Looped) + 1
  BY <1>1 DEF Inv, Loop, TypeOK
<1> QED
  BY <1>1, <1>2, <1>3, <1>4 DEF Inv, TypeOK

LEMMA FileWith ==
    ASSUME NEW r, NEW t, NEW b,
           r = [time |-> r.time, made |-> r.made, broken |-> r.broken]
    PROVE  /\ [r EXCEPT !.time = t] = [time |-> t, made |-> r.made, broken |-> r.broken]
           /\ [r EXCEPT !.broken = b] = [time |-> r.time, made |-> r.made, broken |-> b]
  OBVIOUS

LEMMA BrokenFile ==
    ASSUME NEW t
    PROVE  [NoFile EXCEPT !.time = t, !.broken = TRUE] =
             [time |-> t, made |-> Nothing, broken |-> TRUE]
<1> DEFINE s == [NoFile EXCEPT !.time = t]
<1>1. NoFile = [time |-> NoFile.time, made |-> NoFile.made, broken |-> NoFile.broken]
      /\ NoFile.made = Nothing
  BY DEF NoFile
<1>2. s = [time |-> t, made |-> Nothing, broken |-> NoFile.broken]
  BY <1>1, FileWith
<1> HIDE DEF s
<1>3. s = [time |-> s.time, made |-> s.made, broken |-> s.broken]
      /\ s.time = t /\ s.made = Nothing
  BY <1>2
<1>4. [s EXCEPT !.broken = TRUE] = [time |-> t, made |-> Nothing, broken |-> TRUE]
  BY <1>3, FileWith, Zenon
<1> QED
  BY <1>4, Zenon DEF s

LEMMA ScriptEndsInv ==
    ASSUME Inv, ScriptEnds
    PROVE  Inv'
<1> DEFINE o == Output(ix)
           kept == IF rule.archive THEN out[o] ELSE NoFile
           made == [e \in Elements |-> IF e \in inputs THEN read[e] ELSE kept.made[e]]
           new == [time |-> now, made |-> made, broken |-> kept.broken]
           broken == [NoFile EXCEPT !.time = now, !.broken = TRUE]
           Success == /\ \A e \in inputs : read[e] # Gone
                      /\ out' = [out EXCEPT ![o] = new]
                      /\ ret' = ret
           Failure == /\ out' = out \/ out' = [out EXCEPT ![o] = broken]
                      /\ ret' = 1
<1>1. /\ pc = "script" /\ (Success \/ Failure)
      /\ pc' = IF rule.unify \/ (ret' # 0 /\ ~opts.keepGoing) THEN "returned" ELSE "loop"
      /\ ix' = ix + 1 /\ inputs' = {} /\ read' = Nothing
      /\ UNCHANGED <<rule, now, inTime, during, late, opts>>
  BY DEF ScriptEnds
<1>2. /\ InputField' = InputField /\ Looped' = Looped /\ Usable' = Usable /\ Keeps' = Keeps
      /\ \A i : Output(i)' = Output(i) /\ OwnOutput(i)' = OwnOutput(i)
  BY <1>1, SameRule
<1>3. /\ Usable /\ o \in Outputs /\ ix \in Nat /\ Len(Looped) \in Nat
      /\ rule.unify => ix = Len(Looped) + 1
      /\ \A i \in DOMAIN Looped :
           Output(i) = o /\ OwnOutput(i) => rule.unify \/ i = ix
  BY <1>1, ScriptOutput
<1>4. /\ Looped \in Seq(Elements) /\ \A i \in DOMAIN InputField : InputField[i] \in Elements
      /\ (rule.unify => Looped = InputField)
  BY <1>3, Lists DEF Inv, TypeOK
\* What may be in the output now.
<1>5. /\ now \in Ticks /\ NoFile.broken = FALSE
      /\ \A e \in Elements : NoFile.made[e] = Gone
      /\ broken = [time |-> now, made |-> Nothing, broken |-> TRUE]
      /\ out[o] \in [time : Ticks, made : [Elements -> Ticks], broken : BOOLEAN]
      /\ kept \in [time : Ticks, made : [Elements -> Ticks], broken : BOOLEAN]
      /\ \A e \in Elements : kept.made[e] <= now
  <2>1. NoFile \in [time : Ticks, made : [Elements -> Ticks], broken : BOOLEAN]
    BY DEF NoFile, Nothing, Ticks
  <2>2. out[o] \in [time : Ticks, made : [Elements -> Ticks], broken : BOOLEAN]
    BY <1>3 DEF Inv, TypeOK
  <2>3. /\ now \in Nat /\ now \in Ticks /\ out[o].time <= now
        /\ \A e \in Elements : out[o].made[e] <= out[o].time
    BY <1>3, TicksAssumption DEF Inv, TypeOK, Ticks, Past
  <2>4. \A e \in Elements : out[o].made[e] <= now
    BY <2>2, <2>3 DEF Ticks, Gone
  <2>5. \A e \in Elements : NoFile.made[e] = Gone /\ Gone <= now
    BY <2>3 DEF NoFile, Nothing, Gone
  <2>6. broken = [time |-> now, made |-> Nothing, broken |-> TRUE]
        /\ NoFile.broken = FALSE
    BY BrokenFile DEF NoFile
  <2>7. kept = out[o] \/ kept = NoFile
    OBVIOUS
  <2>8. /\ kept \in [time : Ticks, made : [Elements -> Ticks], broken : BOOLEAN]
        /\ \A e \in Elements : kept.made[e] <= now
    <3> HIDE DEF kept, o
    <3> QED
      BY <2>1, <2>2, <2>4, <2>5, <2>7
  <2> QED
    BY <2>2, <2>3, <2>5, <2>6, <2>8
<1>6. /\ new \in [time : Ticks, made : [Elements -> Ticks], broken : BOOLEAN]
      /\ broken \in [time : Ticks, made : [Elements -> Ticks], broken : BOOLEAN]
      /\ \A e \in Elements : new.made[e] <= now /\ broken.made[e] <= now
      /\ new.time = now /\ broken.time = now
  <2>1. made \in [Elements -> Ticks]
    BY <1>5 DEF Inv, TypeOK
  <2>2. \A e \in Elements : made[e] <= now
    BY <1>5 DEF Inv, Past
  <2>3. Nothing \in [Elements -> Ticks] /\ \A e \in Elements : Nothing[e] <= now
    BY <1>5 DEF Nothing, Ticks, Gone, Inv, TypeOK
  <2> HIDE DEF made, kept
  <2> QED
    BY <1>5, <2>1, <2>2, <2>3
\* What it is made from.
<1>7. Success => /\ \A e \in inputs : out'[o].made[e] = inTime[e] \/ e \in during
                 /\ \A e \in Elements \ inputs : out'[o].made[e] = kept.made[e]
                 /\ out'[o].broken = kept.broken
  <2>1. Success => out'[o] = new
    BY <1>3 DEF Inv, TypeOK
  <2>2. \A e \in inputs : made[e] = inTime[e] \/ e \in during
    BY <1>1 DEF Inv, Loop, TypeOK
  <2>3. \A e \in Elements \ inputs : made[e] = kept.made[e]
    OBVIOUS
  <2>4. new.made = made /\ new.broken = kept.broken
    OBVIOUS
  <2> HIDE DEF made, kept, new
  <2> QED
    BY <2>1, <2>2, <2>3, <2>4
<1>8. Failure => out'[o] = out[o] \/ out'[o].broken
  BY <1>3, <1>5 DEF Inv, TypeOK
<1>9. \A p \in Outputs \ {o} : out'[p] = out[p]
  BY <1>1 DEF Inv, TypeOK
<1>10. out'[o] \in {out[o], new, broken} /\ DOMAIN out' = Outputs
       /\ out' \in [Outputs -> [time : Ticks, made : [Elements -> Ticks], broken : BOOLEAN]]
  <2> HIDE DEF new, broken
  <2> QED
    BY <1>1, <1>3, <1>6 DEF Inv, TypeOK
<1> HIDE DEF o, made, new, broken
<1>11. TypeOK'
  <2>1. /\ pc' \in {"returned", "loop"} /\ ret' \in {0, 1} /\ ix' \in Nat \ {0}
    BY <1>1, <1>3 DEF Inv, TypeOK
  <2>2. read' \in [Elements -> Ticks]
    BY <1>1 DEF Nothing, Ticks
  <2> QED
    BY <1>1, <1>10, <2>1, <2>2 DEF Inv, TypeOK
<1>12. Past'
  <2>1. \A e \in Elements : read'[e] <= now
    BY <1>1, <1>5 DEF Nothing, Gone, Inv, TypeOK
  <2>2. \A p \in Outputs : /\ out'[p].time <= now
                           /\ \A e \in Elements : out'[p].made[e] <= out'[p].time
    <3>1. \A p \in Outputs \ {o} : /\ out'[p].time <= now
                                   /\ \A e \in Elements : out'[p].made[e] <= out'[p].time
      BY <1>9 DEF Inv, Past
    <3>2. /\ out'[o].time <= now
          /\ \A e \in Elements : out'[o].made[e] <= out'[o].time
      BY <1>3, <1>6, <1>10 DEF Inv, Past, TypeOK
    <3> QED
      BY <3>1, <3>2
  <2> QED
    BY <1>1, <2>1, <2>2 DEF Inv, Past
<1>13. Seen' \subseteq DOMAIN InputField
       /\ \A j \in Seen' : j \in Seen \/ (~rule.unify /\ j = ix)
  <2>1. Seen' \subseteq Seen \cup {ix} /\ (rule.unify => Seen' = Seen)
    BY <1>1, <1>2, <1>3, <1>4 DEF Seen
  <2> QED
    BY <1>1, <2>1 DEF Inv, Loop, Building
<1>14. Loop'
  <2>1. Succeeded' => rule.unify
    BY <1>1 DEF Succeeded
  <2>2. ~rule.unify => ix \in 1..Len(Looped)
    BY <1>1, <1>4 DEF Inv, Loop
  <2>3. pc' # "script" /\ (pc' = "loop" => ~rule.unify)
    BY <1>1
  <2> QED
    BY <1>1, <1>2, <1>3, <1>13, <2>1, <2>2, <2>3 DEF Inv, Loop
\* Elements with another output are left as they were, those the script was
\* given are up to date, and an archive keeps the rest.
<1>15. \A i \in (DOMAIN Looped) \cap (DOMAIN InputField) :
         Output(i) # o => /\ Good(i)' <=> Good(i)
                          /\ Older(i)' <=> Older(i)
                          /\ GoodForced(i)' <=> GoodForced(i)
  <2> SUFFICES ASSUME NEW i \in (DOMAIN Looped) \cap (DOMAIN InputField), Output(i) # o
               PROVE  /\ Good(i)' <=> Good(i)
                      /\ Older(i)' <=> Older(i)
                      /\ GoodForced(i)' <=> GoodForced(i)
    OBVIOUS
  <2>1. out'[Output(i)] = out[Output(i)]
    BY <1>3, <1>9, Lists DEF Inv, TypeOK
  <2> QED
    BY <1>1, <1>2, <2>1 DEF Good, Older, GoodForced, Beyond, Second
<1>16. \A i \in (DOMAIN Looped) \cap (DOMAIN InputField) :
         Success /\ Output(i) = o /\ InputField[i] \in inputs => Good(i)' /\ GoodForced(i)'
  <2>1. during \subseteq late
    BY <1>1 DEF Inv, Loop
  <2> HIDE DEF Success
  <2> QED
    BY <1>1, <1>2, <1>7, <2>1 DEF Good, GoodForced
<1>17. \A i \in (DOMAIN Looped) \cap (DOMAIN InputField) :
         /\ Output(i) = o /\ Good(i)
         /\ Failure \/ (rule.archive /\ InputField[i] \notin inputs)
         => Good(i)'
  <2> SUFFICES ASSUME NEW i \in (DOMAIN Looped) \cap (DOMAIN InputField),
                      Output(i) = o, Good(i),
                      Failure \/ (rule.archive /\ InputField[i] \notin inputs)
               PROVE  Good(i)'
    OBVIOUS
  <2>1. InputField[i] \in Elements
    BY <1>4
  <2>2. CASE Failure
    <3>1. out'[o] = out[o] \/ out'[o].broken
      BY <1>8, <2>2
    <3> HIDE DEF Failure
    <3> QED
      BY <1>1, <1>2, <3>1 DEF Good, Beyond, Second
  <2>3. CASE Success /\ rule.archive /\ InputField[i] \notin inputs
    <3>1. out'[o].made[InputField[i]] = out[o].made[InputField[i]]
          /\ out'[o].broken = out[o].broken
      BY <1>7, <2>1, <2>3
    <3> HIDE DEF Success
    <3> QED
      BY <1>1, <1>2, <3>1 DEF Good, Beyond, Second
  <2> QED
    BY <1>1, <2>2, <2>3
<1>18. Recognised'
  <2> SUFFICES ASSUME Keeps, NEW i \in (DOMAIN Looped) \cap (DOMAIN InputField),
                      OwnOutput(i)
               PROVE  Good(i)' \/ Older(i)'
    BY <1>2 DEF Recognised
  <2>1. Good(i) \/ Older(i)
    BY <1>3 DEF Inv, Recognised
  <2>2. CASE Output(i) # o
    BY <1>15, <2>1, <2>2
  <2>3. CASE Output(i) = o /\ Success
    <3>1. CASE InputField[i] \in inputs
      BY <1>16, <2>3, <3>1
    <3>2. CASE InputField[i] \notin inputs
      <4>1. rule.unify /\ rule.archive
        BY <1>1, <1>3, <2>3, <3>2 DEF Inv, Loop, Keeps
      <4>2. i \in Seen
        BY <1>3, <1>4, <4>1 DEF Seen
      <4>3. Building /\ ret = 0 /\ ~Succeeded
        BY <1>1, <4>1 DEF Inv, Loop, Building, Succeeded
      <4>4. Good(i)
        BY <3>2, <4>1, <4>2, <4>3 DEF Inv, Made
      <4> QED
        BY <1>17, <2>3, <3>2, <4>1, <4>4
    <3> QED
      BY <3>1, <3>2
  <2>4. CASE Output(i) = o /\ Failure
    <3>1. CASE Good(i)
      BY <1>17, <2>4, <3>1
    <3>2. CASE Older(i) /\ out'[o] = out[o]
      BY <1>1, <1>2, <2>4, <3>2 DEF Older, Second
    <3>3. CASE out'[o].broken
      BY <1>2, <2>4, <3>3 DEF Good
    <3> QED
      BY <1>8, <2>1, <2>4, <3>1, <3>2, <3>3
  <2> QED
    BY <1>1, <2>2, <2>3, <2>4
<1>19. Made'
  <2> SUFFICES ASSUME ret' = 0, NEW j \in Seen', OwnOutput(j)
               PROVE  (Keeps => Good(j)') /\ (Forced => GoodForced(j)')
    <3>1. Building' /\ rule.unify => Succeeded' \/ ret' # 0
      BY <1>1 DEF Succeeded, Building
    <3>2. Forced' = Forced
      BY <1>1 DEF Forced
    <3> QED
      BY <1>1, <1>2, <3>1, <3>2 DEF Made
  <2>1. /\ Success /\ Building /\ ret = 0 /\ ~Succeeded
        /\ j \in (DOMAIN Looped) \cap (DOMAIN InputField)
    BY <1>1, <1>2, <1>13 DEF Building, Succeeded, Seen
  <2>2. CASE Output(j) # o
    <3>1. ~rule.unify /\ j # ix
      BY <2>2 DEF Output, o
    <3>2. (Keeps => Good(j)) /\ (Forced => GoodForced(j))
      BY <1>13, <2>1, <3>1 DEF Inv, Made
    <3> QED
      BY <1>15, <2>1, <2>2, <3>2
  <2>3. CASE Output(j) = o /\ InputField[j] \in inputs
    BY <1>16, <2>1, <2>3
  <2>4. CASE Output(j) = o /\ InputField[j] \notin inputs
    <3>1. rule.unify
      BY <1>1, <1>3, <2>1, <2>4 DEF Inv, Loop
    <3>2. ~Forced /\ (Keeps => Good(j))
      BY <1>13, <2>1, <2>4, <3>1 DEF Inv, Made
    <3> QED
      BY <1>17, <2>1, <2>4, <3>1, <3>2 DEF Keeps
  <2> QED
    BY <2>2, <2>3, <2>4
<1>20. AllPassed' /\ Collected' /\ OneListIsSafe'
  BY <1>1, <1>2 DEF AllPassed, Collected, OneListIsSafe
<1> QED
  BY <1>11, <1>12, <1>14, <1>18, <1>19, <1>20 DEF Inv

LEMMA NextInv == Inv /\ [Next]_vars => Inv'
<1> SUFFICES ASSUME Inv, [Next]_vars PROVE Inv'
  OBVIOUS
<1>1. CASE Tick
  BY <1>1, TickInv
<1>2. CASE Clean
  BY <1>2, CleanInv
<1>3. CASE \E e \in Elements : Edit(e)
  BY <1>3, EditInv
<1>4. CASE Start
  BY <1>4, StartInv
<1>5. CASE Fails
  BY <1>5, FailsInv
<1>6. CASE ReadBehindEnd
  BY <1>6, ReadBehindEndInv
<1>7. CASE Skip
  BY <1>7, SkipInv
<1>8. CASE Collect
  BY <1>8, CollectInv
<1>9. CASE ExecSingular
  BY <1>9, ExecSingularInv
<1>10. CASE ExecUnify
  BY <1>10, ExecUnifyInv
<1>11. CASE LoopEnds
  BY <1>11, LoopEndsInv
<1>12. CASE ScriptEnds
  BY <1>12, ScriptEndsInv
<1>13. CASE UNCHANGED vars
  BY <1>13, StutterInv
<1> QED
  BY <1>1, <1>2, <1>3, <1>4, <1>5, <1>6, <1>7, <1>8, <1>9, <1>10, <1>11, <1>12, <1>13,
     Zenon DEF Next

-----------------------------------------------------------------------------
(* The theorems.                                                           *)

LEMMA InvAlways == Spec => []Inv
  BY InitInv, NextInv, PTL DEF Spec

\* The state of an incremental build keeps its types, also behind the end of a
\* list, and a script is never run without an input.
THEOREM TypeCorrect == Spec => []TypeOK
<1>1. Inv => TypeOK
  BY DEF Inv
<1> QED
  BY InvAlways, <1>1, PTL

\* For every rule, every list and any sequence of edits and builds, clean ones and
\* failed ones, comparing seconds is enough: what a successful build leaves out of
\* date was edited late or after 2038, or a failed script has left it (get_io_fields,
\* is_file_newer, run_singular, run_unify).
THEOREM UpToDateCorrect == Spec => []UpToDate
<1>1. Inv => UpToDate
  <2> SUFFICES ASSUME Inv, Succeeded, Keeps, NEW i \in DOMAIN Looped, OwnOutput(i)
               PROVE  Good(i)
    BY DEF UpToDate, Keeps, Good
  <2>1. Building /\ ret = 0
    BY DEF Building, Succeeded
  <2>2. i \in Seen
    BY <2>1, Lists DEF Inv, TypeOK, Loop, Seen
  <2> QED
    BY <2>1, <2>2 DEF Inv, Made
<1> QED
  BY InvAlways, <1>1, PTL

\* For every rule a successful full or forced build leaves out only what was edited
\* while it ran.
THEOREM ForcedCorrect == Spec => []ForcedIsUpToDate
<1>1. Inv => ForcedIsUpToDate
  <2> SUFFICES ASSUME Inv, Succeeded, Forced, NEW i \in DOMAIN Looped, OwnOutput(i)
               PROVE  GoodForced(i)
    BY DEF ForcedIsUpToDate, GoodForced
  <2>1. Building /\ ret = 0
    BY DEF Building, Succeeded
  <2>2. i \in Seen
    BY <2>1, Lists DEF Inv, TypeOK, Loop, Seen
  <2> QED
    BY <2>1, <2>2 DEF Inv, Made
<1> QED
  BY InvAlways, <1>1, PTL

\* In every rule with one list the input that belongs to an output is read in
\* bounds, and from a list (get_io_fields, run_singular, run_unify).
THEOREM OneListCorrect == Spec => []OneListIsSafe
<1>1. Inv => OneListIsSafe
  BY DEF Inv
<1> QED
  BY InvAlways, <1>1, PTL

LEMMA ScriptGets ==
    ASSUME Inv, [Next]_vars, pc = "loop", pc' = "script"
    PROVE  LET o == out[Output(ix)] IN
           /\ Forced \/ \A e \in inputs' :
                o.made[e] # inTime[e] \/ inTime[e] = Gone \/ Beyond(o.time)
           /\ rule.unify /\ o = NoFile => inputs' = Range(InputField)
<1>1. ExecSingular \/ ExecUnify
  BY DEF Next, Tick, Clean, Edit, AtRest, Start, Fails, ReadBehindEnd, Skip, Collect,
     LoopEnds, ScriptEnds, vars
<1>2. CASE ExecSingular
  <2>1. /\ AtElement /\ ~rule.unify /\ OutOfDate(ix) /\ inputs' = {InputField[ix]}
    BY <1>2 DEF ExecSingular, RunScript
  <2>2. Usable /\ ix \in (DOMAIN Looped) \cap (DOMAIN InputField)
    BY <2>1 DEF Inv, AtElement, Loop, Building
  <2>3. ~Forced => IsFileNewer(inTime[InputField[ix]], out[Output(ix)].time)
    BY <2>1 DEF OutOfDate, Forced
  <2> QED
    BY <2>1, <2>2, <2>3, ElementTypes, Newer
<1>3. CASE ExecUnify
  <2>1. rule.unify /\ ix > Len(Looped) /\ inputs' = inputs /\ Output(ix) = Whole
    BY <1>3 DEF ExecUnify, RunScript, Output
  <2>2. Looped = InputField /\ InputField \in Seq(Elements)
    BY <2>1, Lists DEF Inv, TypeOK, Loop, Building
  <2>3. Seen = DOMAIN InputField
    <3>1. ix \in Nat
      BY DEF Inv, TypeOK
    <3>2. DOMAIN InputField = 1..Len(Looped) /\ Len(Looped) \in Nat
      BY <2>2
    <3> QED
      BY <2>1, <2>2, <3>1, <3>2 DEF Seen
  <2>4. out[Whole] = NoFile => inputs = {InputField[j] : j \in DOMAIN InputField}
    BY <2>1, <2>3 DEF Inv, AllPassed
  <2>5. Forced \/ \A e \in inputs : \/ out[Whole].made[e] # inTime[e] \/ inTime[e] = Gone
                                    \/ Beyond(out[Whole].time)
    BY <2>1 DEF Inv, Collected
  <2> QED
    BY <2>1, <2>4, <2>5, Zenon DEF Range
<1> QED
  BY <1>1, <1>2, <1>3

\* For every rule an incremental build runs no script for an input that is in its
\* output already, and the first script for an output gets all there is.
THEOREM ScriptInputsCorrect == Spec => ScriptInputs
<1>1. Inv /\ [Next]_vars =>
        [ pc = "loop" /\ pc' = "script" =>
          LET o == out[Output(ix)] IN
          /\ Forced \/ \A e \in inputs' :
                 o.made[e] # inTime[e] \/ inTime[e] = Gone \/ Beyond(o.time)
          /\ rule.unify /\ o = NoFile => inputs' = Range(InputField) ]_vars
  BY ScriptGets
<1> QED
  BY InvAlways, <1>1, PTL DEF Spec, ScriptInputs
=============================================================================
