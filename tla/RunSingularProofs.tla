------------------------- MODULE RunSingularProofs -------------------------
(***************************************************************************)
(* Proofs about RunSingular for every list length, process table, set of   *)
(* exit codes and combination of faults.                                   *)
(***************************************************************************)
EXTENDS RunSingular, FiniteSetTheorems, TLAPS

-----------------------------------------------------------------------------
(* Types.                                                                  *)

\* Where run_singular has a current job, and which mode it is in there.
Control ==
    /\ pc \in {"wait", "poll", "spawn"} => ix \in Jobs
    /\ pc = "wait" => ~cfg.parallel
    /\ pc \in {"poll", "spawn"} => cfg.parallel

TypeInv == TypeOK /\ Control

LEMMA ConfigType ==
    ASSUME NEW c \in Configs
    PROVE  /\ c.parallel \in BOOLEAN
           /\ c.ignoreFailures \in BOOLEAN
           /\ c.maxProcs \in 0..255
  BY ConfigsAssumption

\* An exit code fits into the result.
LEMMA CodeType ==
    ASSUME NEW s \in ExitCodes \cup {Killed, 0}
    PROVE  WEXITSTATUS(s) \in 0..255
  BY ExitCodesAssumption DEF WEXITSTATUS, Killed

LEMMA TypeInit == Init => TypeInv
  BY NumJobsAssumption
  DEF Init, TypeInv, TypeOK, Control, Points, Ended, Process, EmptySlot, None, Jobs

LEMMA NextJobType ==
    ASSUME TypeInv, ix \in Jobs, NEW r, NextJob(r), UNCHANGED cfg
    PROVE  /\ pc' \in {"iterate", "cleanup"}
           /\ ix' \in 1..(NumJobs + 1)
           /\ pix' \in Nat
           /\ dynInput' \in {"null", "live", "freed"}
  BY NumJobsAssumption DEF TypeInv, TypeOK, NextJob, LeaveLoop, Jobs

LEMMA MbExecParallelType ==
    ASSUME TypeInv, ix \in Jobs, NEW process, MbExecParallel(process)
    PROVE  /\ process \in Process
           /\ job' \in [Jobs -> {"pending", "uptodate", "unlaunched",
                                 "running", "exited", "reaped"}]
           /\ scripts' \subseteq Jobs
<1>1. process \in Process
  BY DEF MbExecParallel, Process, EmptySlot, None, Any
<1>2. PICK w \in {"running", "unlaunched"} : job' = [job EXCEPT ![ix] = w]
  BY DEF MbExecParallel
<1>3. scripts' \in {scripts, scripts \cup {ix}}
  BY DEF MbExecParallel
<1> QED
  BY <1>1, <1>2, <1>3 DEF TypeInv, TypeOK

LEMMA TypeStep == TypeInv /\ [Next]_vars => TypeInv'
<1> SUFFICES ASSUME TypeInv, [Next]_vars PROVE TypeInv'
  OBVIOUS
<1> USE NumJobsAssumption DEF TypeInv, TypeOK, Control, Points, Ended, Slots
<1>1. CASE Setup
  BY <1>1 DEF Setup, poolVars, childVars
<1>2. CASE SetupFails
  BY <1>2 DEF SetupFails, poolVars, childVars
<1>3. CASE FormatFails
  BY <1>3 DEF FormatFails, poolVars, childVars
<1>4. CASE Skip
  BY <1>4, NextJobType DEF Skip, AtJob
<1>5. CASE LoopDone
  BY <1>5 DEF LoopDone, LeaveLoop, childVars
<1>6. CASE SerialExec
  BY <1>6 DEF SerialExec, AtJob, poolVars
<1>7. CASE SerialWait
  <2>1. WEXITSTATUS(status[ix]) \in 0..255
    BY <1>7, CodeType DEF SerialWait
  <2>2. ret' \in 0..255
    BY <1>7, <2>1 DEF SerialWait
  <2> QED
    BY <1>7, <2>2, NextJobType DEF SerialWait
<1>8. CASE SerialExecFails
  BY <1>8, NextJobType DEF SerialExecFails, AtJob
<1>9. CASE FindFreeSlot
  BY <1>9, ConfigType DEF FindFreeSlot, AtJob, FreeSlots, childVars
<1>10. CASE NoFreeSlot
  BY <1>10 DEF NoFreeSlot, AtJob, childVars
<1>11. CASE PollBusy
  BY <1>11 DEF PollBusy, childVars
<1>12. CASE PollSuccess
  BY <1>12, ConfigType DEF PollSuccess
<1>13. CASE PollFailure
  <2>1. PICK j \in Waitable(processes[pix].pid) :
           /\ job' = [job EXCEPT ![j] = "reaped"]
           /\ \/ /\ ~cfg.ignoreFailures
                 /\ ret' = WEXITSTATUS(status[j])
                 /\ NextJob(ret')
              \/ /\ cfg.ignoreFailures
                 /\ pc' = "spawn"
                 /\ UNCHANGED <<ix, pix, ret, dynInput>>
    BY <1>13 DEF PollFailure
  <2>2. j \in Jobs
    BY DEF Waitable, Awaited, Live
  <2>3. WEXITSTATUS(status[j]) \in 0..255
    BY <2>2, CodeType
  <2> QED
    BY <1>13, <2>1, <2>2, <2>3, NextJobType, ZenonT(30) DEF PollFailure
<1>14. CASE Spawn
  <2>1. PICK process \in Process :
           /\ MbExecParallel(process)
           /\ processes' = [processes EXCEPT ![processIx] = process]
    BY <1>14 DEF Spawn
  <2> QED
    BY <1>14, <2>1, NextJobType, MbExecParallelType DEF Spawn
<1>15. CASE SpawnOutOfBounds
  <2>1. PICK process \in Process : MbExecParallel(process)
    BY <1>15 DEF SpawnOutOfBounds
  <2>2. CASE NextJob(ret)
    BY <1>15, <2>1, <2>2, NextJobType, MbExecParallelType DEF SpawnOutOfBounds
  <2>3. CASE pc' = "aborted" /\ UNCHANGED <<ix, pix, dynInput>>
    BY <1>15, <2>1, <2>3, MbExecParallelType DEF SpawnOutOfBounds
  <2> QED
    BY <1>15, <2>2, <2>3 DEF SpawnOutOfBounds
<1>16. CASE ScriptErrorAborts
  BY <1>16 DEF ScriptErrorAborts, poolVars, childVars
<1>17. CASE CleanupSkip
  BY <1>17 DEF CleanupSkip, InCleanup, childVars
<1>18. CASE CleanupReap
  <2>1. PICK j \in Waitable(processes[pix].pid) :
           /\ job' = [job EXCEPT ![j] = "reaped"]
           /\ ret' = IF WEXITSTATUS(status[j]) # 0 THEN WEXITSTATUS(status[j]) ELSE ret
    BY <1>18 DEF CleanupReap
  <2>2. j \in Jobs
    BY DEF Waitable, Awaited, Live
  <2>3. WEXITSTATUS(status[j]) \in 0..255
    BY <2>2, CodeType
  <2>4. ret' \in 0..255
    BY <2>1, <2>3
  <2>5. scripts' \subseteq Jobs /\ pix' \in Nat
    BY <1>18 DEF CleanupReap
  <2>6. UNCHANGED <<cfg, pc, ix, processes, usedProcesses, processIx, status, dynInput>>
    BY <1>18 DEF CleanupReap
  <2> QED
    BY <2>1, <2>2, <2>4, <2>5, <2>6
<1>19. CASE Return
  BY <1>19 DEF Return, poolVars, childVars
<1>20. ASSUME NEW j \in Jobs, ChildExit(j) PROVE TypeInv'
  BY <1>20 DEF ChildExit, poolVars
<1>21. CASE UNCHANGED vars
  BY <1>21 DEF vars, poolVars, childVars
<1> QED
  BY <1>1, <1>2, <1>3, <1>4, <1>5, <1>6, <1>7, <1>8, <1>9, <1>10, <1>11, <1>12,
     <1>13, <1>14, <1>15, <1>16, <1>17, <1>18, <1>19, <1>20, <1>21
  DEF Next, Mb, Terminated

\* Every variable keeps its type: in particular the result stays an exit code,
\* and the process table is never replaced.
THEOREM TypeCorrect == Spec => []TypeOK
<1>1. Init => TypeInv
  BY TypeInit
<1>2. TypeInv /\ [Next]_vars => TypeInv'
  BY TypeStep
<1>3. TypeInv => TypeOK
  BY DEF TypeInv
<1> QED
  BY <1>1, <1>2, <1>3, PTL DEF Spec

-----------------------------------------------------------------------------
(* How the set of live children changes.                                   *)

LEMMA CardAdd ==
    ASSUME NEW S, NEW x, IsFiniteSet(S)
    PROVE  /\ IsFiniteSet(S \cup {x})
           /\ Cardinality(S) \in Nat /\ Cardinality(S \cup {x}) \in Nat
           /\ x \notin S => Cardinality(S \cup {x}) = Cardinality(S) + 1
           /\ Cardinality(S) <= Cardinality(S \cup {x})
           /\ Cardinality(S \cup {x}) <= Cardinality(S) + 1
<1>1. IsFiniteSet(S \cup {x})
  BY FS_AddElement
<1>2. Cardinality(S \cup {x}) = IF x \in S THEN Cardinality(S) ELSE Cardinality(S) + 1
  BY FS_AddElement
<1>3. Cardinality(S) \in Nat /\ Cardinality(S \cup {x}) \in Nat
  BY <1>1, FS_CardinalityType
<1> QED
  BY <1>1, <1>2, <1>3

LEMMA CardRemove ==
    ASSUME NEW S, NEW x, IsFiniteSet(S)
    PROVE  /\ IsFiniteSet(S \ {x})
           /\ Cardinality(S) \in Nat /\ Cardinality(S \ {x}) \in Nat
           /\ x \in S => Cardinality(S \ {x}) = Cardinality(S) - 1
           /\ Cardinality(S \ {x}) <= Cardinality(S)
           /\ Cardinality(S \ {x}) >= Cardinality(S) - 1
<1>1. IsFiniteSet(S \ {x})
  BY FS_RemoveElement
<1>2. Cardinality(S \ {x}) = IF x \in S THEN Cardinality(S) - 1 ELSE Cardinality(S)
  BY FS_RemoveElement
<1>3. Cardinality(S) \in Nat /\ Cardinality(S \ {x}) \in Nat
  BY <1>1, FS_CardinalityType
<1> QED
  BY <1>1, <1>2, <1>3

LEMMA LiveFinite ==
    ASSUME TypeInv
    PROVE  IsFiniteSet(Live) /\ Cardinality(Live) \in Nat
<1>1. IsFiniteSet(Jobs)
  BY FS_Interval, NumJobsAssumption DEF Jobs
<1>2. IsFiniteSet(Live)
  BY <1>1, FS_Subset DEF Live
<1> QED
  BY <1>2, FS_CardinalityType

LEMMA LiveAfterStart ==
    ASSUME TypeInv, ix \in Jobs, job' = [job EXCEPT ![ix] = "running"]
    PROVE  /\ Live' = Live \cup {ix}
           /\ Cardinality(Live') \in Nat
           /\ Cardinality(Live') <= Cardinality(Live) + 1
<1>1. Live' = Live \cup {ix}
  BY DEF TypeInv, TypeOK, Live
<1> QED
  BY <1>1, LiveFinite, CardAdd

LEMMA LiveAfterReap ==
    ASSUME TypeInv, NEW j \in Live, job' = [job EXCEPT ![j] = "reaped"]
    PROVE  /\ Live' = Live \ {j}
           /\ Cardinality(Live') \in Nat
           /\ Cardinality(Live') = Cardinality(Live) - 1
<1>1. Live' = Live \ {j}
  BY DEF TypeInv, TypeOK, Live
<1> QED
  BY <1>1, LiveFinite, CardRemove

LEMMA LiveAfterNoStart ==
    ASSUME TypeInv, ix \in Jobs, NEW w \in {"uptodate", "unlaunched"},
           job' = [job EXCEPT ![ix] = w]
    PROVE  /\ Live' = Live \ {ix}
           /\ Cardinality(Live') \in Nat
           /\ Cardinality(Live') <= Cardinality(Live)
<1>1. Live' = Live \ {ix}
  BY DEF TypeInv, TypeOK, Live
<1> QED
  BY <1>1, LiveFinite, CardRemove

LEMMA LiveAfterExit ==
    ASSUME TypeInv, NEW j \in Jobs, ChildExit(j)
    PROVE  Live' = Live
  BY DEF TypeInv, TypeOK, ChildExit, Live

LEMMA LiveUnchanged == UNCHANGED job => Live' = Live
  BY DEF Live

-----------------------------------------------------------------------------
(* Never more children than allowed.                                       *)

Held == {p \in Slots : processes[p].pid # None}

\* Every child has a slot to account for it, and the child about to be started
\* too: its slot is empty, or that of a child that was just collected.
BoundInv ==
    /\ cfg.parallel =>
         /\ Cardinality(Live) <= Cardinality(Held)
         /\ pc = "spawn" => \/ processIx \in Slots /\ processes[processIx].pid = None
                            \/ Cardinality(Live) < Cardinality(Held)
    /\ ~cfg.parallel => Live \subseteq IF pc = "wait" THEN {ix} ELSE {}

LEMMA SlotCount ==
    ASSUME NEW n \in Nat
    PROVE  IsFiniteSet(0..(n - 1)) /\ Cardinality(0..(n - 1)) = n
<1>1. 0 \in Int /\ n - 1 \in Int
  OBVIOUS
<1>2. IsFiniteSet(0..(n - 1))
  BY <1>1, FS_Interval
<1>3. Cardinality(0..(n - 1)) = IF 0 > n - 1 THEN 0 ELSE (n - 1) - 0 + 1
  BY <1>1, FS_Interval, Zenon
<1> QED
  BY <1>2, <1>3

LEMMA HeldFinite ==
    ASSUME TypeInv
    PROVE  /\ IsFiniteSet(Held)
           /\ Cardinality(Held) \in Nat
           /\ Cardinality(Held) <= cfg.maxProcs
<1>1. cfg.maxProcs \in Nat
  BY ConfigType DEF TypeInv, TypeOK
<1>2. IsFiniteSet(0..(cfg.maxProcs - 1)) /\ Cardinality(0..(cfg.maxProcs - 1)) = cfg.maxProcs
  BY <1>1, SlotCount
<1>3. Held \subseteq 0..(cfg.maxProcs - 1)
  BY DEF Held, Slots
<1>4. IsFiniteSet(Held) /\ Cardinality(Held) <= cfg.maxProcs
  BY <1>2, <1>3, FS_Subset
<1> QED
  BY <1>4, FS_CardinalityType

LEMMA HeldUnchanged == UNCHANGED <<cfg, processes>> => Held' = Held
  BY DEF Held, Slots

LEMMA BoundInit == Init => BoundInv
<1> SUFFICES ASSUME Init PROVE BoundInv
  OBVIOUS
<1>1. Live = {}
  BY DEF Init, Live
<1>2. Cardinality(Live) = 0
  BY <1>1, FS_EmptySet
<1>3. Cardinality(Held) \in Nat
  BY TypeInit, HeldFinite
<1>4. pc = "setup"
  BY DEF Init
<1> QED
  BY <1>1, <1>2, <1>3, <1>4 DEF BoundInv

\* mb_exec_parallel either starts a child and fills the slot, or fills it
\* without a child, or returns an empty slot and no child.
LEMMA MbExecParallelLive ==
    ASSUME TypeInv, ix \in Jobs, NEW process, MbExecParallel(process)
    PROVE  /\ Cardinality(Live') \in Nat
           /\ Cardinality(Live') <= Cardinality(Live) + 1
           /\ process.pid = None => Cardinality(Live') <= Cardinality(Live)
<1>1. CASE job' = [job EXCEPT ![ix] = "running"] /\ process.pid = ix
  BY <1>1, LiveAfterStart, NumJobsAssumption DEF None, Jobs
<1>2. CASE job' = [job EXCEPT ![ix] = "unlaunched"]
  <2>1. Cardinality(Live') \in Nat /\ Cardinality(Live') <= Cardinality(Live)
    BY <1>2, LiveAfterNoStart
  <2> QED
    BY <2>1, LiveFinite
<1> QED
  BY <1>1, <1>2 DEF MbExecParallel

LEMMA BoundSpawn ==
    ASSUME TypeInv, BoundInv, Spawn
    PROVE  BoundInv'
<1>1. PICK process \in Process :
         /\ MbExecParallel(process)
         /\ processes' = [processes EXCEPT ![processIx] = process]
  BY DEF Spawn
<1>2. /\ ix \in Jobs /\ cfg.parallel /\ cfg' = cfg
      /\ processIx \in Slots /\ pc' \in {"iterate", "cleanup"}
  BY NextJobType DEF TypeInv, Control, Spawn
<1>3. Cardinality(Live) \in Nat /\ IsFiniteSet(Held) /\ Cardinality(Held) \in Nat
  BY LiveFinite, HeldFinite
<1>4. \/ processes[processIx].pid = None /\ Cardinality(Live) <= Cardinality(Held)
      \/ Cardinality(Live) < Cardinality(Held)
  BY <1>2 DEF BoundInv, Spawn
<1>5. Cardinality(Live') <= Cardinality(Held') /\ Cardinality(Live') \in Nat
  <2>1. CASE process.pid # None
    <3>1. Held' = Held \cup {processIx}
      BY <1>1, <1>2, <2>1 DEF Held, Slots, TypeInv, TypeOK
    <3>2. processes[processIx].pid = None => processIx \notin Held
      BY DEF Held
    <3>3. /\ Cardinality(Live') \in Nat
          /\ Cardinality(Live') <= Cardinality(Live) + 1
      BY <1>1, <1>2, MbExecParallelLive
    <3>4. /\ Cardinality(Held') \in Nat
          /\ Cardinality(Held) <= Cardinality(Held')
          /\ processIx \notin Held => Cardinality(Held') = Cardinality(Held) + 1
      BY <1>3, <3>1, CardAdd
    <3> QED
      BY <1>3, <1>4, <3>2, <3>3, <3>4
  <2>2. CASE process.pid = None
    <3>1. Held' = Held \ {processIx}
      BY <1>1, <1>2, <2>2 DEF Held, Slots, TypeInv, TypeOK
    <3>2. processes[processIx].pid = None => Held' = Held
      BY <3>1 DEF Held
    <3>3. /\ Cardinality(Live') \in Nat
          /\ Cardinality(Live') <= Cardinality(Live)
      BY <1>1, <1>2, <2>2, MbExecParallelLive
    <3>4. /\ Cardinality(Held') \in Nat
          /\ Cardinality(Held') >= Cardinality(Held) - 1
      BY <1>3, <3>1, CardRemove
    <3> QED
      BY <1>3, <1>4, <3>2, <3>3, <3>4
  <2> QED
    BY <2>1, <2>2
<1> QED
  BY <1>2, <1>5 DEF BoundInv

\* Actions that collect a child and then choose a slot or leave the loop.
LEMMA BoundReap ==
    ASSUME TypeInv, BoundInv, cfg.parallel, UNCHANGED <<cfg, processes>>,
           NEW j \in Live, job' = [job EXCEPT ![j] = "reaped"]
    PROVE  BoundInv'
<1>1. Cardinality(Live') = Cardinality(Live) - 1 /\ Cardinality(Live') \in Nat
  BY LiveAfterReap
<1>2. Held' = Held /\ Cardinality(Held) \in Nat
  BY HeldUnchanged, HeldFinite
<1> QED
  BY <1>1, <1>2, LiveFinite DEF BoundInv

\* Actions that change neither the jobs nor the table, nor lead to a spawn.
LEMMA BoundQuiet ==
    ASSUME TypeInv, BoundInv, UNCHANGED <<cfg, processes>>, Live' = Live,
           pc' # "spawn" \/ UNCHANGED <<pc, processIx>>,
           pc # "wait" \/ UNCHANGED <<pc, ix>>
    PROVE  BoundInv'
<1>1. Held' = Held
  BY HeldUnchanged
<1>2. Slots' = Slots
  BY DEF Slots
<1> QED
  BY <1>1, <1>2 DEF BoundInv

LEMMA BoundStep == TypeInv /\ BoundInv /\ [Next]_vars => BoundInv'
<1> SUFFICES ASSUME TypeInv, BoundInv, [Next]_vars PROVE BoundInv'
  OBVIOUS
<1>1. CASE Setup \/ SetupFails \/ FormatFails \/ LoopDone \/ NoFreeSlot \/ PollBusy
           \/ ScriptErrorAborts \/ CleanupSkip \/ Return
  <2>1. UNCHANGED <<cfg, processes, job>> /\ pc # "wait" /\ pc' # "spawn"
    BY <1>1 DEF Setup, SetupFails, FormatFails, LoopDone, LeaveLoop, NoFreeSlot, PollBusy,
         ScriptErrorAborts, CleanupSkip, InCleanup, Return, AtJob, poolVars, childVars
  <2> QED
    BY <2>1, LiveUnchanged, BoundQuiet
<1>2. ASSUME Skip \/ SerialExecFails PROVE BoundInv'
  <2>1. PICK w \in {"uptodate", "unlaunched"} : job' = [job EXCEPT ![ix] = w]
    BY <1>2 DEF Skip, SerialExecFails
  <2>2. /\ UNCHANGED <<cfg, processes>> /\ ix \in Jobs
        /\ pc = "iterate" /\ pc' \in {"iterate", "cleanup"}
    BY <1>2, NextJobType DEF Skip, SerialExecFails, AtJob
  <2>3. /\ Live' = Live \ {ix}
        /\ Cardinality(Live') \in Nat /\ Cardinality(Live') <= Cardinality(Live)
    BY <2>1, <2>2, LiveAfterNoStart
  <2>4. Held' = Held /\ Cardinality(Held) \in Nat /\ Cardinality(Live) \in Nat
    BY <2>2, HeldUnchanged, HeldFinite, LiveFinite
  <2> QED
    BY <2>2, <2>3, <2>4 DEF BoundInv
<1>3. CASE SerialExec
  <2>1. Live' = Live \cup {ix}
    BY <1>3, LiveAfterStart DEF SerialExec, AtJob
  <2> QED
    BY <1>3, <2>1 DEF SerialExec, AtJob, BoundInv
<1>4. CASE SerialWait
  <2>1. ix \in Live
    BY <1>4 DEF SerialWait, TypeInv, Control, Live
  <2>2. Live' = Live \ {ix}
    BY <1>4, <2>1, LiveAfterReap DEF SerialWait
  <2> QED
    BY <1>4, <2>2 DEF SerialWait, BoundInv, TypeInv, Control
<1>5. CASE FindFreeSlot
  <2>1. /\ UNCHANGED <<cfg, processes, job>> /\ cfg.parallel /\ pc' = "spawn"
        /\ processIx' \in Slots /\ processes[processIx'].pid = None
    BY <1>5 DEF FindFreeSlot, FreeSlots, childVars
  <2>2. Slots' = Slots
    BY <2>1 DEF Slots
  <2> QED
    BY <2>1, <2>2, LiveUnchanged, HeldUnchanged DEF BoundInv
<1>6. CASE PollSuccess \/ PollFailure
  <2>1. PICK j \in Live : job' = [job EXCEPT ![j] = "reaped"]
    BY <1>6 DEF PollSuccess, PollFailure, Waitable, Awaited
  <2>2. cfg.parallel /\ UNCHANGED <<cfg, processes>>
    BY <1>6 DEF PollSuccess, PollFailure, TypeInv, Control
  <2> QED
    BY <2>1, <2>2, BoundReap
<1>7. CASE Spawn
  BY <1>7, BoundSpawn
<1>8. CASE SpawnOutOfBounds
  <2>1. /\ UNCHANGED <<cfg, processes>> /\ cfg.parallel /\ ix \in Jobs
        /\ Cardinality(Live) < Cardinality(Held)
    BY <1>8 DEF SpawnOutOfBounds, TypeInv, Control, BoundInv
  <2>2. pc' # "spawn"
    BY <1>8, <2>1, NextJobType DEF SpawnOutOfBounds
  <2>3. Cardinality(Live') \in Nat /\ Cardinality(Live') <= Cardinality(Live) + 1
    BY <1>8, <2>1, MbExecParallelLive DEF SpawnOutOfBounds
  <2>4. Held' = Held /\ Cardinality(Held) \in Nat /\ Cardinality(Live) \in Nat
    BY <2>1, HeldUnchanged, HeldFinite, LiveFinite
  <2> QED
    BY <2>1, <2>2, <2>3, <2>4 DEF BoundInv
<1>9. CASE CleanupReap
  <2>1. PICK j \in Live : job' = [job EXCEPT ![j] = "reaped"]
    BY <1>9 DEF CleanupReap, Waitable, Awaited
  <2>2. cfg.parallel /\ UNCHANGED <<cfg, processes>>
    BY <1>9 DEF CleanupReap, InCleanup, Slots
  <2> QED
    BY <2>1, <2>2, BoundReap
<1>10. ASSUME NEW j \in Jobs, ChildExit(j) PROVE BoundInv'
  BY <1>10, LiveAfterExit, BoundQuiet DEF ChildExit, poolVars
<1>11. CASE UNCHANGED vars
  BY <1>11, LiveUnchanged, BoundQuiet DEF vars, poolVars, childVars
<1> QED
  BY <1>1, <1>2, <1>3, <1>4, <1>5, <1>6, <1>7, <1>8, <1>9, <1>10, <1>11
  DEF Next, Mb, Terminated

\* There are never more children than max_procs, or than one in a serial rule,
\* whatever fails and with or without -k: _find_process_slot gives a slot away
\* only after it collected a child.
THEOREM ChildrenBounded == Spec => []BoundedChildren
<1>1. Init => TypeInv /\ BoundInv
  BY TypeInit, BoundInit
<1>2. TypeInv /\ BoundInv /\ [Next]_vars => (TypeInv /\ BoundInv)'
  BY TypeStep, BoundStep
<1>3. TypeInv /\ BoundInv => BoundedChildren
  <2> SUFFICES ASSUME TypeInv, BoundInv PROVE BoundedChildren
    OBVIOUS
  <2>1. CASE cfg.parallel
    <3>1. cfg.maxProcs \in Nat
      BY ConfigType DEF TypeInv, TypeOK
    <3> QED
      BY <2>1, <3>1, LiveFinite, HeldFinite DEF BoundInv, BoundedChildren
  <2>2. CASE ~cfg.parallel
    <3>1. Cardinality({ix}) = 1 /\ IsFiniteSet({ix})
      BY FS_Singleton
    <3>2. Live \subseteq {ix}
      BY <2>2 DEF BoundInv
    <3>3. Cardinality(Live) <= 1
      BY <3>1, <3>2, FS_Subset
    <3> QED
      BY <2>2, <3>3 DEF BoundedChildren
  <2> QED
    BY <2>1, <2>2
<1> QED
  BY <1>1, <1>2, <1>3, PTL DEF Spec

-----------------------------------------------------------------------------
(* Without -k no child is forgotten.                                       *)

\* The table knows every child, the slot chosen for the next child holds none,
\* and the cleanup loop leaves none behind it.
Tracked ==
    /\ cfg.parallel => \A j \in Live : \E p \in Slots : processes[p].pid = j
    /\ pc = "spawn" => processIx \in Slots /\ processes[processIx].pid \notin Live
    /\ pc = "cleanup" => \A p \in Slots : p < pix => processes[p].pid \notin Live
    /\ pc = "returned" => Live = {}

SlotInv ==
    /\ \A p \in Slots : processes[p].location = None => processes[p].pid = None
    /\ usedProcesses = 0 => \A p \in Slots : processes[p].pid = None
    /\ pc = "spawn" => usedProcesses # 0
    /\ pc = "setup" => Live = {}
    /\ ~cfg.ignoreFailures => Tracked

Inv == TypeInv /\ BoundInv /\ SlotInv

LEMMA SlotInit == Init => SlotInv
  BY DEF Init, SlotInv, Tracked, Live, EmptySlot

\* Only jobs are alive, and neither of the special pids is one.
LEMMA LiveJobs == Live \subseteq Jobs /\ None \notin Live /\ Any \notin Live
  BY NumJobsAssumption DEF Live, Jobs, None, Any

\* waitpid collects the child of the slot, unless its pid is the wildcard.
LEMMA WaitableChild ==
    ASSUME NEW pid, NEW j \in Waitable(pid)
    PROVE  j \in Live /\ pid \notin Live \ {j} /\ pid # None
  BY LiveJobs, NumJobsAssumption DEF Waitable, Awaited, Any, None, Live, Jobs

\* Actions that change neither the children nor the table.
LEMMA SlotQuiet ==
    ASSUME TypeInv, SlotInv, UNCHANGED <<cfg, processes, usedProcesses>>, Live' = Live,
           pc' \notin {"setup", "spawn", "returned"} \/ UNCHANGED <<pc, processIx>>,
           pc' # "cleanup" \/ pix' = 0 \/ UNCHANGED <<pc, pix>>
    PROVE  SlotInv'
<1>1. Slots' = Slots /\ \A p \in Slots : ~(p < 0)
  BY ConfigType DEF Slots, TypeInv, TypeOK
<1> QED
  BY <1>1 DEF SlotInv, Tracked

LEMMA SlotSpawn ==
    ASSUME Inv, Spawn
    PROVE  SlotInv'
<1> USE DEF Inv
<1>1. PICK process \in Process :
         /\ MbExecParallel(process)
         /\ processes' = [processes EXCEPT ![processIx] = process]
  BY DEF Spawn
<1>2. /\ ix \in Jobs /\ UNCHANGED <<cfg, usedProcesses>>
      /\ processIx \in Slots /\ usedProcesses # 0 /\ Slots' = Slots
  BY DEF TypeInv, Control, Spawn, SlotInv, Slots
<1>3. pc' \in {"iterate", "cleanup"} /\ (pc' = "cleanup" => pix' = 0)
  BY <1>2 DEF Spawn, NextJob, LeaveLoop
<1>4. process.location = None => process.pid = None
  BY <1>1, <1>2, NumJobsAssumption DEF MbExecParallel, EmptySlot, None, Jobs
<1>5. \A p \in Slots : processes'[p] = IF p = processIx THEN process ELSE processes[p]
  BY <1>1 DEF TypeInv, TypeOK
<1>6. \/ process.pid = ix /\ Live' = Live \cup {ix}
      \/ Live' = Live \ {ix}
  BY <1>1, <1>2, LiveAfterStart, LiveAfterNoStart DEF MbExecParallel
<1>7. ASSUME ~cfg.ignoreFailures, NEW j \in Live'
      PROVE  \E p \in Slots : processes'[p].pid = j
  <2>1. CASE process.pid = ix /\ j = ix
    BY <1>2, <1>5, <2>1
  <2>2. CASE j \in Live
    <3>1. PICK p \in Slots : processes[p].pid = j
      BY <1>7, <2>2 DEF SlotInv, Tracked, TypeInv, Control, Spawn
    <3>2. p # processIx
      BY <1>7, <2>2, <3>1 DEF SlotInv, Tracked, Spawn
    <3> QED
      BY <1>5, <3>1, <3>2
  <2> QED
    BY <1>6, <2>1, <2>2
<1>8. \A p \in Slots : ~(p < 0)
  BY ConfigType DEF Slots, TypeInv, TypeOK
<1>9. ~cfg.ignoreFailures => Tracked'
  BY <1>2, <1>3, <1>7, <1>8 DEF Tracked
<1>10. \A p \in Slots : processes'[p].location = None => processes'[p].pid = None
  BY <1>4, <1>5 DEF SlotInv
<1> QED
  BY <1>2, <1>3, <1>9, <1>10 DEF SlotInv

LEMMA SlotPoll ==
    ASSUME Inv, PollSuccess \/ PollFailure
    PROVE  SlotInv'
<1> USE DEF Inv
<1>1. PICK j \in Waitable(processes[pix].pid) : job' = [job EXCEPT ![j] = "reaped"]
  BY DEF PollSuccess, PollFailure
<1>2. /\ j \in Live /\ processes[pix].pid # None
      /\ Live' = Live \ {j} /\ processes[pix].pid \notin Live'
  BY <1>1, WaitableChild, LiveAfterReap
<1>3. /\ UNCHANGED <<cfg, processes, usedProcesses>> /\ Slots' = Slots
      /\ pix \in Slots /\ usedProcesses # 0 /\ ix \in Jobs
  BY <1>2 DEF PollSuccess, PollFailure, Slots, SlotInv, TypeInv, Control
<1>4. ~cfg.ignoreFailures => Tracked'
  <2>1. CASE PollSuccess
    BY <1>2, <1>3, <2>1 DEF PollSuccess, Tracked, SlotInv
  <2>2. CASE PollFailure /\ ~cfg.ignoreFailures
    <3>1. pc' \in {"iterate", "cleanup"} /\ (pc' = "cleanup" => pix' = 0)
      BY <2>2 DEF PollFailure, NextJob, LeaveLoop
    <3>2. \A p \in Slots : ~(p < 0)
      BY ConfigType DEF Slots, TypeInv, TypeOK
    <3> QED
      BY <1>2, <1>3, <2>2, <3>1, <3>2 DEF Tracked, SlotInv
  <2> QED
    BY <2>1, <2>2
<1>5. pc' # "setup"
  BY DEF PollSuccess, PollFailure, NextJob, LeaveLoop
<1> QED
  BY <1>3, <1>4, <1>5 DEF SlotInv

LEMMA SlotCleanup ==
    ASSUME Inv, CleanupSkip \/ CleanupReap
    PROVE  SlotInv'
<1> USE DEF Inv
<1>1. /\ UNCHANGED <<cfg, pc, processes, usedProcesses>> /\ Slots' = Slots
      /\ pc = "cleanup" /\ pix \in Slots /\ pix' = pix + 1
  BY DEF CleanupSkip, CleanupReap, InCleanup, Slots
<1>2. Live' \subseteq Live /\ processes[pix].pid \notin Live'
  <2>1. CASE CleanupSkip
    <3>1. Live' = Live
      BY <2>1, LiveUnchanged DEF CleanupSkip, childVars
    <3>2. processes[pix].pid = None \/ Awaited(processes[pix].pid) = {}
      BY <1>1, <2>1 DEF CleanupSkip, SlotInv
    <3> QED
      BY <3>1, <3>2, LiveJobs DEF Awaited
  <2>2. CASE CleanupReap
    BY <2>2, WaitableChild, LiveAfterReap, ZenonT(30) DEF CleanupReap
  <2> QED
    BY <2>1, <2>2
<1>3. \A p \in Slots : p < pix + 1 => p < pix \/ p = pix
  BY <1>1, ConfigType DEF Slots, TypeInv, TypeOK
<1> QED
  BY <1>1, <1>2, <1>3 DEF SlotInv, Tracked

LEMMA SlotReturn ==
    ASSUME Inv, Return
    PROVE  SlotInv'
<1> USE DEF Inv
<1>1. /\ UNCHANGED <<cfg, processes, usedProcesses>> /\ Slots' = Slots /\ Live' = Live
      /\ pc = "cleanup" /\ pc' = "returned"
  BY LiveUnchanged DEF Return, poolVars, childVars, Slots
<1>2. ASSUME ~cfg.ignoreFailures PROVE Live = {}
  <2>1. CASE ~cfg.parallel
    BY <1>1, <2>1 DEF BoundInv
  <2>2. CASE cfg.parallel /\ usedProcesses = 0
    BY <1>2, <2>2, LiveJobs DEF SlotInv, Tracked
  <2>3. CASE cfg.parallel /\ pix \notin Slots
    <3>1. \A p \in Slots : p < pix
      <4>1. pix \in Nat /\ cfg.maxProcs \in Nat
        BY ConfigType DEF TypeInv, TypeOK
      <4>2. Slots = 0..(cfg.maxProcs - 1)
        BY <2>3 DEF Slots
      <4> QED
        BY <2>3, <4>1, <4>2
    <3> QED
      BY <1>1, <1>2, <2>3, <3>1 DEF SlotInv, Tracked
  <2> QED
    BY <2>1, <2>2, <2>3 DEF Return
<1> QED
  BY <1>1, <1>2 DEF SlotInv, Tracked

LEMMA SlotStep == Inv /\ [Next]_vars => SlotInv'
<1> SUFFICES ASSUME Inv, [Next]_vars PROVE SlotInv'
  OBVIOUS
<1> USE DEF Inv
<1>1. CASE Setup \/ FormatFails \/ LoopDone \/ NoFreeSlot \/ PollBusy \/ ScriptErrorAborts
  <2>1. /\ UNCHANGED <<cfg, processes, usedProcesses, job>>
        /\ pc' \notin {"setup", "spawn", "returned"}
        /\ pc' # "cleanup" \/ pix' = 0
    BY <1>1 DEF Setup, FormatFails, LoopDone, LeaveLoop, NoFreeSlot, PollBusy,
         ScriptErrorAborts, AtJob, poolVars, childVars
  <2> QED
    BY <2>1, LiveUnchanged, SlotQuiet
<1>2. CASE SetupFails
  <2>1. /\ UNCHANGED <<cfg, processes, usedProcesses, job>>
        /\ pc = "setup" /\ pc' = "returned"
    BY <1>2 DEF SetupFails, poolVars, childVars
  <2>2. Slots' = Slots /\ Live' = Live
    BY <2>1, LiveUnchanged DEF Slots
  <2> QED
    BY <2>1, <2>2 DEF SlotInv, Tracked
<1>3. CASE Skip \/ SerialExecFails \/ SerialExec \/ SerialWait
  <2>1. /\ UNCHANGED <<cfg, processes, usedProcesses>> /\ Slots' = Slots
        /\ ix \in Jobs
        /\ pc' \in {"iterate", "wait", "cleanup"}
        /\ pc' # "cleanup" \/ pix' = 0
    BY <1>3 DEF Skip, SerialExecFails, SerialExec, SerialWait, NextJob, LeaveLoop, AtJob,
         Slots, poolVars, TypeInv, Control
  <2>2. cfg.parallel => Live' \subseteq Live
    BY <1>3, <2>1, LiveAfterNoStart
    DEF Skip, SerialExecFails, SerialExec, SerialWait, TypeInv, Control
  <2>3. \A p \in Slots : ~(p < 0)
    BY ConfigType DEF Slots, TypeInv, TypeOK
  <2> QED
    BY <2>1, <2>2, <2>3 DEF SlotInv, Tracked
<1>4. CASE FindFreeSlot
  <2>1. /\ UNCHANGED <<cfg, processes, job>> /\ pc' = "spawn"
        /\ usedProcesses' = usedProcesses + 1
        /\ processIx' \in Slots /\ processes[processIx'].pid = None
    BY <1>4 DEF FindFreeSlot, FreeSlots, childVars
  <2>2. Slots' = Slots /\ Live' = Live /\ usedProcesses + 1 # 0
    BY <2>1, LiveUnchanged DEF Slots, TypeInv, TypeOK
  <2> QED
    BY <2>1, <2>2, LiveJobs DEF SlotInv, Tracked
<1>5. CASE PollSuccess \/ PollFailure
  BY <1>5, SlotPoll
<1>6. CASE Spawn
  BY <1>6, SlotSpawn
<1>7. CASE SpawnOutOfBounds
  <2>1. cfg.ignoreFailures
    BY <1>7 DEF SpawnOutOfBounds, SlotInv, Tracked
  <2>2. /\ UNCHANGED <<cfg, processes, usedProcesses>> /\ Slots' = Slots
        /\ pc' \in {"iterate", "cleanup", "aborted"}
    BY <1>7 DEF SpawnOutOfBounds, NextJob, LeaveLoop, Slots
  <2> QED
    BY <2>1, <2>2 DEF SlotInv
<1>8. CASE CleanupSkip \/ CleanupReap
  BY <1>8, SlotCleanup
<1>9. CASE Return
  BY <1>9, SlotReturn
<1>10. ASSUME NEW j \in Jobs, ChildExit(j) PROVE SlotInv'
  <2>1. UNCHANGED <<cfg, pc, poolVars>> /\ Live' = Live
    BY <1>10, LiveAfterExit DEF ChildExit
  <2> QED
    BY <2>1 DEF SlotInv, Tracked, Slots, poolVars
<1>11. CASE UNCHANGED vars
  <2>1. UNCHANGED <<cfg, pc, poolVars>> /\ Live' = Live
    BY <1>11, LiveUnchanged DEF vars, childVars
  <2> QED
    BY <2>1 DEF SlotInv, Tracked, Slots, poolVars
<1> QED
  BY <1>1, <1>2, <1>3, <1>4, <1>5, <1>6, <1>7, <1>8, <1>9, <1>10, <1>11
  DEF Next, Mb, Terminated

LEMMA Invariance == Spec => []Inv
<1>1. Init => Inv
  BY TypeInit, BoundInit, SlotInit DEF Inv
<1>2. Inv /\ [Next]_vars => Inv'
  BY TypeStep, BoundStep, SlotStep DEF Inv
<1> QED
  BY <1>1, <1>2, PTL DEF Spec

\* Without -k no child outlives the rule that started it: the process table
\* knows every child, and the cleanup loop leaves none behind.
THEOREM AllReaped == Spec => []ReapedAtReturn
<1>1. Inv => ReapedAtReturn
  BY DEF Inv, SlotInv, Tracked, ReapedAtReturn
<1> QED
  BY <1>1, Invariance, PTL

\* Without -k the process table is never written out of its bounds.
THEOREM TableInBounds == Spec => []SlotInBounds
<1>1. Inv => SlotInBounds
  BY DEF Inv, SlotInv, Tracked, SlotInBounds
<1> QED
  BY <1>1, Invariance, PTL
-----------------------------------------------------------------------------
(* What becomes of the jobs, their scripts and their exit codes.           *)

\* The list is worked through in order: what lies ahead of ix is untouched.
Progress ==
    /\ pc = "setup" => ix = 1
    /\ \A j \in Jobs : j < ix => job[j] # "pending"
    /\ \A j \in Jobs : j > ix => job[j] = "pending"
    /\ pc \in {"setup", "iterate", "poll", "spawn"} /\ ix \in Jobs => job[ix] = "pending"
    /\ pc = "wait" => job[ix] \in {"running", "exited"}

\* A slot names one job twice, unless fork failed for it and the pid is the
\* wildcard of waitpid.
SlotOwners ==
    \A p \in Slots :
        \/ processes[p] = EmptySlot
        \/ /\ processes[p].location \in Jobs
           /\ job[processes[p].location] # "pending"
           /\ \/ processes[p].pid = processes[p].location
              \/ processes[p].pid = Any /\ job[processes[p].location] = "unlaunched"

\* Without -k the script of a job that was collected stays only if it failed, and
\* until the first job whose script cannot be started.
ScriptsOwned ==
    cfg.parallel /\ ~cfg.ignoreFailures =>
        \/ scripts \subseteq Live \cup Failed
        \/ \E j \in Jobs : job[j] = "unlaunched"

\* Without -k a failure is never forgotten, and the loop is left at the first one.
Verdict ==
    ~cfg.ignoreFailures =>
        /\ ret = 0 => Failed = {}
        /\ pc \in {"setup", "iterate", "wait", "poll", "spawn"} => ret = 0
        /\ pc \in {"cleanup", "returned"} /\ ret = 0 => ix \notin Jobs

\* The result of a serial rule is the highest exit code so far.
Highest ==
    ~cfg.parallel /\ pc # "fmt_error" =>
        /\ \A j \in Jobs : job[j] = "reaped" => Code(j) <= ret
        /\ ret # 0 => \/ \E j \in Failed : Code(j) = ret
                      \/ pc = "returned" /\ Unstarted

WorkInv ==
    /\ Progress
    /\ SlotOwners
    /\ RunningScriptKept
    /\ ScriptsOwned
    /\ Verdict
    /\ Highest

\* The four things a step may do to the jobs.
Kept == UNCHANGED <<job, status>>

Takes(w) ==
    /\ ix \in Jobs /\ job[ix] = "pending"
    /\ job' = [job EXCEPT ![ix] = w]
    /\ UNCHANGED status

Reaps(j) ==
    /\ job[j] = "exited"
    /\ job' = [job EXCEPT ![j] = "reaped"]
    /\ UNCHANGED status

Exits(j) ==
    /\ job[j] = "running"
    /\ job' = [job EXCEPT ![j] = "exited"]
    /\ \E s : status' = [status EXCEPT ![j] = s]

LEMMA PollSuccessReaps ==
    ASSUME PollSuccess
    PROVE  \E j \in Waitable(processes[pix].pid) :
             j \in Jobs /\ Reaps(j) /\ Code(j) = 0
<1>1. PICK j \in Waitable(processes[pix].pid) :
        WEXITSTATUS(status[j]) = 0 /\ job' = [job EXCEPT ![j] = "reaped"]
  BY DEF PollSuccess
<1>2. j \in Jobs /\ job[j] = "exited" /\ UNCHANGED status
  BY DEF Waitable, Awaited, Live, PollSuccess
<1> QED
  BY <1>1, <1>2 DEF Reaps, Code

LEMMA PollFailureReaps ==
    ASSUME PollFailure
    PROVE  \E j \in Waitable(processes[pix].pid) :
             /\ j \in Jobs /\ Reaps(j) /\ Code(j) # 0
             /\ \/ ~cfg.ignoreFailures /\ ret' = Code(j) /\ NextJob(ret')
                \/ cfg.ignoreFailures /\ pc' = "spawn" /\ UNCHANGED <<ix, pix, ret, dynInput>>
<1>1. PICK j \in Waitable(processes[pix].pid) :
        /\ WEXITSTATUS(status[j]) # 0
        /\ job' = [job EXCEPT ![j] = "reaped"]
        /\ \/ /\ ~cfg.ignoreFailures
              /\ ret' = WEXITSTATUS(status[j])
              /\ NextJob(ret')
           \/ /\ cfg.ignoreFailures
              /\ pc' = "spawn"
              /\ UNCHANGED <<ix, pix, ret, dynInput>>
  BY DEF PollFailure
<1>2. j \in Jobs /\ job[j] = "exited" /\ UNCHANGED status
  BY DEF Waitable, Awaited, Live, PollFailure
<1> QED
  BY <1>1, <1>2 DEF Reaps, Code

LEMMA CleanupReaps ==
    ASSUME CleanupReap
    PROVE  \E j \in Waitable(processes[pix].pid) :
             j \in Jobs /\ Reaps(j) /\ ret' = IF Code(j) # 0 THEN Code(j) ELSE ret
<1>1. PICK j \in Waitable(processes[pix].pid) :
        /\ job' = [job EXCEPT ![j] = "reaped"]
        /\ ret' = IF WEXITSTATUS(status[j]) # 0 THEN WEXITSTATUS(status[j]) ELSE ret
  BY DEF CleanupReap
<1>2. j \in Jobs /\ job[j] = "exited" /\ UNCHANGED status
  BY DEF Waitable, Awaited, Live, CleanupReap
<1> QED
  BY <1>1, <1>2 DEF Reaps, Code

LEMMA TakesOne ==
    ASSUME TypeInv, Progress,
           Skip \/ SerialExec \/ SerialExecFails \/ Spawn \/ SpawnOutOfBounds
    PROVE  \E w \in {"uptodate", "unlaunched", "running"} : Takes(w)
<1>1. ix \in Jobs /\ job[ix] = "pending" /\ UNCHANGED status
  BY DEF Skip, SerialExec, SerialExecFails, Spawn, SpawnOutOfBounds, AtJob, Progress,
     TypeInv, Control
<1>2. \E w \in {"uptodate", "unlaunched", "running"} : job' = [job EXCEPT ![ix] = w]
  BY DEF Skip, SerialExec, SerialExecFails, Spawn, SpawnOutOfBounds, MbExecParallel
<1> QED
  BY <1>1, <1>2 DEF Takes

LEMMA WaitReaps ==
    ASSUME TypeInv, SerialWait
    PROVE  ix \in Jobs /\ Reaps(ix) /\ ret' = (IF Code(ix) > ret THEN Code(ix) ELSE ret)
  BY DEF TypeInv, Control, SerialWait, Reaps, Code

LEMMA ExitsOne ==
    ASSUME NEW j \in Jobs, ChildExit(j)
    PROVE  Exits(j)
<1>1. PICK s \in ExitCodes \cup (IF "kill" \in Faults THEN {Killed} ELSE {}) :
        status' = [status EXCEPT ![j] = s]
  BY DEF ChildExit
<1> QED
  BY <1>1 DEF ChildExit, Exits

Quiet ==
    \/ Setup \/ SetupFails \/ FormatFails \/ LoopDone \/ FindFreeSlot \/ NoFreeSlot
    \/ PollBusy \/ ScriptErrorAborts \/ CleanupSkip \/ Return

LEMMA QuietKeeps == ASSUME Quiet PROVE Kept /\ UNCHANGED <<cfg, processes, scripts, ix>>
  BY DEF Quiet, Kept, Setup, SetupFails, FormatFails, LoopDone, LeaveLoop, FindFreeSlot,
     NoFreeSlot, PollBusy, ScriptErrorAborts, CleanupSkip, Return, poolVars, childVars

\* How the sets that the properties speak of change.
Reaped == {j \in Jobs : job[j] = "reaped"}

LEMMA KeptSets ==
    ASSUME Kept
    PROVE  Live' = Live /\ Failed' = Failed /\ Reaped' = Reaped /\ (\A j : Code(j)' = Code(j))
  BY DEF Kept, Live, Failed, Reaped, Code

LEMMA TakesSets ==
    ASSUME TypeInv, NEW w \in {"uptodate", "unlaunched", "running"}, Takes(w)
    PROVE  /\ Live' = IF w = "running" THEN Live \cup {ix} ELSE Live
           /\ ix \notin Live /\ ix \notin Reaped
           /\ Failed' = Failed /\ Reaped' = Reaped
           /\ \A j : Code(j)' = Code(j)
<1>1. \A j \in Jobs : job'[j] = IF j = ix THEN w ELSE job[j]
  BY DEF Takes, TypeInv, TypeOK
<1>2. \A j : Code(j)' = Code(j)
  BY DEF Takes, Code
<1>3. Live' = IF w = "running" THEN Live \cup {ix} ELSE Live
  BY <1>1 DEF Takes, Live
<1>4. Reaped' = Reaped /\ Failed' = Failed
  BY <1>1, <1>2 DEF Takes, Reaped, Failed
<1> QED
  BY <1>2, <1>3, <1>4 DEF Takes, Live, Reaped

LEMMA ReapsSets ==
    ASSUME TypeInv, NEW j \in Jobs, Reaps(j)
    PROVE  /\ j \in Live /\ Live' = Live \ {j}
           /\ Reaped' = Reaped \cup {j}
           /\ Failed' = IF Code(j) # 0 THEN Failed \cup {j} ELSE Failed
           /\ \A k : Code(k)' = Code(k)
<1>1. \A k \in Jobs : job'[k] = IF k = j THEN "reaped" ELSE job[k]
  BY DEF Reaps, TypeInv, TypeOK
<1>2. \A k : Code(k)' = Code(k)
  BY DEF Reaps, Code
<1>3. j \in Live /\ Live' = Live \ {j} /\ Reaped' = Reaped \cup {j}
  BY <1>1 DEF Reaps, Live, Reaped
<1>4. Failed' = IF Code(j) # 0 THEN Failed \cup {j} ELSE Failed
  BY <1>1, <1>2 DEF Reaps, Failed
<1> QED
  BY <1>2, <1>3, <1>4

LEMMA ExitsSets ==
    ASSUME TypeInv, NEW j \in Jobs, Exits(j)
    PROVE  /\ Live' = Live /\ Reaped' = Reaped /\ Failed' = Failed
           /\ \A k \in Reaped : Code(k)' = Code(k)
<1>1. \A k \in Jobs : job'[k] = IF k = j THEN "exited" ELSE job[k]
  BY DEF Exits, TypeInv, TypeOK
<1>2. \A k \in Jobs : k # j => Code(k)' = Code(k)
  BY DEF Exits, Code, TypeInv, TypeOK
<1>3. Live' = Live /\ Reaped' = Reaped
  BY <1>1 DEF Exits, Live, Reaped
<1>4. Failed' = Failed
  BY <1>1, <1>2 DEF Exits, Failed
<1> QED
  BY <1>2, <1>3, <1>4 DEF Exits, Reaped
-----------------------------------------------------------------------------
(* The list is worked through in order.                                    *)

LEMMA WorkInit == Init => WorkInv
<1> SUFFICES ASSUME Init PROVE WorkInv
  OBVIOUS
<1>1. Live = {} /\ Failed = {} /\ \A j \in Jobs : job[j] = "pending"
  BY DEF Init, Live, Failed
<1>2. pc = "setup" /\ ix = 1 /\ ret = 0 /\ scripts = {}
  BY DEF Init
<1>3. Progress
  BY <1>1, <1>2 DEF Progress, Jobs
<1>4. SlotOwners
  BY DEF Init, SlotOwners
<1>5. RunningScriptKept /\ ScriptsOwned
  BY <1>1, <1>2 DEF RunningScriptKept, ScriptsOwned
<1>6. Verdict /\ Highest
  BY <1>1, <1>2 DEF Verdict, Highest
<1> QED
  BY <1>3, <1>4, <1>5, <1>6 DEF WorkInv

\* The job at ix is done with, in one way or the other.
LEMMA ProgressNext ==
    ASSUME TypeInv, Progress, ix \in Jobs, NEW r, NextJob(r),
           NEW w \in {"uptodate", "unlaunched", "running", "reaped"},
           job' = [job EXCEPT ![ix] = w]
    PROVE  Progress'
<1>1. \A j \in Jobs : job'[j] = IF j = ix THEN w ELSE job[j]
  BY DEF TypeInv, TypeOK
<1>2. CASE pc' = "cleanup" /\ ix' = ix
  BY <1>1, <1>2 DEF Progress
<1>3. CASE pc' = "iterate" /\ ix' = ix + 1
  <2>1. \A j \in Jobs : /\ j < ix + 1 <=> j < ix \/ j = ix
                       /\ j >= ix + 1 => j > ix
    BY DEF Jobs
  <2> QED
    BY <1>1, <1>3, <2>1 DEF Progress, Jobs
<1> QED
  BY <1>2, <1>3 DEF NextJob, LeaveLoop

\* The job at ix stays what it is.
LEMMA ProgressStays ==
    ASSUME TypeInv, Progress, UNCHANGED ix,
           \/ UNCHANGED job
           \/ \E j \in Live, w \in {"exited", "reaped"} : job' = [job EXCEPT ![j] = w],
           \/ pc' \in {"cleanup"} \cup Ended
           \/ pc' \in {"iterate", "poll", "spawn"} /\ pc \in {"setup", "iterate", "poll"}
           \/ pc' = pc /\ (pc = "wait" => job'[ix] \in {"running", "exited"})
    PROVE  Progress'
<1>1. \A j \in Jobs : job'[j] = "pending" <=> job[j] = "pending"
  BY DEF TypeInv, TypeOK, Live
<1> QED
  BY <1>1 DEF Progress, Ended, TypeInv, Control

LEMMA ProgressStep ==
    ASSUME TypeInv, Progress, [Next]_vars
    PROVE  Progress'
<1>1. CASE Quiet
  <2>1. UNCHANGED <<job, ix>>
    BY <1>1, QuietKeeps DEF Kept
  <2>2. \/ pc' \in {"cleanup"} \cup Ended
        \/ pc' \in {"iterate", "poll", "spawn"} /\ pc \in {"setup", "iterate", "poll"}
    BY <1>1 DEF Quiet, Setup, SetupFails, FormatFails, LoopDone, LeaveLoop, FindFreeSlot,
       NoFreeSlot, PollBusy, ScriptErrorAborts, CleanupSkip, InCleanup, Return, AtJob, Ended
  <2> QED
    BY <2>1, <2>2, ProgressStays
<1>2. CASE Skip \/ SerialExecFails \/ Spawn \/ SpawnOutOfBounds
  <2>1. PICK w \in {"uptodate", "unlaunched", "running"} : Takes(w)
    BY <1>2, TakesOne
  <2>2. CASE NextJob(ret)
    BY <2>1, <2>2, ProgressNext DEF Takes
  <2>3. CASE SpawnOutOfBounds /\ pc' = "aborted" /\ UNCHANGED <<ix, pix, dynInput>>
    <3>1. \A j \in Jobs : job'[j] = IF j = ix THEN w ELSE job[j]
      BY <2>1 DEF Takes, TypeInv, TypeOK
    <3> QED
      BY <2>3, <3>1 DEF Progress, Jobs
  <2> QED
    BY <1>2, <2>2, <2>3 DEF Skip, SerialExecFails, Spawn, SpawnOutOfBounds
<1>3. CASE SerialExec
  <2>1. /\ ix \in Jobs /\ UNCHANGED ix /\ pc' = "wait"
        /\ \A j \in Jobs : job'[j] = IF j = ix THEN "running" ELSE job[j]
    BY <1>3 DEF SerialExec, AtJob, TypeInv, TypeOK
  <2> QED
    BY <2>1 DEF Progress, Jobs
<1>4. CASE SerialWait
  BY <1>4, ProgressNext DEF SerialWait, TypeInv, Control
<1>5. CASE PollSuccess \/ CleanupReap
  <2>1. PICK j \in Jobs : Reaps(j)
    BY <1>5, PollSuccessReaps, CleanupReaps
  <2>2. j \in Live /\ job' = [job EXCEPT ![j] = "reaped"]
    BY <2>1, ReapsSets DEF Reaps
  <2>3. \/ pc' = "cleanup"
        \/ pc' = "spawn" /\ pc = "poll"
    BY <1>5 DEF PollSuccess, CleanupReap, InCleanup
  <2>4. UNCHANGED ix
    BY <1>5 DEF PollSuccess, CleanupReap
  <2> QED
    BY <2>2, <2>3, <2>4, ProgressStays
<1>6. CASE PollFailure
  <2>1. PICK j \in Jobs :
          /\ Reaps(j) /\ Code(j) # 0
          /\ \/ ~cfg.ignoreFailures /\ ret' = Code(j) /\ NextJob(ret')
             \/ cfg.ignoreFailures /\ pc' = "spawn" /\ UNCHANGED <<ix, pix, ret, dynInput>>
    BY <1>6, PollFailureReaps
  <2>2. j \in Live /\ job' = [job EXCEPT ![j] = "reaped"]
    BY <2>1, ReapsSets DEF Reaps
  <2>3. UNCHANGED ix /\ (pc' = "cleanup" \/ (pc' = "spawn" /\ pc = "poll"))
    BY <1>6, <2>1 DEF PollFailure, NextJob, LeaveLoop
  <2> QED
    BY <2>2, <2>3, ProgressStays
<1>7. ASSUME NEW j \in Jobs, ChildExit(j) PROVE Progress'
  <2>1. /\ j \in Live /\ job' = [job EXCEPT ![j] = "exited"]
        /\ UNCHANGED <<pc, ix>>
    BY <1>7 DEF ChildExit, Live
  <2>2. pc = "wait" => job'[ix] \in {"running", "exited"}
    BY <2>1 DEF Progress, TypeInv, TypeOK, Control
  <2> QED
    BY <2>1, <2>2, ProgressStays
<1>8. CASE UNCHANGED vars
  BY <1>8 DEF vars, childVars, Progress
<1> QED
  BY <1>1, <1>2, <1>3, <1>4, <1>5, <1>6, <1>7, <1>8 DEF Next, Mb, Terminated, Quiet
-----------------------------------------------------------------------------
(* No exit code is lost.                                                   *)

LEMMA JobCode ==
    ASSUME TypeInv, NEW j \in Jobs
    PROVE  Code(j) \in 0..255
  BY CodeType DEF TypeInv, TypeOK, Code

\* What the quiet steps do to the result.
LEMMA QuietResult ==
    ASSUME TypeInv, Quiet
    PROVE  /\ pc \notin Ended
           /\ pc' \in {"iterate", "poll", "spawn"} =>
                pc \in {"setup", "iterate", "poll"} /\ UNCHANGED ret
           /\ \/ UNCHANGED ret
              \/ ret' = 1 /\ pc = "setup" /\ pc' = "returned"
              \/ ret' = 1 /\ pc' = "fmt_error"
           /\ pc' = "cleanup" => pc = "cleanup" \/ ix \notin Jobs
           /\ pc' = "returned" => pc = "cleanup" \/ ret' = 1
           /\ pc' # "setup" /\ pc' # "wait"
<1>1. CASE Setup \/ SetupFails
  BY <1>1 DEF Setup, SetupFails, Ended
<1>a. CASE FormatFails
  BY <1>a DEF FormatFails, AtJob, Ended
<1>b. CASE LoopDone
  <2>1. ix \notin Jobs
    BY <1>b, NumJobsAssumption DEF LoopDone, Jobs, TypeInv, TypeOK
  <2> QED
    BY <1>b, <2>1 DEF LoopDone, LeaveLoop, Ended
<1>2. CASE FindFreeSlot \/ NoFreeSlot \/ PollBusy
  BY <1>2 DEF FindFreeSlot, NoFreeSlot, PollBusy, AtJob, Ended
<1>3. CASE ScriptErrorAborts \/ CleanupSkip \/ Return
  BY <1>3 DEF ScriptErrorAborts, CleanupSkip, InCleanup, Return, AtJob, Ended
<1> QED
  BY <1>1, <1>a, <1>b, <1>2, <1>3 DEF Quiet

\* What the steps that take a job do to the result.
LEMMA TakesResult ==
    ASSUME TypeInv, Skip \/ SerialExec \/ SerialExecFails \/ Spawn \/ SpawnOutOfBounds
    PROVE  /\ UNCHANGED <<cfg, ret>>
           /\ pc \in {"iterate", "spawn"}
           /\ \/ NextJob(ret)
              \/ pc' = "aborted"
              \/ pc' = "wait"
  BY DEF Skip, SerialExec, SerialExecFails, Spawn, SpawnOutOfBounds, AtJob

LEMMA VerdictStep ==
    ASSUME TypeInv, Progress, Verdict, [Next]_vars
    PROVE  Verdict'
<1> SUFFICES ASSUME ~cfg'.ignoreFailures
             PROVE  /\ ret' = 0 => Failed' = {}
                    /\ pc' \in {"setup", "iterate", "wait", "poll", "spawn"} => ret' = 0
                    /\ pc' \in {"cleanup", "returned"} /\ ret' = 0 => ix' \notin Jobs
  BY DEF Verdict
<1> USE DEF Verdict
<1>1. CASE Quiet
  BY <1>1, QuietKeeps, KeptSets, QuietResult
<1>2. CASE Skip \/ SerialExec \/ SerialExecFails \/ Spawn \/ SpawnOutOfBounds
  <2>1. Failed' = Failed
    BY <1>2, TakesOne, TakesSets
  <2> QED
    BY <1>2, <2>1, TakesResult DEF NextJob, LeaveLoop
<1>3. CASE SerialWait
  <2>1. /\ pc = "wait" /\ cfg' = cfg /\ NextJob(ret') /\ ix \in Jobs /\ Reaps(ix)
        /\ ret' = IF Code(ix) > ret THEN Code(ix) ELSE ret
    BY <1>3, WaitReaps DEF SerialWait
  <2>2. Failed' = IF Code(ix) # 0 THEN Failed \cup {ix} ELSE Failed
    BY <2>1, ReapsSets
  <2>3. Code(ix) \in 0..255
    BY <2>1, JobCode
  <2> QED
    BY <2>1, <2>2, <2>3 DEF NextJob, LeaveLoop
<1>4. CASE PollSuccess
  <2>1. PICK j \in Jobs : Reaps(j) /\ Code(j) = 0
    BY <1>4, PollSuccessReaps
  <2>2. Failed' = Failed
    BY <2>1, ReapsSets
  <2> QED
    BY <1>4, <2>2 DEF PollSuccess
<1>5. CASE PollFailure
  <2>1. PICK j \in Jobs : ret' = Code(j) /\ Code(j) # 0 /\ NextJob(ret')
    BY <1>5, PollFailureReaps DEF PollFailure
  <2> QED
    BY <1>5, <2>1 DEF PollFailure, NextJob, LeaveLoop
<1>6. CASE CleanupReap
  <2>1. PICK j \in Jobs : Reaps(j) /\ ret' = IF Code(j) # 0 THEN Code(j) ELSE ret
    BY <1>6, CleanupReaps
  <2>2. Failed' = IF Code(j) # 0 THEN Failed \cup {j} ELSE Failed
    BY <2>1, ReapsSets
  <2>3. pc = "cleanup" /\ UNCHANGED <<pc, ix, cfg>>
    BY <1>6 DEF CleanupReap, InCleanup
  <2> QED
    BY <2>1, <2>2, <2>3
<1>7. ASSUME NEW j \in Jobs, ChildExit(j)
      PROVE  /\ ret' = 0 => Failed' = {}
             /\ pc' \in {"setup", "iterate", "wait", "poll", "spawn"} => ret' = 0
             /\ pc' \in {"cleanup", "returned"} /\ ret' = 0 => ix' \notin Jobs
  <2>1. Failed' = Failed
    BY <1>7, ExitsOne, ExitsSets
  <2> QED
    BY <1>7, <2>1 DEF ChildExit
<1>8. CASE UNCHANGED vars
  BY <1>8, KeptSets DEF vars, childVars, Kept
<1> QED
  BY <1>1, <1>2, <1>3, <1>4, <1>5, <1>6, <1>7, <1>8 DEF Next, Mb, Terminated, Quiet

LEMMA HighestStep ==
    ASSUME TypeInv, Progress, Highest, [Next]_vars
    PROVE  Highest'
<1> SUFFICES ASSUME ~cfg'.parallel, pc' # "fmt_error"
             PROVE  /\ \A j \in Jobs : job'[j] = "reaped" => Code(j)' <= ret'
                    /\ ret' # 0 => \/ \E j \in Failed' : Code(j)' = ret'
                                   \/ pc' = "returned" /\ Unstarted'
  BY DEF Highest
<1> DEFINE Goal == /\ \A j \in Reaped' : Code(j)' <= ret'
                   /\ ret' # 0 => \/ \E j \in Failed' : Code(j)' = ret'
                                  \/ pc' = "returned" /\ Unstarted'
<1> SUFFICES Goal
  BY DEF Reaped
<1> HIDE DEF Goal
\* A step that keeps the result and what was collected.
<1>a. ASSUME ~cfg.parallel, pc # "fmt_error", UNCHANGED ret,
             Reaped' = Reaped, Failed' = Failed, \A k \in Reaped : Code(k)' = Code(k),
             pc = "returned" /\ Unstarted => UNCHANGED <<pc, job>>
      PROVE  Goal
  <2>1. Failed \subseteq Reaped
    BY DEF Failed, Reaped
  <2>2. \A j \in Reaped : Code(j) <= ret
    BY <1>a DEF Highest, Reaped
  <2>3. ret # 0 => (\E j \in Failed : Code(j) = ret) \/ (pc = "returned" /\ Unstarted)
    BY <1>a DEF Highest
  <2>4. pc = "returned" /\ Unstarted => pc' = "returned" /\ Unstarted'
    BY <1>a DEF Unstarted, Jobs
  <2> QED
    BY <1>a, <2>1, <2>2, <2>3, <2>4 DEF Goal
<1>1. CASE Quiet
  <2>1. /\ Reaped' = Reaped /\ Failed' = Failed /\ \A k : Code(k)' = Code(k)
        /\ UNCHANGED <<cfg, ix>>
    BY <1>1, QuietKeeps, KeptSets
  <2>2. pc \notin Ended
    BY <1>1, QuietResult
  <2>3. CASE UNCHANGED ret
    BY <1>a, <2>1, <2>2, <2>3 DEF Ended
  <2>4. CASE ret' = 1 /\ pc = "setup" /\ pc' = "returned"
    <3>1. Unstarted' /\ Reaped = {}
      BY <1>1, <2>4, QuietKeeps DEF Progress, Reaped, Jobs, Unstarted, Kept
    <3> QED
      BY <2>1, <2>4, <3>1 DEF Goal
  <2> QED
    BY <1>1, <2>3, <2>4, QuietResult
<1>2. CASE Skip \/ SerialExec \/ SerialExecFails \/ Spawn \/ SpawnOutOfBounds
  <2>1. Reaped' = Reaped /\ Failed' = Failed /\ \A k : Code(k)' = Code(k)
    BY <1>2, TakesOne, TakesSets
  <2>2. UNCHANGED <<cfg, ret>> /\ pc \in {"iterate", "spawn"}
    BY <1>2, TakesResult
  <2> QED
    BY <1>a, <2>1, <2>2
<1>3. CASE SerialWait
  <2>1. /\ pc = "wait" /\ cfg' = cfg /\ ix \in Jobs /\ Reaps(ix)
        /\ ret' = IF Code(ix) > ret THEN Code(ix) ELSE ret
    BY <1>3, WaitReaps DEF SerialWait
  <2>2. /\ Failed' = IF Code(ix) # 0 THEN Failed \cup {ix} ELSE Failed
        /\ Reaped' = Reaped \cup {ix}
        /\ \A k : Code(k)' = Code(k)
    BY <2>1, ReapsSets
  <2>3. /\ \A j \in Reaped : Code(j) <= ret /\ Code(j) \in 0..255
        /\ ret # 0 => \E j \in Failed : Code(j) = ret
        /\ Code(ix) \in 0..255 /\ ret \in 0..255
    BY <2>1, JobCode, SMTT(20) DEF Highest, Reaped, TypeInv, TypeOK
  <2>4. \A j \in Reaped' : Code(j) <= ret'
    BY <2>1, <2>2, <2>3, SMTT(20)
  <2>5. ret' # 0 => \E j \in Failed' : Code(j) = ret'
    <3>1. CASE Code(ix) > ret
      <4>1. Code(ix) # 0 /\ ret' = Code(ix)
        BY <2>1, <2>3, <3>1
      <4> QED
        BY <2>2, <4>1
    <3>2. CASE ~(Code(ix) > ret)
      BY <2>1, <2>2, <2>3, <3>2
    <3> QED
      BY <3>1, <3>2
  <2> QED
    BY <2>2, <2>4, <2>5 DEF Goal
<1>4. CASE PollSuccess \/ PollFailure \/ CleanupReap
  <2>1. cfg' = cfg /\ cfg.parallel
    BY <1>4 DEF PollSuccess, PollFailure, CleanupReap, InCleanup, Slots
  <2> QED
    BY <2>1
<1>5. ASSUME NEW j \in Jobs, ChildExit(j)
      PROVE  Goal
  <2>1. Reaped' = Reaped /\ Failed' = Failed /\ \A k \in Reaped : Code(k)' = Code(k)
    BY <1>5, ExitsOne, ExitsSets
  <2>2. UNCHANGED <<cfg, pc, ix, ret>> /\ ~Unstarted
    BY <1>5 DEF ChildExit, Unstarted
  <2> QED
    BY <1>a, <2>1, <2>2
<1>6. CASE UNCHANGED vars
  <2>1. Reaped' = Reaped /\ Failed' = Failed /\ \A k : Code(k)' = Code(k)
    BY <1>6, KeptSets DEF vars, childVars, Kept
  <2>2. UNCHANGED <<cfg, pc, ix, ret, job>>
    BY <1>6 DEF vars, childVars
  <2> QED
    BY <1>a, <2>1, <2>2
<1> QED
  BY <1>1, <1>2, <1>3, <1>4, <1>5, <1>6 DEF Next, Mb, Terminated, Quiet
-----------------------------------------------------------------------------
(* The process table and the script files.                                 *)

\* What a slot's location names was taken from the list before; what the step
\* takes or collects now is no job of a slot without a child.
LEMMA OwnersKept ==
    ASSUME TypeInv, SlotOwners, UNCHANGED <<cfg, processes>>,
           \A j \in Jobs : /\ job[j] # "pending" => job'[j] # "pending"
                           /\ job[j] = "unlaunched" => job'[j] = "unlaunched"
    PROVE  SlotOwners'
<1>1. Slots' = Slots
  BY DEF Slots
<1>2. ASSUME NEW p \in Slots
      PROVE  \/ processes[p] = EmptySlot
             \/ /\ processes[p].location \in Jobs
                /\ job'[processes[p].location] # "pending"
                /\ \/ processes[p].pid = processes[p].location
                   \/ /\ processes[p].pid = Any
                      /\ job'[processes[p].location] = "unlaunched"
  BY DEF SlotOwners
<1> QED
  BY <1>1, <1>2 DEF SlotOwners

LEMMA OwnersSpawn ==
    ASSUME TypeInv, Progress, SlotOwners, Spawn
    PROVE  SlotOwners'
<1>1. PICK process \in Process :
        /\ MbExecParallel(process)
        /\ processes' = [processes EXCEPT ![processIx] = process]
  BY DEF Spawn
<1>2. Slots' = Slots /\ ix \in Jobs /\ job[ix] = "pending" /\ pc = "spawn"
  BY DEF Spawn, Slots, Progress, TypeInv, Control
<1>3. \A p \in Slots : processes'[p] = IF p = processIx THEN process ELSE processes[p]
  BY <1>1 DEF TypeInv, TypeOK
<1>4. \A j \in Jobs : j # ix => job'[j] = job[j]
  BY <1>1, <1>2 DEF MbExecParallel, TypeInv, TypeOK
<1>5. \/ process = EmptySlot
      \/ process.location = ix /\ process.pid = ix /\ job'[ix] = "running"
      \/ process.location = ix /\ process.pid = Any /\ job'[ix] = "unlaunched"
  BY <1>1, <1>2 DEF MbExecParallel, TypeInv, TypeOK
<1>6. ASSUME NEW p \in Slots
      PROVE  \/ processes'[p] = EmptySlot
             \/ /\ processes'[p].location \in Jobs
                /\ job'[processes'[p].location] # "pending"
                /\ \/ processes'[p].pid = processes'[p].location
                   \/ /\ processes'[p].pid = Any
                      /\ job'[processes'[p].location] = "unlaunched"
  <2>1. CASE p = processIx
    BY <1>2, <1>3, <1>5, <2>1
  <2>2. CASE p # processIx
    <3>1. processes'[p] = processes[p]
      BY <1>3, <2>2
    <3> QED
      BY <1>2, <1>4, <3>1 DEF SlotOwners
  <2> QED
    BY <2>1, <2>2
<1> QED
  BY <1>2, <1>6 DEF SlotOwners

LEMMA OwnersStep ==
    ASSUME TypeInv, Progress, SlotOwners, [Next]_vars
    PROVE  SlotOwners'
<1>1. CASE Quiet
  BY <1>1, QuietKeeps, OwnersKept DEF Kept
<1>2. CASE Skip \/ SerialExec \/ SerialExecFails \/ SpawnOutOfBounds
  <2>1. PICK w \in {"uptodate", "unlaunched", "running"} : Takes(w)
    BY <1>2, TakesOne
  <2>2. \A j \in Jobs : job'[j] = IF j = ix THEN w ELSE job[j]
    BY <2>1 DEF Takes, TypeInv, TypeOK
  <2>3. UNCHANGED <<cfg, processes>>
    BY <1>2 DEF Skip, SerialExec, SerialExecFails, SpawnOutOfBounds, poolVars
  <2> QED
    BY <2>1, <2>2, <2>3, OwnersKept DEF Takes
<1>3. CASE Spawn
  BY <1>3, OwnersSpawn
<1>4. CASE SerialWait \/ PollSuccess \/ PollFailure \/ CleanupReap
  <2>1. PICK j \in Jobs : Reaps(j)
    BY <1>4, WaitReaps, PollSuccessReaps, PollFailureReaps, CleanupReaps
  <2>2. \A k \in Jobs : job'[k] = IF k = j THEN "reaped" ELSE job[k]
    BY <2>1 DEF Reaps, TypeInv, TypeOK
  <2>3. UNCHANGED <<cfg, processes>>
    BY <1>4 DEF SerialWait, PollSuccess, PollFailure, CleanupReap
  <2> QED
    BY <2>1, <2>2, <2>3, OwnersKept DEF Reaps
<1>5. ASSUME NEW j \in Jobs, ChildExit(j) PROVE SlotOwners'
  <2>1. Exits(j)
    BY <1>5, ExitsOne
  <2>2. \A k \in Jobs : job'[k] = IF k = j THEN "exited" ELSE job[k]
    BY <2>1 DEF Exits, TypeInv, TypeOK
  <2>3. UNCHANGED <<cfg, processes>>
    BY <1>5 DEF ChildExit, poolVars
  <2> QED
    BY <2>1, <2>2, <2>3, OwnersKept DEF Exits
<1>6. CASE UNCHANGED vars
  BY <1>6, OwnersKept DEF vars, poolVars, childVars
<1> QED
  BY <1>1, <1>2, <1>3, <1>4, <1>5, <1>6 DEF Next, Mb, Terminated, Quiet

\* Collecting through slot p: the child and the script that goes with it.
LEMMA CollectsOwn ==
    ASSUME TypeInv, SlotOwners, NEW p \in Slots, NEW j \in Waitable(processes[p].pid)
    PROVE  \/ processes[p].location = j
           \/ /\ processes[p].location \in Jobs
              /\ job[processes[p].location] = "unlaunched"
<1>1. j \in Jobs /\ processes[p].pid \in {Any, j} /\ processes[p].pid # None
  BY WaitableChild DEF Waitable, Awaited, Live
<1>2. processes[p] # EmptySlot
  BY <1>1 DEF EmptySlot
<1>3. Any \notin Jobs
  BY NumJobsAssumption DEF Any, Jobs
<1> QED
  BY <1>1, <1>2, <1>3 DEF SlotOwners

\* What PollSuccess and CleanupReap do to the files.
LEMMA ScriptsAfterCollect ==
    ASSUME TypeInv, SlotOwners, RunningScriptKept, ScriptsOwned, cfg' = cfg,
           NEW p \in Slots, NEW j \in Waitable(processes[p].pid), Reaps(j),
           scripts' = scripts \ {processes[p].location}
    PROVE  RunningScriptKept' /\ ScriptsOwned'
<1>1. /\ j \in Jobs /\ Live' = Live \ {j} /\ Failed \subseteq Failed'
      /\ \A k \in Jobs : job'[k] = IF k = j THEN "reaped" ELSE job[k]
  BY ReapsSets DEF Reaps, Waitable, Awaited, Live, TypeInv, TypeOK
<1>2. CASE processes[p].location = j
  BY <1>1, <1>2 DEF RunningScriptKept, ScriptsOwned, Reaps
<1>3. CASE /\ processes[p].location \in Jobs
           /\ job[processes[p].location] = "unlaunched"
  <2>1. processes[p].location \notin Live /\ processes[p].location # j
    BY <1>3 DEF Live, Reaps
  <2> QED
    BY <1>1, <1>3, <2>1 DEF RunningScriptKept, ScriptsOwned
<1> QED
  BY <1>2, <1>3, CollectsOwn

\* A step that adds no file but that of the job it takes.
LEMMA ScriptsAfterTake ==
    ASSUME TypeInv, RunningScriptKept, ScriptsOwned, cfg' = cfg,
           NEW w \in {"uptodate", "unlaunched", "running"}, Takes(w),
           \/ UNCHANGED scripts /\ w # "running"
           \/ scripts' = scripts \cup {ix} /\ w # "uptodate"
    PROVE  RunningScriptKept' /\ ScriptsOwned'
<1>1. /\ Live' = IF w = "running" THEN Live \cup {ix} ELSE Live
      /\ Failed' = Failed
      /\ ix \in Jobs /\ job[ix] = "pending"
      /\ \A k \in Jobs : job'[k] = IF k = ix THEN w ELSE job[k]
  BY TakesSets DEF Takes, TypeInv, TypeOK
<1> QED
  BY <1>1 DEF RunningScriptKept, ScriptsOwned

LEMMA ScriptsStep ==
    ASSUME TypeInv, Progress, SlotOwners, RunningScriptKept, ScriptsOwned, [Next]_vars
    PROVE  RunningScriptKept' /\ ScriptsOwned'
<1>1. CASE Quiet \/ UNCHANGED vars
  <2>1. Kept /\ UNCHANGED <<cfg, scripts>>
    BY <1>1, QuietKeeps DEF vars, childVars, Kept
  <2> QED
    BY <2>1, KeptSets DEF RunningScriptKept, ScriptsOwned, Kept
<1>2. CASE Skip \/ SerialExec \/ SerialExecFails
  <2>1. /\ ix \in Jobs /\ job[ix] = "pending" /\ UNCHANGED <<status, cfg>>
    BY <1>2 DEF Skip, SerialExec, SerialExecFails, AtJob, Progress
  <2>2. PICK w \in {"uptodate", "unlaunched", "running"} :
          /\ job' = [job EXCEPT ![ix] = w]
          /\ \/ UNCHANGED scripts /\ w # "running"
             \/ scripts' = scripts \cup {ix} /\ w # "uptodate"
    BY <1>2 DEF Skip, SerialExec, SerialExecFails
  <2>3. Takes(w)
    BY <2>1, <2>2 DEF Takes
  <2> QED
    BY <2>1, <2>2, <2>3, ScriptsAfterTake
<1>3. CASE Spawn \/ SpawnOutOfBounds
  <2>1. /\ ix \in Jobs /\ job[ix] = "pending" /\ UNCHANGED <<status, cfg>>
    BY <1>3 DEF Spawn, SpawnOutOfBounds, TypeInv, Control, Progress
  <2>2. PICK process : MbExecParallel(process)
    BY <1>3 DEF Spawn, SpawnOutOfBounds
  <2>3. PICK w \in {"unlaunched", "running"} :
          /\ job' = [job EXCEPT ![ix] = w]
          /\ \/ UNCHANGED scripts /\ w # "running"
             \/ scripts' = scripts \cup {ix} /\ w # "uptodate"
    BY <2>2 DEF MbExecParallel
  <2>4. Takes(w)
    BY <2>1, <2>3 DEF Takes
  <2> QED
    BY <2>1, <2>3, <2>4, ScriptsAfterTake
<1>4. CASE PollSuccess
  <2>1. PICK j \in Waitable(processes[pix].pid) : Reaps(j)
    BY <1>4, PollSuccessReaps
  <2> QED
    BY <1>4, <2>1, ScriptsAfterCollect DEF PollSuccess
<1>5. CASE CleanupReap
  <2>1. PICK j \in Waitable(processes[pix].pid) : Reaps(j)
    BY <1>5, CleanupReaps
  <2> QED
    BY <1>5, <2>1, ScriptsAfterCollect DEF CleanupReap, InCleanup
<1>6. CASE SerialWait \/ PollFailure
  <2>1. PICK j \in Jobs : Reaps(j) /\ (PollFailure => Code(j) # 0)
    BY <1>6, WaitReaps, PollFailureReaps
  <2>2. /\ Live' = Live \ {j}
        /\ Failed' = IF Code(j) # 0 THEN Failed \cup {j} ELSE Failed
        /\ \A k \in Jobs : job'[k] = IF k = j THEN "reaped" ELSE job[k]
    BY <2>1, ReapsSets DEF Reaps, TypeInv, TypeOK
  <2>3. UNCHANGED <<cfg, scripts>>
    BY <1>6 DEF SerialWait, PollFailure
  <2>4. SerialWait => ~cfg.parallel
    BY DEF SerialWait, TypeInv, Control
  <2> QED
    BY <1>6, <2>1, <2>2, <2>3, <2>4 DEF RunningScriptKept, ScriptsOwned, Reaps
<1>7. ASSUME NEW j \in Jobs, ChildExit(j) PROVE RunningScriptKept' /\ ScriptsOwned'
  <2>1. Exits(j)
    BY <1>7, ExitsOne
  <2>2. /\ Live' = Live /\ Failed' = Failed
        /\ \A k \in Jobs : job'[k] = IF k = j THEN "exited" ELSE job[k]
    BY <2>1, ExitsSets DEF Exits, TypeInv, TypeOK
  <2>3. UNCHANGED <<cfg, scripts>>
    BY <1>7 DEF ChildExit
  <2> QED
    BY <2>1, <2>2, <2>3 DEF RunningScriptKept, ScriptsOwned, Exits
<1> QED
  BY <1>1, <1>2, <1>3, <1>4, <1>5, <1>6, <1>7 DEF Next, Mb, Terminated, Quiet

LEMMA WorkAlways == Spec => [](Inv /\ WorkInv)
<1>1. Inv /\ WorkInv /\ [Next]_vars => WorkInv'
  BY ProgressStep, OwnersStep, ScriptsStep, VerdictStep, HighestStep DEF Inv, WorkInv
<1> QED
  BY <1>1, WorkInit, Invariance, PTL DEF Spec

\* No script file is removed while its shell may still be reading it, whoever is
\* collected in whichever order, even through a slot that names no process.
THEOREM ScriptKept == Spec => []RunningScriptKept
<1>1. WorkInv => RunningScriptKept
  BY DEF WorkInv
<1> QED
  BY <1>1, WorkAlways, PTL

\* Without -k the result 0 of run_singular means that the whole list was worked
\* through and that no script exited with a failure.
THEOREM SuccessCorrect == Spec => []SuccessMeansBuilt
<1>1. Inv /\ WorkInv => SuccessMeansBuilt
  <2> SUFFICES ASSUME Inv, WorkInv, pc = "returned", ret = 0, ~cfg.ignoreFailures
               PROVE  /\ Failed = {}
                      /\ \A j \in Jobs : job[j] \in {"uptodate", "unlaunched", "reaped"}
    BY DEF SuccessMeansBuilt
  <2>1. Failed = {} /\ ix \notin Jobs
    BY DEF WorkInv, Verdict
  <2>2. \A j \in Jobs : j < ix
    BY <2>1, NumJobsAssumption DEF Inv, TypeInv, TypeOK, Jobs
  <2>3. \A j \in Jobs : job[j] # "pending"
    BY <2>2 DEF WorkInv, Progress
  <2>4. Live = {}
    BY DEF Inv, SlotInv, Tracked
  <2> QED
    BY <2>1, <2>3, <2>4 DEF Live, Inv, TypeInv, TypeOK
<1> QED
  BY <1>1, WorkAlways, PTL

\* A serial rule returns the highest exit code of its scripts, with -k and
\* without.
THEOREM SerialCorrect == Spec => []SerialVerdict
<1>1. WorkInv => SerialVerdict
  BY DEF WorkInv, Highest, SerialVerdict
<1> QED
  BY <1>1, WorkAlways, PTL

\* Without -k a parallel rule whose scripts could all be started leaves no file
\* in /tmp but those of failed scripts.
THEOREM LeftoverCorrect == Spec => []LeftoverFailed
<1>1. Inv /\ WorkInv => LeftoverFailed
  BY DEF Inv, SlotInv, Tracked, WorkInv, ScriptsOwned, LeftoverFailed
<1> QED
  BY <1>1, WorkAlways, PTL

-----------------------------------------------------------------------------
(* The process table implements the pool of jobs.                          *)

\* JobPool counts with the operator it takes from its own instance of FiniteSets.
LEMMA PoolCardinality == \A S : Pool!Cardinality(S) = Cardinality(S)
  BY DEF Pool!Cardinality, Cardinality

LEMMA PoolInit == Init => Pool!Init
<1> SUFFICES ASSUME Init PROVE Pool!Init
  OBVIOUS
<1>1. cfg.parallel \in BOOLEAN /\ cfg.ignoreFailures \in BOOLEAN /\ cfg.maxProcs \in 0..255
  BY ConfigType DEF Init
<1>2. Live = {} /\ Failed = {} /\ {j \in Jobs : job[j] = "reaped"} = {}
  BY DEF Init, Live, Failed
<1>3. pc = "setup"
  BY DEF Init
<1> QED
  BY <1>1, <1>2, <1>3 DEF Pool!Init

\* A step that leaves the sets alone and does not return is a stutter.
LEMMA PoolStutter ==
    ASSUME cfg' = cfg, Live' = Live, Failed' = Failed, Reaped' = Reaped,
           pc = "returned" <=> pc' = "returned"
    PROVE  UNCHANGED Pool!vars
  BY DEF Pool!vars, Reaped

\* run_singular starts a job only while there is room for it, and without -k
\* only while nothing has failed.
LEMMA PoolStart ==
    ASSUME Inv, WorkInv, Takes("running"), cfg' = cfg,
           pc \in {"iterate", "spawn"}, pc' # "returned",
           ~cfg.parallel \/ pc = "spawn"
    PROVE  Pool!Start(ix)
<1> USE DEF Inv, WorkInv
<1>1. /\ Live' = Live \cup {ix} /\ ix \notin Live /\ ix \notin Reaped
      /\ Failed' = Failed /\ Reaped' = Reaped
  BY TakesSets
<1>2. Cardinality(Live) < IF cfg.parallel THEN cfg.maxProcs ELSE 1
  <2>1. CASE cfg.parallel
    <3>1. /\ Cardinality(Live) \in Nat /\ IsFiniteSet(Held)
          /\ Cardinality(Held) \in Nat /\ Cardinality(Held) <= cfg.maxProcs
          /\ cfg.maxProcs \in Nat
      BY LiveFinite, HeldFinite, ConfigType DEF TypeInv, TypeOK
    <3>2. CASE Cardinality(Live) < Cardinality(Held)
      BY <2>1, <3>1, <3>2
    <3>3. CASE processIx \in Slots /\ processes[processIx].pid = None
      <4>1. Cardinality(Held \cup {processIx}) = Cardinality(Held) + 1
        BY <3>1, <3>3, CardAdd DEF Held
      <4>2. Cardinality(Held \cup {processIx}) <= cfg.maxProcs
        <5>1. Held \cup {processIx} \subseteq 0..(cfg.maxProcs - 1)
          BY <3>3 DEF Held, Slots
        <5>2. /\ IsFiniteSet(0..(cfg.maxProcs - 1))
              /\ Cardinality(0..(cfg.maxProcs - 1)) = cfg.maxProcs
          BY <3>1, SlotCount
        <5> QED
          BY <5>1, <5>2, FS_Subset, Zenon
      <4>3. Cardinality(Live) <= Cardinality(Held)
        BY <2>1 DEF BoundInv
      <4> QED
        BY <2>1, <3>1, <4>1, <4>2, <4>3
    <3> QED
      BY <2>1, <3>2, <3>3 DEF BoundInv
  <2>2. CASE ~cfg.parallel
    <3>1. Live = {}
      BY <2>2 DEF BoundInv
    <3> QED
      BY <2>2, <3>1, FS_EmptySet
  <2> QED
    BY <2>1, <2>2
<1>3. ~cfg.ignoreFailures => Failed = {}
  BY DEF Verdict
<1>4. /\ ix \notin Live \cup {j \in Jobs : job[j] = "reaped"}
      /\ UNCHANGED {j \in Jobs : job[j] = "reaped"}
  BY <1>1 DEF Reaped
<1>5. /\ pc # "returned" /\ ((pc = "returned") <=> (pc' = "returned"))
      /\ UNCHANGED (IF cfg.parallel THEN cfg.maxProcs ELSE 1)
      /\ UNCHANGED ~cfg.ignoreFailures
  OBVIOUS
<1> QED
  BY <1>1, <1>2, <1>3, <1>4, <1>5, PoolCardinality DEF Pool!Start

LEMMA PoolEnd ==
    ASSUME TypeInv, NEW j \in Jobs, Reaps(j), cfg' = cfg,
           pc # "returned", pc' # "returned"
    PROVE  Pool!End(j)
  BY ReapsSets DEF Pool!End, Reaped

LEMMA PoolClose ==
    ASSUME Inv, Inv', UNCHANGED <<cfg, job, status>>,
           pc # "returned", pc' = "returned"
    PROVE  Pool!Close
<1>1. Live' = Live /\ Failed' = Failed /\ Reaped' = Reaped
  BY KeptSets DEF Kept
<1>2. ~cfg.ignoreFailures => Live = {}
  BY <1>1 DEF Inv, SlotInv, Tracked
<1> QED
  BY <1>1, <1>2 DEF Pool!Close, Reaped

LEMMA PoolStep ==
    ASSUME Inv, WorkInv, Inv', [Next]_vars
    PROVE  [Pool!Next]_Pool!vars
<1> USE DEF Inv, WorkInv
<1>1. CASE Quiet
  <2>1. Kept /\ cfg' = cfg /\ pc \notin Ended
    BY <1>1, QuietKeeps, QuietResult
  <2>2. CASE pc' = "returned"
    <3>1. Pool!Close
      BY <2>1, <2>2, PoolClose DEF Kept, Ended
    <3> QED
      BY <3>1 DEF Pool!Next
  <2>3. CASE pc' # "returned"
    BY <2>1, <2>3, KeptSets, PoolStutter DEF Ended
  <2> QED
    BY <2>2, <2>3
<1>2. CASE Skip \/ SerialExec \/ SerialExecFails \/ Spawn \/ SpawnOutOfBounds
  <2>1. PICK w \in {"uptodate", "unlaunched", "running"} : Takes(w)
    BY <1>2, TakesOne
  <2>2. cfg' = cfg /\ pc \in {"iterate", "spawn"} /\ pc' # "returned"
    BY <1>2, TakesResult DEF NextJob, LeaveLoop
  <2>3. CASE w = "running"
    <3>1. job'[ix] = "running" /\ ix \in Jobs
      BY <2>1, <2>3 DEF Takes, TypeInv, TypeOK
    <3>2. ~cfg.parallel \/ pc = "spawn"
      BY <1>2, <3>1 DEF Skip, SerialExec, SerialExecFails, Spawn, SpawnOutOfBounds,
         TypeInv, TypeOK
    <3>3. Pool!Start(ix)
      BY <2>1, <2>2, <2>3, <3>2, PoolStart
    <3> QED
      BY <3>1, <3>3 DEF Pool!Next
  <2>4. CASE w # "running"
    BY <2>1, <2>2, <2>4, TakesSets, PoolStutter
  <2> QED
    BY <2>3, <2>4
<1>3. CASE SerialWait \/ PollSuccess \/ PollFailure \/ CleanupReap
  <2>1. PICK j \in Jobs : Reaps(j)
    BY <1>3, WaitReaps, PollSuccessReaps, PollFailureReaps, CleanupReaps
  <2>2. cfg' = cfg /\ pc # "returned" /\ pc' # "returned"
    BY <1>3 DEF SerialWait, PollSuccess, PollFailure, CleanupReap, InCleanup, NextJob, LeaveLoop
  <2>3. Pool!End(j)
    BY <2>1, <2>2, PoolEnd
  <2> QED
    BY <2>3 DEF Pool!Next
<1>4. ASSUME NEW j \in Jobs, ChildExit(j) PROVE [Pool!Next]_Pool!vars
  <2>1. Live' = Live /\ Failed' = Failed /\ Reaped' = Reaped
    BY <1>4, ExitsOne, ExitsSets
  <2>2. cfg' = cfg /\ pc' = pc
    BY <1>4 DEF ChildExit
  <2> QED
    BY <2>1, <2>2, PoolStutter
<1>5. CASE UNCHANGED vars
  <2>1. Kept /\ cfg' = cfg /\ pc' = pc
    BY <1>5 DEF vars, childVars, Kept
  <2> QED
    BY <2>1, KeptSets, PoolStutter
<1> QED
  BY <1>1, <1>2, <1>3, <1>4, <1>5 DEF Next, Mb, Terminated, Quiet

\* The process table, the polling and the cleanup loop implement the pool of
\* jobs that run_singular's callers rely on.
THEOREM PoolImplemented == Spec => ImplementsJobPool
<1>1. Init => Pool!Init
  BY PoolInit
<1>2. (Inv /\ WorkInv) /\ (Inv /\ WorkInv)' /\ [Next]_vars => [Pool!Next]_Pool!vars
  BY PoolStep
<1> QED
  BY <1>1, <1>2, WorkAlways, PTL DEF Spec, ImplementsJobPool, Pool!Spec
=============================================================================
