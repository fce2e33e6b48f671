---------------------------- MODULE RunSingular ----------------------------
(***************************************************************************)
(* One call of run_singular (src/src/c_rule.c): the rule's exec script is  *)
(* run once per element of its output list, one after the other or, when   *)
(* the rule says "parallel true", with up to max_procs children at a time. *)
(* The module follows the process table, _find_process_slot, the cleanup   *)
(* loop and the parts of the executor (mb_exec, mb_exec_parallel,          *)
(* mb_remove_script) they call, against children that exit whenever they   *)
(* like, and against the failures the code has a branch for.               *)
(*                                                                         *)
(* Abstracted: the text of scripts and names (a job is its list index), the*)
(* out-of-date test (Skip is always possible; see the README), process     *)
(* identifiers (job j's child has pid j, and a pid is never reused).       *)
(***************************************************************************)
EXTENDS Integers, FiniteSets

CONSTANTS
    NumJobs,    \* length of the rule's output list
    Configs,    \* the (rule, command line) combinations a behaviour may start in
    ExitCodes,  \* exit codes of the children
    Faults      \* which of "setup", "format", "script", "fork", "kill" may happen

ASSUME NumJobsAssumption == NumJobs \in Nat
ASSUME ConfigsAssumption ==
    Configs \subseteq
        [parallel : BOOLEAN, ignoreFailures : BOOLEAN, maxProcs : 0..255]
ASSUME ExitCodesAssumption == ExitCodes \subseteq 0..255
ASSUME FaultsAssumption == Faults \subseteq {"setup", "format", "script", "fork", "kill"}

VARIABLES
    cfg,            \* rule fields parallel and max_procs, and the -k flag
    pc,             \* where run_singular is
    ix,             \* loop index, 1-based
    processes,      \* the process_t array
    usedProcesses,  \* used_processes
    processIx,      \* process_ix
    pix,            \* the slot looked at by the polling and the cleanup loops
    ret,            \* the result so far
    job,            \* what became of each list element
    status,         \* wait status of the children that exited
    scripts,        \* jobs whose script file exists in /tmp
    dynInput        \* the data pointers of the dynfields "input" and "output"

poolVars  == <<processes, usedProcesses, processIx, pix>>
childVars == <<job, status, scripts>>
vars == <<cfg, pc, ix, poolVars, ret, childVars, dynInput>>

Jobs   == 1..NumJobs
Slots  == IF cfg.parallel THEN 0..(cfg.maxProcs - 1) ELSE {}
None   == 0                     \* pid 0, location NULL
Any    == -1                    \* what fork returns on failure; waitpid's wildcard
Killed == -1                    \* the status of a child ended by a signal
Process == [pid : Jobs \cup {None, Any}, location : Jobs \cup {None}]
EmptySlot == [pid |-> None, location |-> None]

\* Control points; run_singular has ended in the last three.
Ended == {"returned", "fmt_error", "aborted"}
Points == {"setup", "iterate", "wait", "poll", "spawn", "cleanup"} \cup Ended

\* A child between fork and waitpid.
Live == {j \in Jobs : job[j] \in {"running", "exited"}}

\* Mistake: the wait status is used as it is.
RawStatus(s) == s

\* WEXITSTATUS, which reads 0 from the status of a killed child.
WEXITSTATUS(s) == IF s = Killed THEN 0 ELSE s

\* The children waitpid(pid, ...) can collect now, and all it may ever collect.
Awaited(pid)  == {j \in Live : pid \in {Any, j}}
Waitable(pid) == {j \in Awaited(pid) : job[j] = "exited"}

TypeOK ==
    /\ cfg \in Configs
    /\ pc \in Points
    /\ ix \in 1..(NumJobs + 1)
    /\ processes \in [Slots -> Process]
    /\ usedProcesses \in Nat
    /\ processIx \in Nat
    /\ pix \in Nat
    /\ ret \in 0..255
    /\ job \in [Jobs -> {"pending", "uptodate", "unlaunched",
                         "running", "exited", "reaped"}]
    /\ status \in [Jobs -> ExitCodes \cup {Killed, 0}]
    /\ scripts \subseteq Jobs
    /\ dynInput \in {"null", "live", "freed"}

Init ==
    /\ cfg \in Configs
    /\ pc = "setup"
    /\ ix = 1
    /\ processes = [p \in Slots |-> EmptySlot]
    /\ usedProcesses = 0 /\ processIx = 0 /\ pix = 0 /\ ret = 0
    /\ job = [j \in Jobs |-> "pending"]
    /\ status = [j \in Jobs |-> 0]
    /\ scripts = {}
    /\ dynInput = "null"

-----------------------------------------------------------------------------
(* Field validation and the loop.                                          *)

\* The rule's fields are usable and the table is allocated.
Setup ==
    /\ pc = "setup"
    /\ pc' = "iterate"
    /\ UNCHANGED <<cfg, ix, poolVars, ret, childVars, dynInput>>

\* A missing or ill-typed field: "return 1" before anything is started.
SetupFails ==
    /\ "setup" \in Faults
    /\ pc = "setup"
    /\ pc' = "returned"
    /\ ret' = 1
    /\ UNCHANGED <<cfg, ix, poolVars, childVars, dynInput>>

\* The loop is left for the cleanup loop; the dynfields are reset on the way.
LeaveLoop ==
    /\ pc' = "cleanup"
    /\ pix' = 0
    /\ dynInput' = "null"
    /\ UNCHANGED ix

\* Mistake: a failure does not leave the loop.
NextJobRegardless(r) ==
    /\ pc' = "iterate"
    /\ ix' = ix + 1
    /\ dynInput' = "freed"
    /\ UNCHANGED pix

\* build_loop_continue: in and out are freed, then the loop stops on a failure
\* unless -k was given. The dynfields keep pointing at what was freed.
NextJob(r) ==
    IF r # 0 /\ ~cfg.ignoreFailures
    THEN LeaveLoop
    ELSE /\ pc' = "iterate"
         /\ ix' = ix + 1
         /\ dynInput' = IF dynInput = "null" /\ job'[ix] = "uptodate"
                         THEN "null" ELSE "freed"
         /\ UNCHANGED pix

AtJob == pc = "iterate" /\ ix \in Jobs

\* FMT_ERR_CHECK returns from the middle of the loop: on the formats of input
\* and output before the dynfields are set, on the script's after.
FormatFails ==
    /\ "format" \in Faults
    /\ AtJob
    /\ pc' = "fmt_error"
    /\ ret' = 1
    /\ dynInput' \in {dynInput, "live"}
    /\ UNCHANGED <<cfg, ix, poolVars, childVars>>

\* Incremental build, output not older than its input.
Skip ==
    /\ AtJob
    /\ job' = [job EXCEPT ![ix] = "uptodate"]
    /\ NextJob(ret)
    /\ UNCHANGED <<cfg, processes, usedProcesses, processIx, ret, status, scripts>>

LoopDone ==
    /\ pc = "iterate"
    /\ ix > NumJobs
    /\ LeaveLoop
    /\ UNCHANGED <<cfg, processes, usedProcesses, processIx, ret, childVars>>

-----------------------------------------------------------------------------
(* Serial execution: mb_exec.                                              *)

SerialExec ==
    /\ AtJob /\ ~cfg.parallel
    /\ job' = [job EXCEPT ![ix] = "running"]
    /\ scripts' = scripts \cup {ix}
    /\ dynInput' = "live"
    /\ pc' = "wait"
    /\ UNCHANGED <<cfg, ix, poolVars, ret, status>>

\* Mistake: the last exit code wins.
SerialWaitLastCode ==
    /\ pc = "wait"
    /\ job[ix] = "exited"
    /\ job' = [job EXCEPT ![ix] = "reaped"]
    /\ ret' = WEXITSTATUS(status[ix])
    /\ NextJob(ret')
    /\ UNCHANGED <<cfg, processes, usedProcesses, processIx, status, scripts>>

\* The child is collected; its script is unregistered but stays on disk.
SerialWait ==
    /\ pc = "wait"
    /\ job[ix] = "exited"
    /\ job' = [job EXCEPT ![ix] = "reaped"]
    /\ LET code == WEXITSTATUS(status[ix]) IN
         ret' = IF code > ret THEN code ELSE ret
    /\ NextJob(ret')
    /\ UNCHANGED <<cfg, processes, usedProcesses, processIx, status, scripts>>

\* mb_exec returns 0 when the script cannot be written, for WEXITSTATUS(1) is
\* 0, and when fork fails, for then waitpid(-1) fails and leaves ret alone.
SerialExecFails ==
    /\ AtJob /\ ~cfg.parallel
    /\ \/ "script" \in Faults /\ UNCHANGED scripts
       \/ "fork" \in Faults /\ scripts' = scripts \cup {ix}
    /\ job' = [job EXCEPT ![ix] = "unlaunched"]
    /\ NextJob(ret)
    /\ UNCHANGED <<cfg, processes, usedProcesses, processIx, ret, status>>

-----------------------------------------------------------------------------
(* Parallel execution: _find_process_slot, mb_exec_parallel.               *)

FreeSlots == {p \in Slots : processes[p].pid = None}

\* The lowest slot that was never used (or holds no process) is taken.
FindFreeSlot ==
    /\ AtJob /\ cfg.parallel
    /\ \E p \in FreeSlots :
         /\ \A q \in FreeSlots : p <= q
         /\ processIx' = p
    /\ usedProcesses' = usedProcesses + 1
    /\ dynInput' = "live"
    /\ pc' = "spawn"
    /\ UNCHANGED <<cfg, ix, processes, pix, ret, childVars>>

\* All slots hold a process. process_ix was set to used_processes at the top of
\* the loop body and is only overwritten when a successful child is collected.
NoFreeSlot ==
    /\ AtJob /\ cfg.parallel
    /\ FreeSlots = {}
    /\ processIx' = usedProcesses
    /\ pix' = 0
    /\ dynInput' = "live"
    /\ pc' = "poll"
    /\ UNCHANGED <<cfg, ix, processes, usedProcesses, ret, childVars>>

\* Mistake: one pass over the slots is all the waiting there is.
PollOnePass ==
    /\ pc = "poll"
    /\ pix \in Slots => Waitable(processes[pix].pid) = {}
    /\ pc' = IF pix + 1 \in Slots THEN "poll" ELSE "spawn"
    /\ pix' = IF pix + 1 \in Slots THEN pix + 1 ELSE 0
    /\ UNCHANGED <<cfg, ix, processes, usedProcesses, processIx, ret,
                   childVars, dynInput>>

\* waitpid(..., WNOHANG) <= 0: the child still runs, or there is no such child.
PollBusy ==
    /\ pc = "poll"
    /\ pix \in Slots => Waitable(processes[pix].pid) = {}
    /\ pix' = IF pix + 1 \in Slots THEN pix + 1 ELSE 0
    /\ UNCHANGED <<cfg, pc, ix, processes, usedProcesses, processIx, ret,
                   childVars, dynInput>>

\* Mistake: the script of a successful child is not removed.
PollSuccessKeepsScript ==
    /\ pc = "poll" /\ pix \in Slots
    /\ \E j \in Waitable(processes[pix].pid) :
         /\ WEXITSTATUS(status[j]) = 0
         /\ job' = [job EXCEPT ![j] = "reaped"]
    /\ processIx' = pix
    /\ pc' = "spawn"
    /\ UNCHANGED <<cfg, ix, processes, usedProcesses, pix, ret, status, scripts,
                   dynInput>>

\* Mistake: process_ix is left at used_processes.
PollSuccessForgetsSlot ==
    /\ pc = "poll" /\ pix \in Slots
    /\ \E j \in Waitable(processes[pix].pid) :
         /\ WEXITSTATUS(status[j]) = 0
         /\ job' = [job EXCEPT ![j] = "reaped"]
    /\ scripts' = scripts \ {processes[pix].location}
    /\ pc' = "spawn"
    /\ UNCHANGED <<cfg, ix, poolVars, ret, status, dynInput>>

\* A successful child is collected: its script goes, its slot is free.
PollSuccess ==
    /\ pc = "poll" /\ pix \in Slots
    /\ \E j \in Waitable(processes[pix].pid) :
         /\ WEXITSTATUS(status[j]) = 0
         /\ job' = [job EXCEPT ![j] = "reaped"]
    /\ scripts' = scripts \ {processes[pix].location}
    /\ processIx' = pix
    /\ pc' = "spawn"
    /\ UNCHANGED <<cfg, ix, processes, usedProcesses, pix, ret, status, dynInput>>

\* Mistake: a failed child does not end the search.
PollFailureGoesOn ==
    /\ pc = "poll" /\ pix \in Slots
    /\ \E j \in Waitable(processes[pix].pid) :
         /\ WEXITSTATUS(status[j]) # 0
         /\ job' = [job EXCEPT ![j] = "reaped"]
    /\ UNCHANGED <<cfg, pc, ix, poolVars, ret, status, scripts, dynInput>>

\* A failed child is collected: the search ends without naming a slot, and the
\* exit code becomes the result, or is dropped under -k.
PollFailure ==
    /\ pc = "poll" /\ pix \in Slots
    /\ \E j \in Waitable(processes[pix].pid) :
         /\ WEXITSTATUS(status[j]) # 0
         /\ job' = [job EXCEPT ![j] = "reaped"]
         /\ \/ /\ ~cfg.ignoreFailures
               /\ ret' = WEXITSTATUS(status[j])
               /\ NextJob(ret')
            \/ /\ cfg.ignoreFailures
               /\ pc' = "spawn"
               /\ UNCHANGED <<ix, pix, ret, dynInput>>
    /\ UNCHANGED <<cfg, processes, usedProcesses, processIx, status, scripts>>

\* mb_exec_parallel: the script is written, the child forked; each may fail.
MbExecParallel(process) ==
    \/ /\ process = [pid |-> ix, location |-> ix]
       /\ job' = [job EXCEPT ![ix] = "running"]
       /\ scripts' = scripts \cup {ix}
    \/ /\ "script" \in Faults
       /\ process = EmptySlot
       /\ job' = [job EXCEPT ![ix] = "unlaunched"]
       /\ UNCHANGED scripts
    \/ /\ "fork" \in Faults
       /\ process = [pid |-> Any, location |-> ix]
       /\ job' = [job EXCEPT ![ix] = "unlaunched"]
       /\ scripts' = scripts \cup {ix}

Spawn ==
    /\ pc = "spawn" /\ processIx \in Slots
    /\ \E process \in Process :
         /\ MbExecParallel(process)
         /\ processes' = [processes EXCEPT ![processIx] = process]
    /\ NextJob(ret)
    /\ UNCHANGED <<cfg, usedProcesses, processIx, ret, status>>

\* processes[process_ix] lies behind the end of the array: the write is
\* undefined, the outcomes are a lost child and the end of mb.
SpawnOutOfBounds ==
    /\ pc = "spawn" /\ processIx \notin Slots
    /\ \E process \in Process : MbExecParallel(process)
    /\ \/ NextJob(ret)
       \/ pc' = "aborted" /\ UNCHANGED <<ix, pix, dynInput>>
    /\ UNCHANGED <<cfg, processes, usedProcesses, processIx, ret, status>>

\* _prepare_exec frees the string strerror returned, which was not allocated:
\* instead of going on, the C library may end mb here.
ScriptErrorAborts ==
    /\ "script" \in Faults
    /\ \/ AtJob /\ ~cfg.parallel
       \/ pc = "spawn"
    /\ pc' = "aborted"
    /\ UNCHANGED <<cfg, ix, poolVars, ret, childVars, dynInput>>

-----------------------------------------------------------------------------
(* The cleanup loop, and the children.                                     *)

InCleanup == pc = "cleanup" /\ usedProcesses # 0 /\ pix \in Slots

\* Mistake: the cleanup loop does not wait for a child that still runs.
CleanupNoWait ==
    /\ InCleanup
    /\ pix' = pix + 1
    /\ scripts' = scripts \ {processes[pix].location}
    /\ UNCHANGED <<cfg, pc, ix, processes, usedProcesses, processIx, ret,
                   job, status, dynInput>>

\* An unused slot, or waitpid fails at once: its child was collected before.
CleanupSkip ==
    /\ InCleanup
    /\ \/ processes[pix].pid = None
       \/ processes[pix].location = None
       \/ Awaited(processes[pix].pid) = {}
    /\ pix' = pix + 1
    /\ UNCHANGED <<cfg, pc, ix, processes, usedProcesses, processIx, ret,
                   childVars, dynInput>>

\* Mistake: the exit codes seen during cleanup are ignored.
CleanupReapDropsCode ==
    /\ InCleanup
    /\ processes[pix].location # None
    /\ \E j \in Waitable(processes[pix].pid) :
         job' = [job EXCEPT ![j] = "reaped"]
    /\ scripts' = scripts \ {processes[pix].location}
    /\ pix' = pix + 1
    /\ UNCHANGED <<cfg, pc, ix, processes, usedProcesses, processIx, ret,
                   status, dynInput>>

\* The blocking waitpid returns: the last failure seen becomes the result.
CleanupReap ==
    /\ InCleanup
    /\ processes[pix].location # None
    /\ \E j \in Waitable(processes[pix].pid) :
         /\ job' = [job EXCEPT ![j] = "reaped"]
         /\ LET code == WEXITSTATUS(status[j]) IN
              ret' = IF code # 0 THEN code ELSE ret
    /\ scripts' = scripts \ {processes[pix].location}
    /\ pix' = pix + 1
    /\ UNCHANGED <<cfg, pc, ix, processes, usedProcesses, processIx, status,
                   dynInput>>

\* Mistake: after a failure the cleanup loop is skipped.
ReturnOnFailure ==
    /\ pc = "cleanup"
    /\ usedProcesses = 0 \/ pix \notin Slots \/ ret # 0
    /\ pc' = "returned"
    /\ UNCHANGED <<cfg, ix, poolVars, ret, childVars, dynInput>>

Return ==
    /\ pc = "cleanup"
    /\ usedProcesses = 0 \/ pix \notin Slots
    /\ pc' = "returned"
    /\ UNCHANGED <<cfg, ix, poolVars, ret, childVars, dynInput>>

\* A child ends, with an exit code or by a signal.
ChildExit(j) ==
    /\ job[j] = "running"
    /\ \E s \in ExitCodes \cup (IF "kill" \in Faults THEN {Killed} ELSE {}) :
         status' = [status EXCEPT ![j] = s]
    /\ job' = [job EXCEPT ![j] = "exited"]
    /\ UNCHANGED <<cfg, pc, ix, poolVars, ret, scripts, dynInput>>

\* Nothing is left to happen.
Terminated == pc \in Ended /\ (\A j \in Jobs : job[j] # "running") /\ UNCHANGED vars

Mb ==
    \/ Setup \/ SetupFails \/ FormatFails \/ Skip \/ LoopDone
    \/ SerialExec \/ SerialWait \/ SerialExecFails
    \/ FindFreeSlot \/ NoFreeSlot \/ PollBusy \/ PollSuccess \/ PollFailure
    \/ Spawn \/ SpawnOutOfBounds \/ ScriptErrorAborts
    \/ CleanupSkip \/ CleanupReap \/ Return

Next == Mb \/ (\E j \in Jobs : ChildExit(j)) \/ Terminated

Spec == Init /\ [][Next]_vars

\* mb is never blocked by the scheduler for good, and every script ends.
FairSpec == Spec /\ WF_vars(Mb) /\ \A j \in Jobs : WF_vars(ChildExit(j))

-----------------------------------------------------------------------------
(* Properties.                                                             *)

Code(j) == WEXITSTATUS(status[j])
Failed  == {j \in Jobs : job[j] = "reaped" /\ Code(j) # 0}

\* There are never more children than max_procs allows, one in serial mode,
\* not even after the out-of-bounds write of a failure under -k.
BoundedChildren ==
    Cardinality(Live) <= IF cfg.parallel THEN cfg.maxProcs ELSE 1

\* Without -k the slot chosen by _find_process_slot lies inside the array.
SlotInBounds ==
    pc = "spawn" /\ ~cfg.ignoreFailures => processIx \in Slots

\* Without -k every child was waited for when run_singular returns, so that the
\* next rule never runs beside an unfinished one.
ReapedAtReturn ==
    pc = "returned" /\ ~cfg.ignoreFailures => Live = {}

\* Without -k the result 0 means that every element was up to date or that its
\* script exited with 0. (It says nothing of a script that could not be started
\* or was killed: the code takes both for a success.)
SuccessMeansBuilt ==
    pc = "returned" /\ ret = 0 /\ ~cfg.ignoreFailures =>
        /\ Failed = {}
        /\ \A j \in Jobs : job[j] \in {"uptodate", "unlaunched", "reaped"}

\* No element of the list was looked at.
Unstarted == \A j \in Jobs : job[j] = "pending"

\* A serial rule returns the highest exit code of its scripts, under -k too, or
\* fails before it has looked at its list.
SerialVerdict ==
    pc = "returned" /\ ~cfg.parallel =>
        /\ \A j \in Jobs : job[j] = "reaped" => Code(j) <= ret
        /\ ret # 0 => (\E j \in Failed : Code(j) = ret) \/ Unstarted

\* No script file is removed while the shell may still be reading it.
RunningScriptKept == Live \subseteq scripts

\* A parallel rule whose scripts could all be started leaves none behind but
\* those of failed children.
LeftoverFailed ==
    pc = "returned" /\ cfg.parallel /\ ~cfg.ignoreFailures =>
        \/ scripts \subseteq Failed
        \/ \E j \in Jobs : job[j] = "unlaunched"

\* Without -k and with at least one slot, run_singular comes to an end if the
\* scripts do: polling always has a child to wait for. Only a failed fork may
\* stop it, whose slot can be freed by nothing but somebody else's child.
Termination ==
    ~cfg.ignoreFailures /\ (cfg.parallel => cfg.maxProcs > 0) =>
        <>(pc \in Ended \/ \E p \in Slots : processes[p].pid = Any)

\* What the callers of run_singular are promised (JobPool): never more children
\* than allowed, none started twice, and without -k none after a failure was
\* seen and none left at the return.
Pool == INSTANCE JobPool WITH
    bound    <- IF cfg.parallel THEN cfg.maxProcs ELSE 1,
    failFast <- ~cfg.ignoreFailures,
    running  <- Live,
    ended    <- {j \in Jobs : job[j] = "reaped"},
    failed   <- Failed,
    closed   <- pc = "returned"

ImplementsJobPool == Pool!Spec

-----------------------------------------------------------------------------
(* What the documentation says, and the code does not do.                  *)

\* Comment of _find_process_slot: once the process of a slot has exited, "The
\* script will be deleted from the system".
FreedSlotScriptDeleted ==
    cfg.parallel => \A j \in scripts : job[j] # "reaped"

\* Comment in run_singular: the dynfields are reset before it returns, so that
\* mcfg_free_file does not free their data a second time.
NoFreedDynfields ==
    pc \in {"returned", "fmt_error"} => dynInput # "freed"

\* -k: "Ignore any failures (if possible) and keep on building". When the
\* scripts end, so does the rule.
KeepsBuilding == cfg.ignoreFailures => <>(pc = "returned")
=============================================================================
