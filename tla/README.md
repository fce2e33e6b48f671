# A verification project for mariebuild

mariebuild (`mb`) is a build tool written in C. It reads a build file in the
MCFG/2 format, picks a *target*, builds the targets it requires, fulfils the
*compilation rules* (`c_rules`) it lists and runs its `exec` script. A rule runs
one shell script per element of a list (`singular`), one after the other or up
to `max_procs` at a time, or one script for all inputs (`unify`).

This directory holds TLA+ modules translated from the C sources under
`src/src/`, the TLC configurations that check them on small instances, and
TLAPS proofs that hold for every value of the constants. `PROJECT.json` lists
the runs, the mutants that show that each property can be broken, the source
lines behind every definition, and the hazards the properties are aimed at.

## 1. Inventory

`mb` is a single-threaded process. What makes it hard is not threads but
**child processes** that end in any order while the parent polls a table of
them, **recursion over user data** (targets requiring targets, rules requiring
rules) with manual ownership of strings, **global state** that is linked and
unlinked on the way (dynfields, temporary files), **failures** at every step
with two policies (stop, or `-k` keep going), and **signals** that run a handler
in the middle of all this. There are no tests in the repository.

| Component | Source | State | Operations | Talks to | What makes it correct |
|---|---|---|---|---|---|
| Command line | `main.c` | `args_t` | `parse_opt`, `main` | build entry, signals | the last word of an option counts, and outweighs the build file |
| Build entry, configuration | `build.c` | `default_config`, `config_t` | `mb_start`, `mb_load_configuration`, `check_file_validity`, `mb_begin_build` | parser (external), targets | an undeclared target is refused; the list of public targets is destroyed by exactly one owner |
| Targets | `target.c` | the C stack, `target_history`, `file->dynfields` | `mb_run_target`, `run_required_targets`, `link_target_fields`, `unlink_target_fields`, `remove_dynfield` | rules, executor, pointer list | cycles are found; required targets first; dynfields are unlinked by whoever linked them |
| Rule recursion | `c_rule.c` | the C stack | `mb_run_c_rules`, `mb_run_c_rule` | rule bodies | required rules first; no failure lost |
| Singular rules | `c_rule.c` | `processes`, `used_processes`, `process_ix`, `ret`, three dynfields | `run_singular`, `_find_process_slot` | executor, kernel (`fork`, `waitpid`) | bounded children, every child reaped, no failure lost, scripts cleaned up |
| Unify rules | `c_rule.c` | three dynfields | `run_unify` | executor | the script gets every input its output lacks |
| Out-of-date test | `c_rule.c` | modification times, in seconds | `is_file_newer`, `get_io_fields` | file system | nothing out of date is skipped, nothing is made in vain; lists are read in bounds |
| Script executor | `executor.c` | `script_counter`, files in `/tmp` | `mb_exec`, `mb_exec_parallel`, `mb_remove_script` | kernel, signals | a script stays, unchanged, until the shell has ended; names are distinct, between runs of `mb` too |
| Signals | `signals.c` | `tmp_files`, `initialised` | `mb_signal_generic_handler`, `mb_register_tmp_file`, `mb_unregister_tmp_file` | executor, pointer list | the handler removes the scripts that exist and nothing else |
| Pointer list | `cptrlist.c` | `CPtrList` and the heap | init, append, insert_or_append, find, free_at, free, destroy | targets, configuration, signals | no item is freed twice or read after it was freed |
| Lookup tables | `types.c` | none | `str_to_build_type`, `str_to_exec_mode` | configuration, rules | unknown names give the fallback |
| Logging, helpers | `logging.c`, `stringutil.c`, `xmem.h` | `mb_log_level` | | all | no level silences the errors |

The MCFG library (`src/include/mcfg*.h`) is used as a binary; only its headers
are in the repository. The models take from it what its callers rely on:
`mcfg_add_dynfield` refuses a name that is registered, `mcfg_get_section`
returns NULL for a name that is not declared.

## 2. The modules

### RunSingular and JobPool: the process table

`RunSingular` is one call of `run_singular` with everything it calls. `pc` names
the places where the call waits for, or observes, something that can change
under it:

| `pc` | place in the code | actions |
|---|---|---|
| `setup` | field validation, `XCALLOC` of the table | `Setup`, `SetupFails` |
| `iterate` | head of the loop over the output list | `FormatFails`, `Skip`, `LoopDone`, `SerialExec`, `SerialExecFails`, `FindFreeSlot`, `NoFreeSlot`, `ScriptErrorAborts` |
| `wait` | the blocking `waitpid` of `mb_exec` | `SerialWait` |
| `poll` | the `while (!found)` loop of `_find_process_slot` | `PollBusy`, `PollSuccess`, `PollFailure` |
| `spawn` | `processes[process_ix] = mb_exec_parallel(..)` | `Spawn`, `SpawnOutOfBounds`, `ScriptErrorAborts` |
| `cleanup` | the loop "cleanup remaining child processes" | `CleanupSkip`, `CleanupReap`, `Return` |
| `returned`, `fmt_error`, `aborted` | regular return; `FMT_ERR_CHECK`; ended by the C library | `Terminated` |

`processes`, `used_processes`, `process_ix`, `pix` and `ret` are the C variables.
`job`, `status` and `scripts` are the world: what became of each list element,
the wait status of children that ended, and the script files on disk.
`ChildExit(j)` is a step of the kernel and may happen between any two steps of
`mb`. `dynInput` tells whether the dynfields "input" and "output" point to NULL,
to strings in use or to freed ones.

Modelling choices, all visible in the module:

* A job is its list index and its child's pid is that index. A pid is not used
  again within a call. A failed `fork` gives pid -1, for which `waitpid` accepts
  *any* child, as in POSIX; a failed script file gives the slot `(0, NULL)`.
* The out-of-date test may skip any element (`Skip`), which covers every
  combination of build type, `--force` and modification times. `Incremental` has
  the test itself.
* A child killed by a signal has the status `Killed`, whose `WEXITSTATUS` is 0;
  the code therefore counts it as a success and so does the model.
* The failure branch of `_prepare_exec` passes the string of `strerror` to
  `free`. That is undefined: the model lets `mb` go on or end (`aborted`).
* The write `processes[process_ix]` behind the array (after a failure under
  `-k`) is undefined as well: the child is lost or `mb` ends.
* A second `waitpid` for a child that was collected fails at once, as long as
  the pid was not given to another process.

`JobPool` is what the callers rely on, without the table: at most `bound`
children, no job twice, and without `-k` no start after a failure was seen and
nothing left at the return. `RunSingular` implements it (`ImplementsJobPool`);
`running` is mapped to the children between `fork` and `waitpid`, and `ended` to
the collected ones.

### Target: the recursion over targets

`Target` models `mb_begin_build`, `mb_run_target`, `run_required_targets` and
the linking of `target_` fields. The C stack is `stack`, a sequence of
activations; a frame has the target, its place in the "Target Execution Order",
the index in `required_targets`, `ret`, and the fields it linked. `history` is
`target_history` with the two-step removal at the exit spelt out (the first
entry of that name is freed, then the *last* one is dropped): `Leave` would
leave a freed entry behind if those were different. `dynfields` maps a field
name to the target whose value it has. The rules of a target and its script are
one step each and return any of `Codes`. The inner `int ret` of
`run_required_targets`, which hides the outer one, is kept: under `-k` the code
of a required target is lost in `Resume`.

### CRules: the recursion over rules

`CRules` models `mb_run_c_rules` and `mb_run_c_rule`. A frame is the pair of
calls for one rule. There is no history here, so rules that require each other
in a circle recurse until the stack of the process is full; `MaxDepth` stands
for its size, and `pc = "overflow"` for its end. `fulfilled` and `spoiled` are
history variables. A `c_rules` field of the wrong type, which the code ignores,
is the empty list. A file without any rule is refused at once, even for an empty
list (`Init`).

### CPtrList and Signals: the temporary scripts

`CPtrList` has the operations of the pointer list as operators on a record
(`capacity`, `size`, `items`), with `size_t` arithmetic that wraps behind
`SizeMax`. The two assignments of `cptrlist_append` and the two effects of
`cptrlist_free_at` are operators of their own, because the signal handler can
see the list between them.

`Signals` is the executor's use of that list. Its main flow writes a script
(`Write`, which allocates its name), forks (`ForkParallel` before the
registration, `ForkSerial` after it, as `mb_exec_parallel` and `mb_exec` do),
registers it (`Strdup`, `Grow`, `Append`), and when the child has ended
(`WaitSerial`, `Collect`) unregisters it (`Unregister`, `FreeItem`, `DropLast`)
and frees the name (`Release`). Children of a parallel rule are collected in any
order, and one that failed may be collected without any of this (`Forget`, see
the first finding): `RunSingular` shows that both happen.

The heap is explicit: `allocated` is the set of addresses in use, `mem` what can
be read at each. `Malloc` returns any address that is not in use; `Free` may
overwrite what was there or leave it. So memory that a stale list entry still
points to may come to hold another script's name. Freeing an address that is
not in use ends `mb` or goes unnoticed (`DoubleFree`).

`Signal` may happen before every step of the main flow. The handler removes one
file per step; it may itself be interrupted (`SignalAgain`). The sources are
compiled with `-std=c17` and `_XOPEN_SOURCE`, for which `signal` has System V
semantics: a handler is uninstalled when it is called, so the same signal again
ends `mb` at once, and each of the `Handled` signals runs the handler at most
once. While `realloc` has freed the old array and the new one is not assigned
(`grow`), the handler reads freed memory and may miss anything (`RemoveTorn`).
The order of the two assignments in `cptrlist_append` is the compiler's choice,
so both are possible.

### Incremental: edits and builds

`Incremental` is the life of one rule over any sequence of edits, cleanings and
builds. Its world is a clock in ticks, of which several make a second, the tick
of each input's last edit (`inTime`), and for each output when it was written
and which version of each input it was made from (`out`). `IsFileNewer` has what
the code makes of two times: whole seconds, stored in an `int`, compared with
`>`, and "newer" if either file cannot be opened.

The lists a rule names are kept as they are in the build file (`Field`: a list,
no field, a path that leads nowhere, another type, no data), and `InputField`,
`OutputField` and `GetIoFields` are `get_io_fields`. A build (`Start`, with any
combination of build type, `--force` and `-k`) walks over the list that
`run_singular` or `run_unify` walks over; `Skip`, `Collect`, `ExecSingular`,
`ExecUnify` and `LoopEnds` are the branches, `Fails` any of the early returns.
Reading behind a list, and reading a field as a list that is none, end in
`"undefined"`. The script is the user's, so `ScriptEnds` has what is usual: it
reads its inputs at its start and writes its output at its end, or fails before
it wrote or after. A unify script makes its output anew, as a linker does, or
replaces members of it, as `ar` does (`archive`). Scripts of a rule run one at a
time here; `RunSingular` has them in parallel.

`during`, `late` and `broken` are history variables that name the exceptions.

### FrontEnd: from the command line to the target

`FrontEnd` is `main` and `mb_start`: options are parsed one after the other, the
log level is set, the build file is parsed and checked, the configuration is
loaded, the target run (any code, see `Target`), and the list of public targets
destroyed. A build file is the record of the fields that are looked up.
`lists` follows the two lists that may be allocated through their owners
(`default_config`, its copies `fallback` and `ret`, and `cfg`, which share the
pointers): `Destroyed` counts. `StrToBuildType` returns a set: for an unknown
name the loop reads behind its table, whose size is counted in bytes, and may
find any value, none, or end `mb`. `CrashOnField` has the fields that are used without
a look: a `targets` that is no list or has no data, a `default` that is no string.
`Crash` also ends `mb` while a target is run, for which the other modules have the
causes. A build that meets a format error may leave dynfields that point to freed
strings (`dangling`, the second finding): `mcfg_free_file` in `Finish` then frees
them again, and `mb` goes on or ends.

### ScriptFiles: the files scripts run from

`ScriptFiles` has several runs of `mb` that share `/tmp`. A name is the pid and
the counter in digits, a dot and the name of the rule or target, cut off to the
size the code computes (`Room`); `Base` and `IntMax` are constants, so that the
cut is in reach. `files` maps a name to whose script stands at each position:
the file is opened without `O_TRUNC`, so `Overwrite` leaves the end of a longer
one. `PrepareExec` and `Fork` are two steps, since `mb` may be killed between
them. `Ends` is any end of a run: regular, killed, or by the signal handler,
which removes some or all files (`Signals` has its steps); scripts that run go
on as orphans, and the pid is free for the next run.

How they fit together: `RunRules` of `Target` is one run of `CRules` (whose
initial state lists the target's rules), and `RunBody` of `CRules` is one run of
`RunSingular` (or of `run_unify`, the unify rules of `Incremental`). `FrontEnd`
calls `Target`. The caller sees only a return code in 0..255;
the larger module takes any such code, so it holds for whatever the smaller one
does.

## 3. The runs

| Run | Module, configuration | Question | Bounds |
|---|---|---|---|
| `singular` | MCRunSingular, MCRunSingular.cfg | Are children bounded, table accesses in range, every child reaped, failures reported, scripts kept while they run, whatever fails? Does the call implement JobPool, does it end without -k, and what does it leave in /tmp? | 4 jobs; serial, parallel with 0, 1, 2 slots; with and without -k; all faults; codes 0, 1, 2 |
| `target` | MCTarget, MCTarget.cfg | History, dynfields, order, cycles, -k, termination of the target recursion | 3 targets, a missing one, lists of length 0 to 2; 2 fields; codes 0, 1, 2 |
| `c_rules` | MCCRules, MCCRules.cfg | Order, verdict and depth of the rule recursion | 3 rules, a missing one, lists of length 0 to 2; stack of 6 activations |
| `signals` | MCSignals, MCSignals.cfg | What does the handler leave behind, when is the heap intact, does a signal end `mb`? | 3 scripts, 2 at a time, 4 addresses, 2 signals; a list that starts with 1 item and grows by 2 |
| `incremental` | MCIncremental, MCIncremental.cfg | What is on disk after any sequence of edits and builds? Which scripts run, on which inputs? Are the lists read in bounds? | 2 inputs; 5 ticks, 2 to a second, an `int` that holds the seconds up to 1; every kind of field in rules with one list, and those with two |
| `front_end` | MCFrontEnd, MCFrontEnd.cfg | Who wins, the command line or the file? Who destroys the lists? When is the exit code 0? | 2 options of 8; 776 build files: every combination of fields that are missing, of the wrong type, unknown or valid |
| `script_files` | MCScriptFiles, MCScriptFiles.cfg | Does each script run from a file of its own, unchanged? | 2 runs of `mb`, with up to 5 and 1 scripts, 2 at a time, of 2 lengths; 2 pids; binary digits |
| `free_at_comment` | MCSignals, MCFreeAt.cfg | *violated*: the comment of `cptrlist_free_at` | the same |
| `slot_comment` | MCRunSingular, MCSlotComment.cfg | *violated*: the comment of `_find_process_slot` | 3 jobs, 2 slots |
| `dynfield_reset` | MCRunSingular, MCDynfields.cfg | *violated*: the comment on resetting dynfields | 3 jobs, serial, a format error |
| `keep_going` | MCRunSingular, MCKeepGoing.cfg | *violated*: the help text of -k | 4 jobs, 2 slots |
| `target_fields` | MCTarget, MCTargetFields.cfg | *violated*: the comment on target_ fields in `build.mb` | 3 targets in fixed shapes |

Why the bounds suffice. In `singular`, 4 jobs on 2 slots let every slot be used,
reused after a success, and found failing while another child still runs, with
a job left to be started afterwards; with one slot the same slot is reused
twice; with none the loop never finds one. Codes 1 and 2 tell "the last failure"
from "the highest". In `target`, lists of two names over three targets contain
chains, diamonds, repeated names, a missing name before and after a declared
one, and cycles of length one, two and three, below the first target and through
it; with two fields, one of them declared by a target and one it requires. In
`c_rules`, 6 activations are more than 3 rules need without a cycle, and few
enough to be exhausted with one.

In `signals`, two scripts at a time end in both orders and leave a stale entry in
front of a live one; the third script then gets memory that this entry points
to, for its name or for its copy; 4 addresses hold the names and copies of two
scripts. The list is full when the second script is registered, so that it is
resized, and again not when the third is. With two signals one handler can be
interrupted by another and by the same signal.

In `incremental`, five ticks are three seconds: two edits in one second with an
output written between them, in the next, and one in a second that does not fit
the `int` are all there, as is a build between any two of them. One element
would do for singular rules; two are needed for a unify rule to relink with only
one of them, for lists of different length, and for one that has an output
twice. The run needs 3.6 million states.
In `front_end`, two options show which of two that disagree wins, and one before
and after an unknown one. In `script_files`, pids of one and of two digits are
given to either run, so that one name fits and the other is cut; the fifth
script of a run is the first whose counter loses a digit; a second run with one
script is enough to meet whatever the first left, running or not, and either run
may come first.

What the runs show, beyond the invariants' wording:

* `BoundedChildren`, `SlotInBounds`, `ReapedAtReturn`, `SuccessMeansBuilt` and
  `LeftoverFailed` together say that a rule without `-k` neither overloads the
  machine nor loses a child or a failure, however the children end. With `-k`
  only the bound on children remains true; see the findings.
* `RunningScriptKept` holds with failed forks too: removing a script and
  collecting its child cannot be told apart by any interleaving.
* `SuccessMeansAcyclic` relates the recursion's bookkeeping to the graph it
  walks: success without `-k` proves that the visited part has no cycle.
* `KeepGoingTriesAll`: under `-k`, which loses result codes, no needed target is
  left out.
* `HandlerCleans`: stale entries, freed and reused memory and the compiler's
  choices notwithstanding, the handler finds every script that was registered.
  What it leaves is exactly: the script in the few steps around its registration,
  scripts of serial rules (`mb_exec` never removes its script, signal or not),
  and, in the one step inside `realloc`, anything.
* `SerialHeapSafe` shows that a parallel rule is needed for the heap to be
  damaged; the fifth finding says how it then is.
* `UpToDate` says how far a successful incremental build can be trusted. Its
  exceptions are all real (leaving out any one gives a counterexample): an edit
  in the second in which an output was written, or while a build was running; an
  output left behind by a script that failed after writing it, which the next
  build takes for good; times after 2038; and unify rules whose script makes its
  output anew, for which a relink is handed only the inputs that are newer. That
  is why the rule `executable` of `build.mb` has `build_type` `full`.
  `ForcedIsUpToDate` shows that a full or forced build has none of them but
  edits made while it runs, and `ScriptInputs` that an incremental one does no
  work twice.
* `OneListIsSafe`: get_io_fields looks for outputs under `input_src` even if the
  inputs come from `input`, and `output_src`, which `build.mb` sets, is not read
  by the code at all. A rule that names one list is safe; with two, lists of
  different length, or a field that is no list, are read as they are.
* `ListsFreedOnce` and `CommandLineWins`: the three ways through
  `mb_load_configuration` leave exactly one owner, and doc/mariebuild.md:17 is
  right about the order in which targets are looked for. The list of public
  targets itself is never looked at when a target is chosen. `-f` and `-k` take
  effect wherever they stand, and come from the command line alone.
* `ZeroMeansRun`: whoever calls `mb` in a script can rely on exit code 0 as far as
  this: every option was understood, the file was read, and the target the command
  line or the file asks for is declared and was run. What the run is worth is said
  by `SuccessMeansAcyclic`, `SuccessMeansFulfilled` and `SuccessMeansBuilt`, all
  without `-k`. Undefined behaviour ends in `crashed`, of which nothing is promised.
* `RunsOwnScript`, `PathsDiffer` and `RunningFileKept`: files of two runs of
  `mb` never meet while both run. They do meet when a pid is used again: a
  shorter script is then run together with the end of the older, longer one,
  which `mb_exec` always leaves behind. `RunsOwnScript` says that this is all that
  can stand behind a script: never a piece of another script of the same run, or
  of a run with another pid. A counter is cut off only behind a pid that is long,
  and after more scripts than a build has. `ScriptFiles` follows regular builds:
  under `-k`, a rule that runs scripts one at a time may follow a parallel one that
  met a format error and left its children running, which is not in it.
* `SerialVerdict`: a serial rule returns the highest exit code of its scripts, that
  of the first one included when it stops the rule; only a setup that fails, before
  any element was looked at, returns a code that no script has.
* `FailureReported` shows that the rule recursion, unlike the target recursion,
  does not lose codes under `-k`.

### Fairness

Safety runs use `Spec`. Termination is checked under `FairSpec`: weak fairness
of `Mb` (the process `mb` is scheduled; there is at most one thread and each of
its steps is finite), and of each `ChildExit(j)`, that is, every script ends.
The latter is an assumption on the user's scripts: `mb` has no timeout, and a
script that never ends keeps `mb` waiting for good. No fairness is assumed of
individual branches: that a particular skip or fault happens is never required.
`Target` and `CRules` use `WF_vars(Next)`: rules and scripts come back, which is
what `Termination` of `RunSingular` shows for rules under its assumptions.
`Incremental`, `FrontEnd` and `ScriptFiles` have no liveness property and no
fairness: their loops are bounded by lists, and what else they wait for is
another module's (`Target`, `RunSingular`).

`Termination` of `RunSingular` leaves out what the code really does not
guarantee: with `max_procs` 0 a parallel rule polls an empty table for ever;
after a failed `fork` a slot with pid -1 may be all that is left to poll, and
only somebody else's child frees it (the property ends where such a slot
appears); under `-k` see the third finding.

`Signals` assumes fairness of the handler's steps only; that signals arrive, or
that the build makes progress, is not assumed. `HandlerEnds` holds although
signals may keep coming, because there are only `Handled` of them to restart the
removal.

### Findings

1. `_find_process_slot` (c_rule.c:326) breaks before `mb_remove_script` when
   the child it collected failed, and the cleanup loop cannot wait for that
   child again: its script stays in `/tmp`, although the comment at c_rule.c:292
   says that it is deleted. `LeftoverFailed` shows that nothing else is left.
2. `FMT_ERR_CHECK` (c_rule.c:450) returns without resetting the dynfields, which
   from the second iteration on point to freed strings; the comment at
   c_rule.c:506 explains why they must be reset. `mcfg_free_file` (build.c:153),
   or the next rule, frees them again.
3. Under `-k`, after a child of a parallel rule failed, the slot index is the
   length of the table (c_rule.c:491): `mb` may be ended, or lose the child and
   then poll for ever. The help text promises to "keep on building".
4. A required target that declares a `target_` field that the target around it
   declares as well is built with the other's value (target.c:63); the comment
   at build.mb:81 promises its own.

5. `cptrlist_free_at` (cptrlist.c:125) leaves the freed pointer in the list,
   although cptrlist.h:78 says that it sets the slot to NULL. In `Signals` this
   goes on to a double free: when the memory is given to the name of a later
   script (`create_name`), the search for that name accepts the stale entry,
   because the addresses are equal, `mb_unregister_tmp_file` frees the name
   instead of its copy, and the executor frees it once more (`Release` with
   `DoubleFree`). It takes one parallel rule whose children do not end in the
   reverse order of their start, and any script after it.

Smaller disagreements met on the way, without a run of their own: the help text
and doc/mariebuild.md:15 give the levels as 0 to 3 and call 3 "only errors",
whereas `LOG_ERROR` is 4; `-v` with a text that is no number is level 0;
doc/mariebuild.md:24 requires three sectors, `check_file_validity` one. In
`run_singular` the length of the dynfield "element" is taken from `raw_in` while
its data is `raw_out` (c_rule.c:455).

## 4. The proofs

Every invariant and every action property that a passing run checks, and the
refinement of `JobPool`, is a theorem here: proved for every value of the
constants that satisfies the named assumptions (`NumJobsAssumption`,
`ConfigsAssumption`, ... in the modules), and for every fault. Where a theorem
has a hypothesis of its own, it is said below. Each proof module has one or two
inductive invariants; TLC checked them on the runs' instances before they were
proved. The proof that a step keeps them has a step per action.

**RunSingularProofs.** Two invariants, one for the table and one for the work.
The first is `Inv == TypeInv /\ BoundInv /\ SlotInv`.

* `TypeInv` adds to `TypeOK` where the call has a current job and in which mode
  (`Control`). It gives `TypeCorrect`.
* `BoundInv`: `BoundedChildren` alone is not inductive, because nothing in it
  says that there is room for one more child when `Spawn` happens. The invariant
  counts table slots instead: there are never more live children than slots with
  a pid (`Held`), and when a child is about to be started either its slot is an
  unused one or there is one live child less than slots held, since one was just
  collected. The latter also covers the out-of-bounds write under `-k`, which
  only follows the collection of a child. It gives `ChildrenBounded`.
* `SlotInv`: a slot without a location has no pid, a table that was never used is
  empty, and, without `-k`, `Tracked`: every live child is in some slot, the slot
  chosen for the next child holds none that lives, the cleanup loop leaves none
  behind it, and none is left at the return. It gives `AllReaped` and
  `TableInBounds`. Pids of -1 make the step for `waitpid` delicate: such a slot
  may collect another slot's child, which is then found gone (`CleanupSkip`).

The second is `WorkInv`: the list is worked through in order (`Progress`); a slot
names one job twice, unless `fork` failed for it and its pid is the wildcard of
`waitpid` (`SlotOwners`); without `-k` a script stays only if its child lives or
failed, until the first job whose script could not be started (`ScriptsOwned`);
and what `ret` says of the codes so far (`Verdict`, `Highest`). `SlotOwners` is
what `ScriptKept` turns on: the script that is removed is the one of the slot,
and the child that was collected need not be. With `Inv` it gives
`SuccessCorrect`, `SerialCorrect` and `LeftoverCorrect`.

`PoolImplemented` is the refinement: each action of `RunSingular` does one of
four things to the jobs (`Kept`, `Takes`, `Reaps`, `Exits`), and each of these is
a step or a stutter of `JobPool`. That `Start` finds room is what `BoundInv` is
for, that nothing is started after a failure was seen is `Verdict`, and that
`Close` leaves nothing behind is `SlotInv`.

**TargetProofs.** The first invariant is `TypeOK /\ HistoryIsStack /\
DynfieldsOwned`. The two last ones need each other: that unlinking takes only
the top target's fields (`ExitInv`) follows from the names on the stack being
distinct, and distinctness from the look at the history when a target is
entered (`EnterInv`). `ExitHistory` is the central lemma: the two removals of the
exit hit the same entry. `DepthBounded` follows by injecting the stack into the
set of targets, so the recursion over targets cannot overflow the process stack
on its own account, however circular the build file is.

The second, `OrderInv`, is about order. The stack is a path along
`required_targets` (`Linked`); a frame that has not failed is past entries that
were built, and under `-k` past entries that were entered (`FramesGood`);
without `-k` what was built is closed under `required_targets` and acyclic
(`Built`); under `-k` what was entered is closed but for what is being built
(`Entered`). It gives `RequiredFirstCorrect`, `SuccessIsAcyclic` and
`KeepGoingCorrect`. A target that is added to a closed acyclic set, and is not
required by it, leaves it acyclic: that is why no target needs to be looked at
twice.

**CRulesProofs.** `Inv`: the stack is a path along the required rules
(`Linked`); something failed exactly if some loop still holds a failure
(`NothingLost`); and the entries that a loop without a failure, and without one
in a loop inside it, is past are fulfilled (`PastFulfilled`). The proviso is
needed because a rule may be run again further in and fail this time. The
theorems are `FailureCorrect`, `SuccessCorrect`, `RulesFirstCorrect` and
`DepthCorrect`. The latter assumes `MaxDepth > Cardinality(Rules)`, that the
process stack has room for one activation per rule and the target's own; with
less, a long chain overflows it too. A path with more entries than there are
rules meets one twice (`LongPathIsCircular`).

**FrontEndProofs.** `Inv` follows the options (`Parsed`: `args` holds the last
option of each kind), the two lists (`Owned`: which is live at which `pc`) and
the target (`Chosen`, and `Done`, that 0 is returned only after it was run). The
theorems are `ListsCorrect`, `CommandLineCorrect`, `ZeroCorrect` and
`TypeCorrect`. They assume that `Absent` and `IllTyped` are no names and that `Target` returns codes of a byte, which `TargetProofs` shows.

**CPtrListProofs.** Not about behaviours but about the operators, for every word
size: `NewCapacityExact` (the expression with the complement adds twice the
alignment), `ResizeKeeps` (a resized list has room and lost nothing),
`AppendKeeps` (both orders of the two assignments lead to the same list) and
`FindFirst` (the search returns the first item it is looking for, or -1, which
is below no list's size). Their assumption is that the new capacity is a
`size_t`.

**SignalsProofs.** `Inv` has, besides the types (`TypeInvariant`): the list has at most one entry
for each script written (`Room`), so that with the assumption that the scripts
and two alignments fit a `size_t` it never outgrows one; the names the executor
still needs are where it put them (`Named`), although entries in the list may
not be; each script the handler has to remove is named by some entry, and while
the handler runs by one it has yet to read (`Listed`); and before the first
parallel rule the list has the script that runs, and nothing else (`Alone`).
`Listed` is the heart of it: stale entries, and entries whose memory was given
to another script, may be in the list, be found in place of the right one, and
freed; the scripts that matter keep an entry nonetheless, because the search
compares names, and an entry with the name of the script that ended is no other
script's. It gives `HandlerCorrect`; `Alone` gives `SerialHeapCorrect`.

**IncrementalProofs.** `Inv` is about any time, also between builds
(`Recognised`: an output that is not up to date, by none of the exceptions, is
older than its input by a whole second, or one of them is missing, so that
`is_file_newer` will see it) and about builds (`Made`: the elements dealt with
are up to date, or their input is waiting for the unify script; `AllPassed`,
`Collected`). The arithmetic is in lemmas of its own: `DivMonotone`, and
`MtimeExact`, that a time up to 2038 survives the `int`. The theorems are
`UpToDateCorrect`, `ForcedCorrect`, `OneListCorrect`, `ScriptInputsCorrect`
and `TypeCorrect`. The proof corrected the properties: `UpToDate` and
`ForcedIsUpToDate` were false for a singular rule that lists one output twice,
which the instance did not contain. The second script then replaces what the
first made. They now speak of outputs that no other element writes to
(`OwnOutput`), and the instance has such a list.

**ScriptFilesProofs.** In three layers.

* Numerals. `Digits` is a recursive function; `DigitsRecursion` shows that there
  is one, `DigitsInjective` that two numbers have two numerals, and
  `DigitsMonotone` that a larger number has no fewer digits.
* Names. `PathTellsPid`: however a path is cut off, the pid and the character
  behind it are left, so runs with different pids have different paths.
  `PathTellsCounter`: so have different counters of one run, if neither is cut.
* Behaviours. `Inv` says that every shell's path is a name of its run and of its
  counter (`Forked`), as is the file that is written and not run yet
  (`Prepared`); that every piece of every file is of a script that was written
  under its name (`Written`); and that the files a live run needs are there and
  begin with its script, with nothing behind it but pieces of other runs with its
  pid (`Kept`).
  `FileStays` is the central lemma: a file of a live run whose counter fits is
  left alone by every step of every run but the one that collects its script. It
  gives `FileKeptCorrect`, and with `Written` (what is in a file that is opened has
  its name, so it is of a run with this pid, and of this run only if a counter was
  cut off) `OwnScriptCorrect`. `PathsCorrect` follows from the names alone.

Facts that need induction over data, about numerals here and about the search in
`CPtrListProofs`, are proved without the library's induction theorems: one looks
at the least number for which the fact is wrong (`LeastNumber`, which rests on
`WFMin` and on `<` being well-founded on `Nat`).

**Only model-checked**: liveness, which is beyond the prover here: `Termination`
of `RunSingular`, `Target` and `CRules`, and `HandlerEnds`. The five violations
are counterexamples of TLC. `Acyclic` is defined without recursion, as a
property of all subsets.

## 5. Not modelled

* The parser and the formatter of MCFG: external; a format error is a fault that
  may happen wherever the code checks for one.
* The text of log messages, the splash screen, and the options `-i` and `-n`: no
  state the rest depends on. `xmem.h` ends the program when memory is short.
* `str_to_exec_mode`, which is `str_to_build_type` on another table, and the
  buffer `_append_char` and `_append_str` fill for unify rules.
* A script of a unify rule that fails to expand after the loop, whose early
  return leaves the dynfields as finding 2 says of singular rules.
* The counter of scripts wraps after 2^64; file times set by hand, clocks that
  are set back, and outputs edited by the user.
* `remove_dynfield`'s shifting of the array: the set of registered names is
  kept, not their order.
* The handler in a child between `fork` and `execl`, which would remove the
  scripts on its copy of the list; `insert_or_append`, which has no caller;
  failing allocations.
* NULL list entries, which the code skips with a warning.
* After a `FMT_ERR_CHECK` in a parallel rule the children left behind are shown
  (`fmt_error`), but not how a later rule meets them, or the freed dynfields; in
  `FrontEnd`, `mb` may end at any time while a target is run.
* A `fork` that fails in `ScriptFiles`: for the files it is a script that ends at
  once.

## 6. Plan

Written in this order, most important behaviour first:

1. `RunSingular`, `JobPool`: done, and proved, with the refinement.
2. `Target`: done, and proved.
3. `CRules`: done, and proved.
4. `CPtrList` and `Signals`: done, and proved but for `HandlerEnds`.
5. `Incremental`: done, and proved.
6. `FrontEnd`: done, and proved.
7. `ScriptFiles`: done, and proved.
8. Left: theorems about what a caller takes from the module it calls, such as the
   range of the codes (`Target` and `CRules` take any code, `FrontEnd` assumes a
   byte); what `JobPool` promises by itself, and through the refinement
   `RunSingular`; variants that decrease, as the safety part of the terminations.
