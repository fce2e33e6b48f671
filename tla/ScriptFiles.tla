---------------------------- MODULE ScriptFiles ----------------------------
(***************************************************************************)
(* The files scripts are run from (src/src/executor.c), in a directory all *)
(* runs of mb share: the name is made of the pid and a counter and cut off *)
(* to a fixed size, the file is opened without O_TRUNC, mb_exec leaves it  *)
(* behind and mb_remove_script removes it. A run of mb may be killed at    *)
(* any time; its scripts go on, and its pid may be given to a later run.   *)
(***************************************************************************)
EXTENDS Integers, Sequences, FiniteSets

CONSTANTS
    Mbs,        \* runs of mb
    Pids,
    IntMax,
    Base,       \* of the numerals in a name, 10 in the code
    Names,      \* of targets and rules, each a sequence of characters
    Lengths,    \* of scripts
    MaxProcs,   \* scripts a run has at once: slots of run_singular
    MaxCounter, \* bound: script_counter of each run
    NoPid, NoPath

ASSUME ScriptFilesAssumption ==
    /\ IsFiniteSet(Mbs) /\ IntMax \in Nat \ {0} /\ Base \in Nat \ {0, 1}
    /\ Pids \subseteq 1..IntMax /\ NoPid \notin Pids
    /\ Lengths \subseteq Nat \ {0}
    /\ MaxCounter \in [Mbs -> Nat] /\ MaxProcs \in Nat \ {0}
    /\ Names \subseteq Seq(Nat) /\ NoPath \notin Seq(Nat)

VARIABLES
    mb,         \* each run's state, pid, script_counter, and the file it has written
    children,   \* the shells that run a script
    files       \* the contents of each file: for each position, whose script it is of

vars == <<mb, children, files>>

\* A character is a number: those below Base are the digits.
Underscore == Base
Dot        == Base + 1

Digits(n) ==
    LET d[k \in Nat] == IF k < Base THEN <<k>> ELSE Append(d[k \div Base], k % Base)
    IN  d[n]

\* floor(log10(INT_MAX)), and the room behind "/tmp/": size counts the pointer
\* prefix, whose 8 bytes are 3 more than the string, and one byte is the NUL.
PidSize == Len(Digits(IntMax)) - 1
Room(name) == 3 + PidSize + Len(name)

\* The part of a name before the dot.
Numbers(pid, counter) == Digits(pid) \o <<Underscore>> \o Digits(counter)

CutOff(s, size) == IF Len(s) <= size THEN s ELSE SubSeq(s, 1, size)

\* Mistake: the names of two runs of mb do not differ.
CreateNameOfCounter(name, pid, counter) ==
    CutOff(Digits(counter) \o <<Dot>> \o name, Room(name))

\* create_name_frompid.
CreateName(name, pid, counter) ==
    CutOff(Numbers(pid, counter) \o <<Dot>> \o name, Room(name))

Script(m) == <<m, mb[m].counter>>

\* Mistake: every write makes a longer file.
OverwriteAppends(old, script, length) == old \o [i \in 1..length |-> script]

\* Fewer characters than were there leave the rest as it was.
Overwrite(old, script, length) ==
    [i \in 1..length |-> script] \o SubSeq(old, length + 1, Len(old))

Contents(path) == IF path \in DOMAIN files THEN files[path] ELSE <<>>
Without(paths) == [p \in (DOMAIN files) \ paths |-> files[p]]

\* The children of a run of mb that it has not collected yet.
Own(m) == {c \in children : c.script[1] = m}

TypeOK ==
    /\ mb \in [Mbs -> [state : {"new", "live", "dead"}, pid : Pids \cup {NoPid},
                       counter : Nat, wrote : Nat,
                       path : {NoPath} \cup Seq(Nat)]]
    /\ \A c \in children :
         /\ DOMAIN c = {"script", "path", "length", "parallel", "runs"}
         /\ c.length \in Lengths /\ c.parallel \in BOOLEAN /\ c.runs \in BOOLEAN
         /\ c.script \in Mbs \X Nat
    /\ \A p \in DOMAIN files :
         files[p] # <<>> /\ Len(files[p]) \in Lengths
    /\ \A m \in Mbs : /\ mb[m].pid = NoPid <=> mb[m].state = "new"
                      /\ \A n \in Mbs \ {m} : mb[m].state = "live" /\ mb[n].state = "live"
                                                => mb[m].pid # mb[n].pid
                      \* mb_exec runs one script at a time
                      /\ (\E c \in Own(m) : ~c.parallel) => Cardinality(Own(m)) = 1

Init ==
    /\ mb = [m \in Mbs |-> [state |-> "new", pid |-> NoPid, counter |-> 0,
                            wrote |-> 0, path |-> NoPath]]
    /\ children = {}
    /\ files = <<>>

Live(m) == mb[m].state = "live"

\* The system gives a pid to a run of mb that no other has now.
StartMb(m, p) ==
    /\ mb[m].state = "new"
    /\ \A n \in Mbs : Live(n) => mb[n].pid # p
    /\ mb' = [mb EXCEPT ![m].state = "live", ![m].pid = p]
    /\ UNCHANGED <<children, files>>

\* Not blocked by mb_exec's waitpid, and without a script that is to be run.
CanPrepare(m) ==
    /\ Live(m) /\ mb[m].path = NoPath /\ mb[m].counter < MaxCounter[m]
    /\ Cardinality(Own(m)) < MaxProcs
    /\ \A c \in Own(m) : c.parallel

\* Mistake: the counter is not incremented.
PrepareUncounted(m, name, length) ==
    LET path == CreateName(name, mb[m].pid, 0) IN
    /\ CanPrepare(m)
    /\ mb' = [mb EXCEPT ![m].path = path, ![m].wrote = length, ![m].counter = @ + 1]
    /\ files' = [p \in (DOMAIN files) \cup {path} |->
                   IF p = path THEN Overwrite(Contents(p), Script(m)', length)
                   ELSE files[p]]
    /\ UNCHANGED children

\* _prepare_exec.
PrepareExec(m, name, length) ==
    LET path == CreateName(name, mb[m].pid, mb[m].counter) IN
    /\ CanPrepare(m)
    /\ mb' = [mb EXCEPT ![m].path = path, ![m].wrote = length, ![m].counter = @ + 1]
    /\ files' = [p \in (DOMAIN files) \cup {path} |->
                   IF p = path THEN Overwrite(Contents(p), Script(m)', length)
                   ELSE files[p]]
    /\ UNCHANGED children

\* The file cannot be opened: mb goes on, or XFREE of strerror's text ends it as
\* a signal does.
PrepareExecFails(m) ==
    /\ CanPrepare(m)
    /\ mb' = [mb EXCEPT ![m].counter = @ + 1]
    /\ UNCHANGED <<children, files>>

\* The fork of mb_exec, which rules that run scripts in parallel do not call, or
\* of mb_exec_parallel. One that fails leaves what a script leaves that ends at once.
Fork(m, parallel) ==
    /\ Live(m) /\ mb[m].path # NoPath
    /\ parallel \/ Own(m) = {}
    /\ children' = children \cup {[script |-> Script(m), path |-> mb[m].path,
                                   length |-> mb[m].wrote, parallel |-> parallel,
                                   runs |-> TRUE]}
    /\ mb' = [mb EXCEPT ![m].path = NoPath, ![m].wrote = 0]
    /\ UNCHANGED files

\* A script ends; nobody waits for an orphan.
ScriptEnds(c) ==
    /\ c.runs
    /\ children' = (children \ {c}) \cup
                   IF Live(c.script[1]) THEN {[c EXCEPT !.runs = FALSE]} ELSE {}
    /\ UNCHANGED <<mb, files>>

\* The rest of mb_exec: the file stays.
ExecReturns(c) ==
    /\ Live(c.script[1]) /\ ~c.parallel /\ ~c.runs
    /\ children' = children \ {c}
    /\ UNCHANGED <<mb, files>>

\* Mistake: the file is removed whether its script has ended or not.
RemoveScriptEarly(c) ==
    /\ Live(c.script[1]) /\ c.parallel
    /\ files' = Without({c.path})
    /\ UNCHANGED <<mb, children>>

\* mb_remove_script, for a script waitpid has reported.
RemoveScript(c) ==
    /\ Live(c.script[1]) /\ c.parallel /\ ~c.runs
    /\ children' = children \ {c}
    /\ files' = Without({c.path})
    /\ UNCHANGED mb

\* The end of a run: normal, without children; killed; or by mb's handler, once it
\* has removed some or all of the files of its scripts (see Signals). The scripts
\* go on.
Ends(m, removed) ==
    /\ Live(m)
    /\ mb' = [mb EXCEPT ![m].state = "dead", ![m].path = NoPath, ![m].wrote = 0]
    /\ children' = {c \in children : c.runs \/ c \notin Own(m)}
    /\ files' = Without(removed)

Next ==
    \/ \E m \in Mbs :
         \/ \E p \in Pids : StartMb(m, p)
         \/ \E name \in Names, length \in Lengths : PrepareExec(m, name, length)
         \/ PrepareExecFails(m)
         \/ \E parallel \in BOOLEAN : Fork(m, parallel)
         \/ \E removed \in SUBSET ({c.path : c \in Own(m)} \cup {mb[m].path}) :
              Ends(m, removed)
    \/ \E c \in children : ScriptEnds(c) \/ ExecReturns(c) \/ RemoveScript(c)
    \/ (\A m \in Mbs : mb[m].state = "dead") /\ children = {} /\ UNCHANGED vars

Spec == Init /\ [][Next]_vars

-----------------------------------------------------------------------------
(* Properties.                                                             *)

\* The counter of m does not fit into a name any more.
CounterCut(m) ==
    /\ mb[m].counter > 0
    /\ \E name \in Names : Len(Numbers(mb[m].pid, mb[m].counter - 1)) > Room(name)

Running == {c \in children : c.runs}
Orphan(c) == mb[c.script[1]].state = "dead"
SamePid(m, n) == m # n /\ mb[m].pid = mb[n].pid

OwnText(path, script, length) ==
    /\ path \in DOMAIN files /\ length <= Len(files[path])
    /\ \A i \in DOMAIN files[path] :
         IF i <= length THEN files[path][i] = script
                        ELSE SamePid(files[path][i][1], script[1])

\* A script that mb waits for stands in its file with nothing before it, and what
\* stands behind it was left there by an earlier run of mb with the same pid, in a
\* longer file; unless the counter was cut off.
RunsOwnScript ==
    \A c \in Running :
        \/ OwnText(c.path, c.script, c.length)
        \/ CounterCut(c.script[1]) \/ Orphan(c)

\* While a script runs whose mb is there, nobody writes or removes its file.
RunningFileKept ==
    [][ \A c \in Running \cap Running' :
          \/ c.path \in (DOMAIN files) \cap (DOMAIN files') /\ files'[c.path] = files[c.path]
          \/ Orphan(c)' \/ CounterCut(c.script[1])' ]_vars

\* Two scripts share a file only if the counter of one was cut off, or one is an
\* orphan of a run of mb whose pid the other's run was given.
PathsDiffer ==
    \A c, d \in Running :
        c # d /\ c.path = d.path =>
            LET m == c.script[1]
                n == d.script[1]
            IN  IF m = n THEN CounterCut(m)
                ELSE SamePid(m, n) /\ (Orphan(c) \/ Orphan(d))
=============================================================================
