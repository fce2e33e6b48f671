------------------------------ MODULE Signals ------------------------------
(***************************************************************************)
(* The list of temporary scripts (src/src/signals.c) between the executor, *)
(* which registers and unregisters them, and the signal handler, which may *)
(* interrupt any step to remove them. The list holds copies of the scripts'*)
(* names; the names themselves (location) are on the same heap, and memory *)
(* that was freed may be given to either of them again.                    *)
(*                                                                         *)
(* Scripts are started one after the other by serial rules, or up to       *)
(* MaxProcs at a time by parallel ones, and collected in any order, which  *)
(* is what RunSingular allows. A script is its number, script_counter.     *)
(***************************************************************************)
EXTENDS CPtrList, FiniteSets

CONSTANTS
    NumScripts, \* bound: scripts written in a behaviour
    MaxProcs,   \* max_procs of the parallel rules
    Chunks,     \* bound: addresses of strings
    Capacity,   \* first capacity of the list (16 in the code)
    Align,      \* its resize_align (8 in the code)
    Garbage,    \* what may be read from freed memory, the name of no script
    Handled     \* number of signals with a handler (4 in the code)

ASSUME SignalsAssumption ==
    /\ NumScripts \in Nat /\ MaxProcs \in Nat /\ Capacity \in Nat
    /\ Align \in Nat \ {0} /\ Handled \in Nat \ {0}
    \* The scripts are counted by an int, the list by size_t.
    /\ Capacity <= SizeMax /\ NumScripts + 2 * Align <= SizeMax
    /\ NULL \notin Chunks
    /\ Garbage \notin 1..NumScripts

Scripts == 1..NumScripts

VARIABLES
    pc,         \* the next step of the main flow, or of the handler
    cur,        \* the script it deals with
    serial,     \* cur belongs to a serial rule
    next,       \* script_counter, from 1
    tmpFiles,   \* tmp_files
    allocated,  \* the addresses in use
    mem,        \* what is at an address: a script's name, or garbage
    location,   \* the address of a script's name, from create_name to XFREE
    copy,       \* result of strdup in mb_register_tmp_file
    at,         \* result of cptrlist_find in mb_unregister_tmp_file
    files,      \* the scripts that exist in /tmp
    running,    \* scripts started and not collected
    left,       \* (history variable) scripts that were unregistered, not removed
    parallel,   \* (history variable) a parallel rule was run
    hix,        \* ix in the handler
    armed,      \* handlers still installed: each is reset when it is called
    interrupted \* (history variable) pc when the handler was called, or "no"

mainVars == <<cur, serial, next, location, copy, at, running, left, parallel>>
heapVars == <<allocated, mem>>
handlerVars == <<hix, armed, interrupted>>
vars == <<pc, mainVars, tmpFiles, heapVars, files, handlerVars>>

MainSteps == {"install", "idle", "fork", "register", "grow", "append", "count",
              "write", "exec", "wait", "unregister", "free", "shrink", "release"}
\* "killed": by a second signal, before the handler was done; "aborted": by free.
Points == MainSteps \cup {"handler", "quit", "killed", "aborted", "done"}

TypeInvariant ==
    /\ pc \in Points
    /\ cur \in Scripts \cup {0}
    /\ serial \in BOOLEAN /\ parallel \in BOOLEAN
    /\ next \in 1..(NumScripts + 1)
    /\ IsList(tmpFiles, Chunks)
    /\ allocated \subseteq Chunks
    /\ mem \in [Chunks -> Scripts \cup {Garbage}]
    /\ location \in [Scripts -> Chunks \cup {NULL}]
    /\ copy \in Chunks \cup {NULL}
    /\ at \in 0..SizeMax
    /\ files \subseteq Scripts /\ running \subseteq Scripts /\ left \subseteq Scripts
    /\ hix \in 0..SizeMax
    /\ armed \in 0..Handled
    /\ interrupted \in MainSteps \cup {"no"}

Init ==
    /\ pc = "install"
    /\ cur = 0 /\ serial = FALSE /\ next = 1
    /\ tmpFiles = NewList(0)
    /\ allocated = {}
    /\ mem = [c \in Chunks |-> Garbage]
    /\ location = [n \in Scripts |-> NULL]
    /\ copy = NULL /\ at = 0
    /\ files = {} /\ running = {} /\ left = {} /\ parallel = FALSE
    /\ hix = 0 /\ armed = Handled /\ interrupted = "no"

\* mb_install_signal_handlers: the list follows the handlers.
Install ==
    /\ pc = "install"
    /\ tmpFiles' = NewList(Capacity)
    /\ pc' = "idle"
    /\ UNCHANGED <<mainVars, heapVars, files, handlerVars>>

-----------------------------------------------------------------------------
(* The heap.                                                               *)

\* malloc returns any address that is not in use, to hold the name of n.
Malloc(c, n) ==
    /\ c \notin allocated
    /\ allocated' = allocated \cup {c}
    /\ mem' = [mem EXCEPT ![c] = n]

\* free of an address in use. What is there may be overwritten or not.
Free(c) ==
    /\ c \in allocated
    /\ allocated' = allocated \ {c}
    /\ mem' \in {mem, [mem EXCEPT ![c] = Garbage]}

\* free of an address that is not in use ends mb, or is not noticed.
DoubleFree(c, then) ==
    /\ c \notin allocated
    /\ pc' \in {then, "aborted"}
    /\ UNCHANGED heapVars

-----------------------------------------------------------------------------
(* Starting a script: _prepare_exec, fork and mb_register_tmp_file.        *)

\* create_name and the writing of the file.
Write(isSerial) ==
    /\ pc = "idle" /\ next <= NumScripts
    /\ IF isSerial THEN running = {} ELSE Cardinality(running) < MaxProcs
    /\ \E c \in Chunks : Malloc(c, next) /\ location' = [location EXCEPT ![next] = c]
    /\ files' = files \cup {next}
    /\ cur' = next /\ next' = next + 1
    /\ serial' = isSerial /\ parallel' = (parallel \/ ~isSerial)
    /\ pc' = IF isSerial THEN "register" ELSE "fork"
    /\ UNCHANGED <<tmpFiles, copy, at, running, left, handlerVars>>

\* mb_exec_parallel registers the script only after the fork.
ForkParallel ==
    /\ pc = "fork"
    /\ running' = running \cup {cur}
    /\ pc' = "register"
    /\ UNCHANGED <<cur, serial, next, location, copy, at, left, parallel,
                   tmpFiles, heapVars, files, handlerVars>>

\* strdup in mb_register_tmp_file
Strdup ==
    /\ pc = "register"
    /\ \E c \in Chunks : Malloc(c, cur) /\ copy' = c
    /\ pc' = IF Full(tmpFiles) THEN "grow" ELSE "append"
    /\ UNCHANGED <<cur, serial, next, location, at, running, left, parallel,
                   tmpFiles, files, handlerVars>>

\* realloc; until its result is assigned, items points to freed memory.
Grow ==
    /\ pc = "grow"
    /\ tmpFiles' = Resize(tmpFiles, Align)
    /\ pc' = "append"
    /\ UNCHANGED <<mainVars, heapVars, files, handlerVars>>

Registered == IF serial THEN "exec" ELSE "idle"

\* The compiler may order the two assignments of cptrlist_append either way.
Append ==
    /\ \/ /\ pc = "append"
          /\ \/ pc' = "count" /\ tmpFiles' = Store(tmpFiles, tmpFiles.size, copy)
             \/ pc' = "write" /\ tmpFiles' = Count(tmpFiles)
       \/ /\ pc = "count"
          /\ tmpFiles' = Count(tmpFiles)
          /\ pc' = Registered
       \/ /\ pc = "write"
          /\ tmpFiles' = Store(tmpFiles, tmpFiles.size - 1, copy)
          /\ pc' = Registered
    /\ UNCHANGED <<mainVars, heapVars, files, handlerVars>>

\* mb_exec forks after the script was registered, and waits.
ForkSerial ==
    /\ pc = "exec"
    /\ running' = running \cup {cur}
    /\ pc' = "wait"
    /\ UNCHANGED <<cur, serial, next, location, copy, at, left, parallel,
                   tmpFiles, heapVars, files, handlerVars>>

-----------------------------------------------------------------------------
(* A script has ended: mb_remove_script, mb_unregister_tmp_file, XFREE.    *)

\* waitpid of mb_exec returns. The script is not removed.
WaitSerial ==
    /\ pc = "wait"
    /\ running' = running \ {cur}
    /\ left' = left \cup {cur}
    /\ pc' = "unregister"
    /\ UNCHANGED <<cur, serial, next, location, copy, at, parallel,
                   tmpFiles, heapVars, files, handlerVars>>

\* A child of a parallel rule is collected and its script removed.
Collect(n) ==
    /\ pc = "idle" /\ n \in running
    /\ running' = running \ {n}
    /\ files' = files \ {n}
    /\ cur' = n /\ serial' = FALSE
    /\ pc' = "unregister"
    /\ UNCHANGED <<next, location, copy, at, left, parallel,
                   tmpFiles, heapVars, handlerVars>>

\* A child that failed is collected by _find_process_slot, and that is all.
Forget(n) ==
    /\ pc = "idle" /\ n \in running
    /\ running' = running \ {n}
    /\ UNCHANGED <<pc, cur, serial, next, location, copy, at, left, parallel,
                   tmpFiles, heapVars, files, handlerVars>>

\* What string_cptrlist_search accepts: the same address or the same name.
Matches(item) ==
    \/ item = location[cur]
    \/ item # NULL /\ mem[item] = cur

Unregister ==
    /\ pc = "unregister"
    /\ LET ix == AsSize(Find({i \in 0..(tmpFiles.size - 1) : Matches(tmpFiles.items[i])}))
       IN  IF Freeable(tmpFiles, ix) THEN at' = ix /\ pc' = "free"
                                     ELSE at' = at /\ pc' = "release"
    /\ UNCHANGED <<cur, serial, next, location, copy, running, left, parallel,
                   tmpFiles, heapVars, files, handlerVars>>

\* cptrlist_free_at
FreeItem ==
    /\ pc = "free"
    /\ LET then == IF Shrinks(tmpFiles, at) THEN "shrink" ELSE "release"
       IN  \/ Free(tmpFiles.items[at]) /\ pc' = then
           \/ DoubleFree(tmpFiles.items[at], then)
    /\ UNCHANGED <<mainVars, tmpFiles, files, handlerVars>>

DropLast ==
    /\ pc = "shrink"
    /\ tmpFiles' = Shrink(tmpFiles)
    /\ pc' = "release"
    /\ UNCHANGED <<mainVars, heapVars, files, handlerVars>>

\* XFREE of the name in mb_exec, of the location in run_singular.
Release ==
    /\ pc = "release"
    /\ \/ Free(location[cur]) /\ pc' = "idle"
       \/ DoubleFree(location[cur], "idle")
    /\ location' = [location EXCEPT ![cur] = NULL]
    /\ UNCHANGED <<cur, serial, next, copy, at, running, left, parallel,
                   tmpFiles, files, handlerVars>>

Finish ==
    /\ pc = "idle" /\ running = {}
    /\ pc' = "done"
    /\ UNCHANGED <<mainVars, tmpFiles, heapVars, files, handlerVars>>

-----------------------------------------------------------------------------
(* Signals.                                                                *)

Signal ==
    /\ pc \in MainSteps
    /\ interrupted' = pc /\ hix' = 0 /\ armed' = armed - 1
    /\ pc' = "handler"
    /\ UNCHANGED <<mainVars, tmpFiles, heapVars, files>>

\* Mistake: the handler stays at an entry whose file does not exist.
RemoveNextStuck ==
    /\ pc = "handler" /\ interrupted # "grow" /\ hix < tmpFiles.size
    /\ LET item == tmpFiles.items[hix]
       IN  IF item # NULL /\ mem[item] \in files
           THEN files' = files \ {mem[item]} /\ hix' = hix + 1
           ELSE UNCHANGED <<files, hix>>
    /\ UNCHANGED <<pc, mainVars, tmpFiles, heapVars, armed, interrupted>>

RemoveNext ==
    /\ pc = "handler" /\ interrupted # "grow" /\ hix < tmpFiles.size
    /\ LET item == tmpFiles.items[hix]
       IN  files' = IF item = NULL THEN files ELSE files \ {mem[item]}
    /\ hix' = hix + 1
    /\ UNCHANGED <<pc, mainVars, tmpFiles, heapVars, armed, interrupted>>

\* While items points to freed memory, any of the entries may be unreadable.
RemoveTorn ==
    /\ pc = "handler" /\ interrupted = "grow"
    /\ \E gone \in SUBSET files : files' = files \ gone
    /\ pc' = "quit"
    /\ UNCHANGED <<mainVars, tmpFiles, heapVars, handlerVars>>

\* exit(-1)
Quit ==
    /\ pc = "handler" /\ interrupted # "grow" /\ hix >= tmpFiles.size
    /\ pc' = "quit"
    /\ UNCHANGED <<mainVars, tmpFiles, heapVars, files, handlerVars>>

\* One more signal: a handler that is still installed starts at the beginning,
\* a signal whose handler was called already ends mb.
SignalAgain ==
    /\ pc = "handler"
    /\ \/ armed > 0 /\ armed' = armed - 1 /\ hix' = 0 /\ pc' = pc
       \/ pc' = "killed" /\ UNCHANGED <<armed, hix>>
    /\ UNCHANGED <<mainVars, tmpFiles, heapVars, files, interrupted>>

Ended == pc \in {"quit", "killed", "aborted", "done"} /\ UNCHANGED vars

Main ==
    \/ Install \/ Write(TRUE) \/ Write(FALSE) \/ ForkParallel
    \/ Strdup \/ Grow \/ Append \/ ForkSerial \/ WaitSerial
    \/ (\E n \in Scripts : Collect(n) \/ Forget(n))
    \/ Unregister \/ FreeItem \/ DropLast \/ Release \/ Finish

Handler == RemoveNext \/ RemoveTorn \/ Quit

Next == Main \/ Handler \/ Signal \/ SignalAgain \/ Ended

Spec == Init /\ [][Next]_vars

\* The handler runs; nothing is assumed of the main flow or of signals.
FairSpec == Spec /\ WF_vars(Handler)

-----------------------------------------------------------------------------
(* Properties.                                                             *)

\* Where a signal finds the current script on disk and not, or not for sure, in
\* the list: before it is registered and, as mb_exec keeps it, never after.
Unlisted == {"fork", "register", "append", "count", "write"}

\* A handler that was not interrupted leaves only scripts behind that mb_exec
\* unregistered, and the one that is just being registered. It misses no other,
\* although the list has entries whose memory was freed and used again.
HandlerCleans ==
    pc = "quit" /\ interrupted # "grow" =>
        files \subseteq left \cup (IF interrupted \in Unlisted THEN {cur} ELSE {})

\* As long as only serial rules were run, which unregister a script before they
\* register the next one, no entry points to freed memory and nothing is freed
\* twice. (After a parallel rule both happen.)
SerialHeapSafe ==
    ~parallel =>
        /\ pc # "aborted"
        /\ \A i \in 0..(tmpFiles.size - 1) :
              pc # "shrink" /\ pc # "write" /\ interrupted \notin {"shrink", "write"} =>
                  tmpFiles.items[i] \in allocated

\* A signal ends mb, also when others follow it.
HandlerEnds == pc = "handler" ~> pc \in {"quit", "killed"}

-----------------------------------------------------------------------------
(* What the documentation says, and the code does not do.                  *)

\* Comment of cptrlist_free_at: "Calls free on the item at given index and sets
\* the slot to NULL."
FreedSlotNull ==
    pc = "idle" =>
        \A i \in 0..(tmpFiles.size - 1) : tmpFiles.items[i] \in allocated \cup {NULL}
=============================================================================
