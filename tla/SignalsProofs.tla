--------------------------- MODULE SignalsProofs ---------------------------
(***************************************************************************)
(* Proofs about Signals for every number of scripts, of slots, of          *)
(* addresses and of signals, and every capacity of the list.               *)
(***************************************************************************)
EXTENDS Signals, CPtrListProofs, FiniteSetTheorems

-----------------------------------------------------------------------------
(* The inductive invariant.                                                *)

\* The current script has a place in the list but no entry in it yet.
Pending == {"fork", "register", "grow", "append", "count"}
Leaving == {"unregister", "free", "shrink", "release"}
Busy == MainSteps \ {"install", "idle"}

\* Which script is being dealt with, and what the signals found.
Stage ==
    /\ pc \in Busy => cur \in Scripts
    /\ pc \in MainSteps => armed = Handled
    /\ pc = "install" => tmpFiles.size = 0
    /\ interrupted = "no" <=> pc \in MainSteps \cup {"aborted", "done"}
    /\ pc \in Leaving => cur \notin files \/ cur \in left

\* One entry for each script at most, so that the list never outgrows size_t.
Room ==
    /\ IsRecord(tmpFiles)
    /\ tmpFiles.size < next
    /\ pc \in Pending => tmpFiles.size + 1 < next
    /\ pc = "grow" => tmpFiles.size = tmpFiles.capacity
    /\ pc \in {"append", "count"} => tmpFiles.size < tmpFiles.capacity
    /\ pc = "count" => tmpFiles.items[tmpFiles.size] = copy
    /\ pc = "write" => tmpFiles.size > 0
    /\ pc \in {"free", "shrink"} => at < tmpFiles.size /\ tmpFiles.items[at] # NULL
    /\ pc = "shrink" => at = tmpFiles.size - 1

\* An address that is in use and holds the name of n.
Holds(c, n) == c \in allocated /\ mem[c] = n

\* The names the executor still needs are where it put them; the current one may
\* be gone once an entry for it was freed.
Named ==
    pc \in MainSteps =>
        /\ \A n \in Scripts :
             location[n] # NULL => \/ Holds(location[n], n)
                                   \/ /\ n = cur /\ pc \in {"shrink", "release"}
                                      /\ location[n] \notin allocated
        /\ pc \in {"grow", "append", "count", "write"} => Holds(copy, cur)
        /\ pc = "free" => Matches(tmpFiles.items[at])
        /\ pc = "shrink" => tmpFiles.items[at] \notin allocated

\* The scripts the handler has to remove when it is called at this step.
Due(step) == files \ (left \cup (IF step \in Unlisted \cup {"grow"} THEN {cur} ELSE {}))

\* The entries that were stored.
Stored == 0..(IF pc = "write" THEN tmpFiles.size - 2 ELSE tmpFiles.size - 1)

\* They are in the list, and while the handler runs, in what it has yet to read.
Listed ==
    /\ pc \in MainSteps =>
         \A n \in Due(pc) : \E i \in Stored : Holds(tmpFiles.items[i], n)
    /\ pc \in {"handler", "quit"} /\ interrupted # "grow" =>
         \A n \in Due(interrupted) : \E i \in hix..(tmpFiles.size - 1) :
             tmpFiles.items[i] # NULL /\ mem[tmpFiles.items[i]] = n
    /\ pc = "quit" /\ interrupted # "grow" => hix >= tmpFiles.size

\* Before the first parallel rule, the list holds the script that runs, or none.
Alone ==
    ~parallel =>
        /\ pc # "aborted" /\ pc # "fork"
        /\ pc \in Busy => serial /\ location[cur] \in allocated
        /\ pc \in MainSteps => running = IF pc = "wait" THEN {cur} ELSE {}
        /\ pc \in {"install", "idle", "register", "grow", "append", "count", "release"} =>
             tmpFiles.size = 0
        /\ pc \in {"write", "exec", "wait", "unregister", "free", "shrink"} =>
             tmpFiles.size = 1
        /\ pc \in {"exec", "wait", "unregister", "free"} =>
             tmpFiles.items[0] = copy /\ Holds(copy, cur)
        /\ pc \in {"grow", "append", "count", "write", "exec", "wait", "unregister", "free"} =>
             copy # location[cur]
        /\ pc \notin MainSteps /\ interrupted \notin {"shrink", "write"} =>
             \A i \in 0..(tmpFiles.size - 1) : tmpFiles.items[i] \in allocated

Inv == TypeInvariant /\ Stage /\ Room /\ Named /\ Listed /\ Alone

-----------------------------------------------------------------------------
(* The list.                                                               *)

LEMMA ListRange ==
    ASSUME TypeInvariant
    PROVE  /\ SizeMax \in Nat /\ tmpFiles.capacity \in Nat /\ tmpFiles.size \in Nat
           /\ tmpFiles.size <= tmpFiles.capacity /\ tmpFiles.capacity <= SizeMax
           /\ IsList(tmpFiles, Chunks)
           /\ \A i \in 0..(tmpFiles.size - 1) : tmpFiles.items[i] \in Chunks \cup {NULL}
  BY SizeMaxAssumption DEF TypeInvariant, IsList

LEMMA InitInv == Init => Inv
<1> SUFFICES ASSUME Init PROVE Inv
  OBVIOUS
<1>1. TypeInvariant
  <2>1. IsList(tmpFiles, Chunks)
    BY NewListType, SizeMaxAssumption DEF Init
  <2>2. /\ mem \in [Chunks -> Scripts \cup {Garbage}]
        /\ location \in [Scripts -> Chunks \cup {NULL}]
    BY DEF Init
  <2>3. next \in 1..(NumScripts + 1) /\ armed \in 0..Handled /\ at \in 0..SizeMax
        /\ hix \in 0..SizeMax
    BY SizeMaxAssumption, SignalsAssumption DEF Init
  <2> QED
    BY <2>1, <2>2, <2>3, Zenon DEF Init, TypeInvariant, Points, MainSteps
<1>2. IsRecord(tmpFiles) /\ tmpFiles.size = 0
  BY NewListRecord DEF Init
<1> QED
  BY <1>1, <1>2 DEF Init, Inv, Stage, Room, Named, Listed, Alone, Pending, Leaving, Busy,
     Due, MainSteps


LEMMA ForkParallelInv ==
    ASSUME Inv, ForkParallel
    PROVE  Inv'
<1> USE DEF MainSteps, Points, Pending, Leaving, Busy
<1>1. /\ pc = "fork" /\ pc' = "register" /\ running' = running \cup {cur}
      /\ cur \in Scripts
  BY DEF Inv, ForkParallel, Stage
<1>2. TypeInvariant'
  BY <1>1 DEF Inv, ForkParallel, TypeInvariant, heapVars, handlerVars
<1>3. Stage'
  BY <1>1 DEF Inv, ForkParallel, Stage, handlerVars
<1>4. Room'
  BY <1>1 DEF Inv, ForkParallel, Room
<1>5. Named'
  BY <1>1 DEF Inv, ForkParallel, Named, Holds, heapVars
<1>6. Listed'
  BY <1>1 DEF Inv, ForkParallel, Listed, Holds, Due, Stored, Unlisted, heapVars
<1>7. Alone'
  BY <1>1 DEF Inv, ForkParallel, Alone
<1> QED
  BY <1>2, <1>3, <1>4, <1>5, <1>6, <1>7 DEF Inv

LEMMA ForkSerialInv ==
    ASSUME Inv, ForkSerial
    PROVE  Inv'
<1> USE DEF MainSteps, Points, Pending, Leaving, Busy
<1>1. /\ pc = "exec" /\ pc' = "wait" /\ running' = running \cup {cur}
      /\ cur \in Scripts
  BY DEF Inv, ForkSerial, Stage
<1>2. TypeInvariant'
  BY <1>1 DEF Inv, ForkSerial, TypeInvariant, heapVars, handlerVars
<1>3. Stage'
  BY <1>1 DEF Inv, ForkSerial, Stage, handlerVars
<1>4. Room'
  BY <1>1 DEF Inv, ForkSerial, Room
<1>5. Named'
  BY <1>1 DEF Inv, ForkSerial, Named, Holds, heapVars
<1>6. Listed'
  BY <1>1 DEF Inv, ForkSerial, Listed, Holds, Due, Stored, Unlisted, heapVars
<1>7. Alone'
  BY <1>1 DEF Inv, ForkSerial, Alone, Holds, heapVars
<1> QED
  BY <1>2, <1>3, <1>4, <1>5, <1>6, <1>7 DEF Inv

LEMMA WaitSerialInv ==
    ASSUME Inv, WaitSerial
    PROVE  Inv'
<1> USE DEF MainSteps, Points, Pending, Leaving, Busy
<1>1. /\ pc = "wait" /\ pc' = "unregister" /\ running' = running \ {cur}
      /\ left' = left \cup {cur} /\ cur \in Scripts
  BY DEF Inv, WaitSerial, Stage
<1>2. TypeInvariant'
  BY <1>1 DEF Inv, WaitSerial, TypeInvariant, heapVars, handlerVars
<1>3. Stage'
  BY <1>1 DEF Inv, WaitSerial, Stage, handlerVars
<1>4. Room'
  BY <1>1 DEF Inv, WaitSerial, Room
<1>5. Named'
  BY <1>1 DEF Inv, WaitSerial, Named, Holds, heapVars
<1>6. Listed'
  BY <1>1 DEF Inv, WaitSerial, Listed, Holds, Due, Stored, Unlisted, heapVars
<1>7. Alone'
  BY <1>1 DEF Inv, WaitSerial, Alone, Holds, heapVars
<1> QED
  BY <1>2, <1>3, <1>4, <1>5, <1>6, <1>7 DEF Inv

LEMMA CollectInv ==
    ASSUME Inv, NEW n \in Scripts, Collect(n)
    PROVE  Inv'
<1> USE DEF MainSteps, Points, Pending, Leaving, Busy
<1>1. /\ pc = "idle" /\ pc' = "unregister" /\ running' = running \ {n}
      /\ n \in running /\ files' = files \ {n} /\ cur' = n /\ serial' = FALSE
  BY DEF Collect
<1>2. TypeInvariant'
  BY <1>1 DEF Inv, Collect, TypeInvariant, heapVars, handlerVars
<1>3. Stage'
  BY <1>1 DEF Inv, Collect, Stage, handlerVars
<1>4. Room'
  BY <1>1 DEF Inv, Collect, Room
<1>5. Named'
  BY <1>1 DEF Inv, Collect, Named, Holds, heapVars
<1>6. Listed'
  BY <1>1 DEF Inv, Collect, Listed, Holds, Due, Stored, Unlisted, heapVars
<1>7. Alone'
  BY <1>1 DEF Inv, Collect, Alone, Holds, heapVars
<1> QED
  BY <1>2, <1>3, <1>4, <1>5, <1>6, <1>7 DEF Inv

LEMMA ForgetInv ==
    ASSUME Inv, NEW n \in Scripts, Forget(n)
    PROVE  Inv'
<1> USE DEF MainSteps, Points, Pending, Leaving, Busy
<1>1. /\ pc = "idle" /\ pc' = pc /\ running' = running \ {n} /\ n \in running
  BY DEF Forget
<1>2. TypeInvariant'
  BY <1>1 DEF Inv, Forget, TypeInvariant, heapVars, handlerVars
<1>3. Stage'
  BY <1>1 DEF Inv, Forget, Stage, handlerVars
<1>4. Room'
  BY <1>1 DEF Inv, Forget, Room
<1>5. Named'
  BY <1>1 DEF Inv, Forget, Named, Holds, heapVars
<1>6. Listed'
  BY <1>1 DEF Inv, Forget, Listed, Holds, Due, Stored, Unlisted, heapVars
<1>7. Alone'
  BY <1>1 DEF Inv, Forget, Alone, Holds, heapVars
<1> QED
  BY <1>2, <1>3, <1>4, <1>5, <1>6, <1>7 DEF Inv

LEMMA FinishInv ==
    ASSUME Inv, Finish
    PROVE  Inv'
<1> USE DEF MainSteps, Points, Pending, Leaving, Busy
<1>1. pc = "idle" /\ pc' = "done" /\ running = {}
  BY DEF Finish
<1>2. TypeInvariant'
  BY <1>1 DEF Inv, Finish, TypeInvariant, mainVars, heapVars, handlerVars
<1>3. Stage'
  BY <1>1 DEF Inv, Finish, Stage, mainVars, handlerVars
<1>4. Room'
  BY <1>1 DEF Inv, Finish, Room, mainVars
<1>5. Named'
  BY <1>1 DEF Named
<1>6. Listed'
  BY <1>1 DEF Listed
<1>7. Alone'
  BY <1>1, ListRange DEF Inv, Finish, Alone, Stage, mainVars, handlerVars
<1> QED
  BY <1>2, <1>3, <1>4, <1>5, <1>6, <1>7 DEF Inv

LEMMA InstallInv ==
    ASSUME Inv, Install
    PROVE  Inv'
<1> USE DEF MainSteps, Points, Pending, Leaving, Busy
<1>1. pc = "install" /\ pc' = "idle" /\ tmpFiles' = NewList(Capacity)
  BY DEF Install
<1>2. IsList(tmpFiles', Chunks) /\ IsRecord(tmpFiles') /\ tmpFiles'.size = 0
  <2>1. Capacity \in 0..SizeMax
    BY SizeMaxAssumption, SignalsAssumption
  <2> QED
    BY <1>1, <2>1, NewListType, NewListRecord
<1>3. TypeInvariant'
  BY <1>1, <1>2, Zenon DEF Inv, Install, TypeInvariant, mainVars, heapVars, handlerVars
<1>4. Stage'
  BY <1>1 DEF Inv, Install, Stage, mainVars, handlerVars
<1>5. Room'
  BY <1>1, <1>2 DEF Inv, Install, Room, Stage, mainVars
<1>6. Named'
  BY <1>1 DEF Inv, Install, Named, Holds, mainVars, heapVars
<1>7. Listed'
  <2>1. tmpFiles.size = 0
    BY <1>1 DEF Inv, Stage
  <2> QED
    BY <1>1, <1>2, <2>1 DEF Inv, Install, Listed, Due, Stored, Unlisted, mainVars
<1>8. Alone'
  BY <1>1, <1>2 DEF Inv, Install, Alone, mainVars
<1> QED
  BY <1>3, <1>4, <1>5, <1>6, <1>7, <1>8 DEF Inv

-----------------------------------------------------------------------------
(* The heap.                                                               *)

\* What malloc returns was not in use, so no name in use is overwritten.
LEMMA MallocKeeps ==
    ASSUME TypeInvariant, NEW c \in Chunks, NEW n \in Scripts, Malloc(c, n)
    PROVE  /\ c \notin allocated /\ allocated' = allocated \cup {c}
           /\ mem' \in [Chunks -> Scripts \cup {Garbage}] /\ mem'[c] = n
           /\ \A d, m : d \in allocated /\ mem[d] = m => d \in allocated' /\ mem'[d] = m
  BY DEF TypeInvariant, Malloc

\* Freeing a name of cur takes away the name of no other script.
LEMMA FreeKeeps ==
    ASSUME TypeInvariant, NEW c, Free(c), mem[c] = cur
    PROVE  /\ c \in allocated /\ allocated' = allocated \ {c}
           /\ mem' \in [Chunks -> Scripts \cup {Garbage}]
           /\ \A d, m : d \in allocated /\ mem[d] = m /\ (m # cur \/ d # c) =>
                d \in allocated' /\ mem'[d] = m
  BY DEF TypeInvariant, Free

LEMMA WriteInv ==
    ASSUME Inv, NEW isSerial \in BOOLEAN, Write(isSerial)
    PROVE  Inv'
<1> USE DEF MainSteps, Points, Pending, Leaving, Busy
<1>1. PICK c \in Chunks : Malloc(c, next) /\ location' = [location EXCEPT ![next] = c]
  BY DEF Write
<1>2. /\ pc = "idle" /\ pc' = IF isSerial THEN "register" ELSE "fork"
      /\ next \in Scripts /\ next' = next + 1 /\ cur' = next
      /\ files' = files \cup {next}
      /\ serial' = isSerial /\ parallel' = (parallel \/ ~isSerial)
      /\ pc' \in {"register", "fork"}
  BY DEF Inv, Write, TypeInvariant, Scripts
<1>3. /\ c \notin allocated /\ allocated' = allocated \cup {c}
      /\ mem' \in [Chunks -> Scripts \cup {Garbage}] /\ mem'[c] = next
      /\ \A d, m : d \in allocated /\ mem[d] = m => d \in allocated' /\ mem'[d] = m
  BY <1>1, <1>2, MallocKeeps DEF Inv
<1>4. location' \in [Scripts -> Chunks \cup {NULL}] /\ location'[next] = c
      /\ \A n \in Scripts \ {next} : location'[n] = location[n]
  BY <1>1, <1>2 DEF Inv, TypeInvariant
<1>5. TypeInvariant'
  <2>1. next' \in 1..(NumScripts + 1)
    BY <1>2, SignalsAssumption DEF Scripts
  <2>2. parallel' \in BOOLEAN
    BY <1>2
  <2> QED
    BY <1>2, <1>3, <1>4, <2>1, <2>2 DEF Inv, Write, TypeInvariant, handlerVars
<1>6. Stage'
  BY <1>2 DEF Inv, Write, Stage, handlerVars
<1>7. Room'
  BY <1>2, ListRange DEF Inv, Write, Room, Scripts
<1>8. Named'
  BY <1>2, <1>3, <1>4 DEF Inv, Write, Named, Holds
<1>9. Listed'
  BY <1>2, <1>3 DEF Inv, Write, Listed, Holds, Due, Stored, Unlisted
<1>10. Alone'
  <2> SUFFICES ASSUME ~parallel' PROVE Alone'
    BY DEF Alone
  <2>1. ~parallel /\ isSerial /\ serial' = TRUE
    BY <1>2
  <2>2. pc' = "register" /\ running' = running /\ tmpFiles' = tmpFiles
    BY <1>2, <2>1 DEF Write
  <2>3. running = {} /\ tmpFiles.size = 0
    BY <1>2, <2>1 DEF Inv, Alone
  <2>4. location'[cur'] \in allocated'
    BY <1>2, <1>3, <1>4
  <2> QED
    BY <2>1, <2>2, <2>3, <2>4 DEF Alone
<1> QED
  BY <1>5, <1>6, <1>7, <1>8, <1>9, <1>10 DEF Inv

LEMMA StrdupInv ==
    ASSUME Inv, Strdup
    PROVE  Inv'
<1> USE DEF MainSteps, Points, Pending, Leaving, Busy
<1>1. PICK c \in Chunks : Malloc(c, cur) /\ copy' = c
  BY DEF Strdup
<1>2. /\ pc = "register" /\ pc' = IF Full(tmpFiles) THEN "grow" ELSE "append"
      /\ pc' \in {"grow", "append"} /\ cur \in Scripts
  BY DEF Inv, Strdup, Stage
<1>3. /\ c \notin allocated /\ allocated' = allocated \cup {c}
      /\ mem' \in [Chunks -> Scripts \cup {Garbage}] /\ mem'[c] = cur
      /\ \A d, m : d \in allocated /\ mem[d] = m => d \in allocated' /\ mem'[d] = m
  BY <1>1, <1>2, MallocKeeps DEF Inv
<1>4. TypeInvariant'
  BY <1>1, <1>2, <1>3 DEF Inv, Strdup, TypeInvariant, handlerVars
<1>5. Stage'
  BY <1>2 DEF Inv, Strdup, Stage, handlerVars
<1>6. Room'
  BY <1>2, ListRange DEF Inv, Strdup, Room, Full
<1>7. Named'
  BY <1>1, <1>2, <1>3 DEF Inv, Strdup, Named, Holds
<1>8. Listed'
  BY <1>2, <1>3 DEF Inv, Strdup, Listed, Holds, Due, Stored, Unlisted
<1>9. Alone'
  <2> SUFFICES ASSUME ~parallel PROVE Alone'
    BY DEF Strdup, Alone
  <2>1. serial /\ location[cur] \in allocated /\ running = {} /\ tmpFiles.size = 0
    BY <1>2 DEF Inv, Alone
  <2>2. copy' # location[cur] /\ location[cur] \in allocated'
    BY <1>1, <1>3, <2>1
  <2> QED
    BY <1>2, <2>1, <2>2 DEF Strdup, Alone
<1> QED
  BY <1>4, <1>5, <1>6, <1>7, <1>8, <1>9 DEF Inv

LEMMA FreeItemInv ==
    ASSUME Inv, FreeItem
    PROVE  Inv'
<1> USE DEF MainSteps, Points, Pending, Leaving, Busy
<1> DEFINE c == tmpFiles.items[at]
           then == IF Shrinks(tmpFiles, at) THEN "shrink" ELSE "release"
<1>1. /\ pc = "free" /\ cur \in Scripts /\ (cur \notin files \/ cur \in left)
      /\ c # NULL /\ Matches(c) /\ at < tmpFiles.size
  BY DEF Inv, FreeItem, Stage, Room, Named
<1>2. c \in allocated => mem[c] = cur
  BY <1>1 DEF Inv, Named, Holds, Matches
<1>3. then \in {"shrink", "release"} /\ (then = "shrink" <=> at = tmpFiles.size - 1)
  BY DEF Shrinks
<1>4. /\ pc' \in {then, "aborted"}
      /\ mem' \in [Chunks -> Scripts \cup {Garbage}]
      /\ allocated' = allocated \ {c}
      /\ \A d, m : d \in allocated /\ mem[d] = m /\ (m # cur \/ d # c) =>
           d \in allocated' /\ mem'[d] = m
      /\ c \in allocated => pc' = then
  <2>1. CASE Free(c) /\ pc' = then
    BY <1>2, <2>1, FreeKeeps DEF Inv, Free
  <2>2. CASE DoubleFree(c, then)
    BY <2>2 DEF Inv, TypeInvariant, DoubleFree, heapVars
  <2> QED
    BY <2>1, <2>2 DEF FreeItem
<1>5. UNCHANGED <<mainVars, tmpFiles, files, handlerVars>>
  BY DEF FreeItem
<1> HIDE DEF then
<1>6. TypeInvariant'
  BY <1>3, <1>4, <1>5 DEF Inv, TypeInvariant, mainVars, handlerVars
<1>7. Stage'
  BY <1>1, <1>3, <1>4, <1>5 DEF Inv, Stage, mainVars, handlerVars
<1>8. Room'
  BY <1>1, <1>3, <1>4, <1>5 DEF Inv, Room, mainVars
<1>9. Named'
  <2> SUFFICES ASSUME pc' \in {"shrink", "release"} PROVE Named'
    BY <1>3, <1>4 DEF Named
  <2>1. \A n \in Scripts :
           location[n] # NULL => \/ (location[n] \in allocated' /\ mem'[location[n]] = n)
                                 \/ (n = cur /\ location[n] \notin allocated')
    BY <1>1, <1>2, <1>4 DEF Inv, Named, Holds
  <2>2. c \notin allocated'
    BY <1>4
  <2> QED
    BY <2>1, <2>2, <1>5 DEF Named, Holds, mainVars
<1>10. Listed'
  <2> SUFFICES ASSUME pc' \in {"shrink", "release"} PROVE Listed'
    BY <1>3, <1>4 DEF Listed
  <2>1. \A n \in files \ left : \E i \in 0..(tmpFiles.size - 1) :
           Holds(tmpFiles.items[i], n) /\ n # cur
    BY <1>1 DEF Inv, Listed, Due, Stored, Unlisted
  <2>2. \A n \in files \ left : \E i \in 0..(tmpFiles.size - 1) :
           tmpFiles.items[i] \in allocated' /\ mem'[tmpFiles.items[i]] = n
    BY <2>1, <1>4 DEF Holds
  <2> QED
    BY <2>2, <1>5 DEF Listed, Due, Stored, Unlisted, Holds, mainVars
<1>11. Alone'
  <2> SUFFICES ASSUME ~parallel PROVE Alone'
    BY <1>5 DEF Alone, mainVars
  <2>1. /\ serial /\ location[cur] \in allocated /\ running = {} /\ tmpFiles.size = 1
        /\ tmpFiles.items[0] = copy /\ Holds(copy, cur) /\ copy # location[cur]
    BY <1>1 DEF Inv, Alone
  <2>2. at = 0
    BY <1>1, <2>1 DEF Inv, TypeInvariant
  <2>3. pc' = "shrink" /\ location[cur] \in allocated'
    BY <1>3, <1>4, <2>1, <2>2 DEF Holds
  <2> QED
    BY <2>1, <2>3, <1>5 DEF Alone, mainVars
<1> QED
  BY <1>6, <1>7, <1>8, <1>9, <1>10, <1>11 DEF Inv

LEMMA ReleaseInv ==
    ASSUME Inv, Release
    PROVE  Inv'
<1> USE DEF MainSteps, Points, Pending, Leaving, Busy
<1> DEFINE c == location[cur]
<1>1. /\ pc = "release" /\ cur \in Scripts /\ (cur \notin files \/ cur \in left)
      /\ location' = [location EXCEPT ![cur] = NULL]
  BY DEF Inv, Release, Stage
<1>2. c \in allocated => mem[c] = cur
  BY <1>1, SignalsAssumption DEF Inv, TypeInvariant, Named, Holds
<1>3. /\ pc' \in {"idle", "aborted"}
      /\ mem' \in [Chunks -> Scripts \cup {Garbage}]
      /\ allocated' = allocated \ {c}
      /\ \A d, m : d \in allocated /\ mem[d] = m /\ m # cur =>
           d \in allocated' /\ mem'[d] = m
      /\ c \in allocated => pc' = "idle"
  <2>1. CASE Free(c) /\ pc' = "idle"
    BY <1>2, <2>1, FreeKeeps DEF Inv, Free
  <2>2. CASE DoubleFree(c, "idle")
    BY <2>2 DEF Inv, TypeInvariant, DoubleFree, heapVars
  <2> QED
    BY <2>1, <2>2 DEF Release
<1>4. /\ location' \in [Scripts -> Chunks \cup {NULL}] /\ location'[cur] = NULL
      /\ \A n \in Scripts \ {cur} : location'[n] = location[n]
  BY <1>1 DEF Inv, TypeInvariant
<1>5. UNCHANGED <<cur, serial, next, copy, at, running, left, parallel,
                  tmpFiles, files, handlerVars>>
  BY DEF Release
<1>6. TypeInvariant'
  BY <1>3, <1>4, <1>5 DEF Inv, TypeInvariant, handlerVars
<1>7. Stage'
  BY <1>1, <1>3, <1>5 DEF Inv, Stage, handlerVars
<1>8. Room'
  BY <1>1, <1>3, <1>5 DEF Inv, Room
<1>9. Named'
  <2> SUFFICES ASSUME pc' = "idle" PROVE Named'
    BY <1>3 DEF Named
  <2>1. \A n \in Scripts : location'[n] # NULL =>
           location'[n] \in allocated' /\ mem'[location'[n]] = n
    BY <1>1, <1>3, <1>4 DEF Inv, Named, Holds
  <2> QED
    BY <2>1 DEF Named, Holds
<1>10. Listed'
  <2> SUFFICES ASSUME pc' = "idle" PROVE Listed'
    BY <1>3 DEF Listed
  <2>1. \A n \in files \ left : \E i \in 0..(tmpFiles.size - 1) :
           Holds(tmpFiles.items[i], n) /\ n # cur
    BY <1>1 DEF Inv, Listed, Due, Stored, Unlisted
  <2>2. \A n \in files \ left : \E i \in 0..(tmpFiles.size - 1) :
           tmpFiles.items[i] \in allocated' /\ mem'[tmpFiles.items[i]] = n
    BY <2>1, <1>3 DEF Holds
  <2> QED
    BY <2>2, <1>5 DEF Listed, Due, Stored, Unlisted, Holds
<1>11. Alone'
  BY <1>1, <1>3, <1>5 DEF Inv, Alone
<1> QED
  BY <1>6, <1>7, <1>8, <1>9, <1>10, <1>11 DEF Inv

-----------------------------------------------------------------------------
(* The steps of the list.                                                  *)

LEMMA GrowInv ==
    ASSUME Inv, Grow
    PROVE  Inv'
<1> USE DEF MainSteps, Points, Pending, Leaving, Busy
<1>1. /\ pc = "grow" /\ pc' = "append" /\ tmpFiles' = Resize(tmpFiles, Align)
      /\ cur \in Scripts
  BY DEF Inv, Grow, Stage
<1>2. UNCHANGED <<mainVars, heapVars, files, handlerVars>>
  BY DEF Grow
<1>3. tmpFiles.capacity + 2 * Align <= SizeMax /\ Align \in Nat \ {0}
  BY <1>1, ListRange, SignalsAssumption DEF Inv, TypeInvariant, Room
<1>4. /\ IsList(tmpFiles', Chunks) /\ ~Full(tmpFiles') /\ IsRecord(tmpFiles')
      /\ tmpFiles'.size = tmpFiles.size
      /\ \A i \in 0..(tmpFiles.size - 1) : tmpFiles'.items[i] = tmpFiles.items[i]
  BY <1>1, <1>3, ResizeKeeps, ResizeRecord, ListRange DEF Inv
<1>5. tmpFiles'.size \in Nat /\ tmpFiles'.size < tmpFiles'.capacity
  BY <1>4, ListRange, SizeMaxAssumption DEF Inv, IsList, Full
<1>6. TypeInvariant'
  BY <1>1, <1>2, <1>4 DEF Inv, TypeInvariant, mainVars, heapVars, handlerVars
<1>7. Stage'
  BY <1>1, <1>2 DEF Inv, Stage, mainVars, handlerVars
<1>8. Room'
  BY <1>1, <1>2, <1>4, <1>5 DEF Inv, Room, mainVars
<1>9. Named'
  BY <1>1, <1>2 DEF Inv, Named, Holds, mainVars, heapVars
<1>10. Listed'
  <2>1. \A n \in files \ (left \cup {cur}) : \E i \in 0..(tmpFiles.size - 1) :
           Holds(tmpFiles.items[i], n)
    BY <1>1 DEF Inv, Listed, Due, Stored
  <2>2. \A n \in files \ (left \cup {cur}) : \E i \in 0..(tmpFiles'.size - 1) :
           Holds(tmpFiles'.items[i], n)
    BY <2>1, <1>4
  <2> QED
    BY <2>2, <1>1, <1>2 DEF Listed, Due, Stored, Unlisted, Holds, mainVars, heapVars
<1>11. Alone'
  BY <1>1, <1>2, <1>4 DEF Inv, Alone, mainVars, heapVars, handlerVars
<1> QED
  BY <1>6, <1>7, <1>8, <1>9, <1>10, <1>11 DEF Inv

LEMMA AppendInv ==
    ASSUME Inv, Append
    PROVE  Inv'
<1> USE DEF MainSteps, Points, Pending, Leaving, Busy
<1> DEFINE l == tmpFiles
           k == IF pc = "write" THEN l.size - 1 ELSE l.size
<1>1. /\ pc \in {"append", "count", "write"} /\ cur \in Scripts
      /\ copy \in Chunks /\ Holds(copy, cur)
      /\ IsList(l, Chunks) /\ IsRecord(l) /\ l.size < next
      /\ l.size \in Nat /\ l.capacity \in Nat /\ l.size <= l.capacity
  BY ListRange DEF Inv, Append, Stage, Room, TypeInvariant, Named, Holds
<1>2. UNCHANGED <<mainVars, heapVars, files, handlerVars>>
  BY DEF Append
<1>3. /\ pc \in {"append", "count"} => l.size < l.capacity /\ l.size + 1 < next
      /\ pc = "count" => l.items[l.size] = copy
      /\ pc = "write" => l.size > 0
  BY DEF Inv, Room
<1>4. k \in 0..(l.capacity - 1)
  BY <1>1, <1>3
<1>5. pc \in {"append", "write"} =>
        LET s == Store(l, k, copy)
        IN  /\ IsList(s, Chunks) /\ IsRecord(s)
            /\ s.capacity = l.capacity /\ s.size = l.size
            /\ s.items[k] = copy
            /\ \A i \in 0..(l.capacity - 1) : i # k => s.items[i] = l.items[i]
  BY <1>1, <1>4, StoreFacts
<1>6. pc \in {"append", "count"} =>
        /\ IsList(Count(l), Chunks) /\ IsRecord(Count(l))
        /\ Count(l).capacity = l.capacity
        /\ Count(l).size = l.size + 1
        /\ Count(l).items = l.items
  BY <1>1, <1>3, CountFacts
\* What the step does to the list, and what it says of the next step.
<1>7. /\ IsList(l', Chunks) /\ IsRecord(l') /\ l'.size < next
      /\ pc' \in {"count", "write", "exec", "idle"}
      /\ pc' = "write" => l'.size > 0
      /\ pc' = "count" => /\ pc = "append" /\ l'.size < l'.capacity
                          /\ l'.size + 1 < next /\ l'.items[l'.size] = copy
      /\ pc' \in {"exec", "idle"} => /\ pc' = Registered
                                     /\ l'.size > 0 /\ l'.items[l'.size - 1] = copy
      /\ l'.size = IF pc' = "count" \/ pc = "write" THEN l.size ELSE l.size + 1
      /\ \A i \in 0..(l.capacity - 1) : i # k => l'.items[i] = l.items[i]
  <2>1. CASE pc = "append" /\ pc' = "count" /\ l' = Store(l, l.size, copy)
    BY <2>1, <1>1, <1>3, <1>5
  <2>2. CASE pc = "append" /\ pc' = "write" /\ l' = Count(l)
    BY <2>2, <1>1, <1>3, <1>6
  <2>3. CASE pc = "count" /\ pc' = Registered /\ l' = Count(l)
    BY <2>3, <1>1, <1>3, <1>6 DEF Registered
  <2>4. CASE pc = "write" /\ pc' = Registered /\ l' = Store(l, l.size - 1, copy)
    BY <2>4, <1>1, <1>3, <1>5 DEF Registered
  <2> QED
    BY <2>1, <2>2, <2>3, <2>4 DEF Append
<1>8. TypeInvariant'
  BY <1>1, <1>2, <1>7 DEF Inv, TypeInvariant, mainVars, heapVars, handlerVars
<1>9. Stage'
  BY <1>1, <1>2, <1>7 DEF Inv, Stage, mainVars, handlerVars
<1>10. Room'
  BY <1>1, <1>2, <1>7 DEF Inv, Room, mainVars
<1>11. Named'
  BY <1>1, <1>2, <1>7 DEF Inv, Named, Holds, mainVars, heapVars
<1>12. Listed'
  <2>1. \A n \in files \ (left \cup {cur}) : \E i \in Stored : Holds(l.items[i], n)
    BY <1>1 DEF Inv, Listed, Due, Unlisted
  <2>2. \A i \in Stored : i \in 0..(l.capacity - 1) /\ i # k
    BY <1>1, <1>3 DEF Stored
  <2>3. Stored \subseteq Stored'
    BY <1>1, <1>7 DEF Stored
  <2>4. \A n \in files \ (left \cup {cur}) : \E i \in Stored' : Holds(l'.items[i], n)
    BY <2>1, <2>2, <2>3, <1>7
  <2>5. pc' \in {"exec", "idle"} =>
          l'.size - 1 \in Stored' /\ Holds(l'.items[l'.size - 1], cur)
    BY <1>1, <1>7, ListRange DEF Stored, IsList
  <2> QED
    BY <2>4, <2>5, <1>1, <1>2, <1>7 DEF Listed, Due, Unlisted, Holds, mainVars, heapVars
<1>13. Alone'
  <2> SUFFICES ASSUME ~parallel PROVE Alone'
    BY <1>2 DEF Alone, mainVars
  <2>1. /\ serial /\ location[cur] \in allocated /\ running = {}
        /\ copy # location[cur]
        /\ l.size = IF pc = "write" THEN 1 ELSE 0
    BY <1>1 DEF Inv, Alone
  <2>2. pc' # "idle"
    BY <2>1, <1>1, <1>7 DEF Registered
  <2> QED
    BY <2>1, <2>2, <1>1, <1>2, <1>7 DEF Alone, Holds, mainVars, heapVars
<1> QED
  BY <1>8, <1>9, <1>10, <1>11, <1>12, <1>13 DEF Inv

LEMMA UnregisterInv ==
    ASSUME Inv, Unregister
    PROVE  Inv'
<1> USE DEF MainSteps, Points, Pending, Leaving, Busy
<1> DEFINE found == {i \in 0..(tmpFiles.size - 1) : Matches(tmpFiles.items[i])}
           ix == AsSize(Find(found))
<1>1. /\ pc = "unregister" /\ cur \in Scripts
      /\ IF Freeable(tmpFiles, ix) THEN at' = ix /\ pc' = "free"
                                   ELSE at' = at /\ pc' = "release"
      /\ UNCHANGED <<cur, serial, next, location, copy, running, left, parallel,
                     tmpFiles, heapVars, files, handlerVars>>
  BY DEF Inv, Unregister, Stage
<1>2. /\ IsList(tmpFiles, Chunks) /\ tmpFiles.size \in Nat
      /\ found \in SUBSET (0..(tmpFiles.size - 1))
  BY ListRange DEF Inv
<1>3. /\ ix \in 0..SizeMax
      /\ found # {} => ix \in found
      /\ found = {} => ~Freeable(tmpFiles, ix)
  <2> HIDE DEF found
  <2> QED
    BY <1>2, FindFirst
<1>4. /\ pc' \in {"free", "release"} /\ at' \in 0..SizeMax
      /\ pc' = "free" => /\ at' < tmpFiles.size /\ tmpFiles.items[at'] # NULL
                         /\ Matches(tmpFiles.items[at'])
      /\ pc' = "release" => ~Freeable(tmpFiles, ix)
  <2>1. Freeable(tmpFiles, ix) =>
          ix < tmpFiles.size /\ tmpFiles.items[ix] # NULL /\ ix \in found
    BY <1>3 DEF Freeable
  <2>2. ix \in found => Matches(tmpFiles.items[ix])
    OBVIOUS
  <2> HIDE DEF ix, found
  <2> QED
    BY <1>1, <1>3, <2>1, <2>2 DEF Inv, TypeInvariant
<1> HIDE DEF found, ix
<1>5. TypeInvariant'
  BY <1>1, <1>4 DEF Inv, TypeInvariant, heapVars, handlerVars
<1>6. Stage'
  BY <1>1, <1>4 DEF Inv, Stage, handlerVars
<1>7. Room'
  BY <1>1, <1>4 DEF Inv, Room
<1>8. Named'
  BY <1>1, <1>4 DEF Inv, Named, Holds, Matches, heapVars
<1>9. Listed'
  BY <1>1, <1>4 DEF Inv, Listed, Holds, Due, Stored, Unlisted, heapVars
<1>10. Alone'
  <2> SUFFICES ASSUME ~parallel PROVE Alone'
    BY <1>1 DEF Alone
  <2>1. /\ serial /\ location[cur] \in allocated /\ running = {} /\ tmpFiles.size = 1
        /\ tmpFiles.items[0] = copy /\ Holds(copy, cur) /\ copy # location[cur]
    BY <1>1 DEF Inv, Alone
  <2>2. copy # NULL
    BY <2>1, SignalsAssumption DEF Inv, TypeInvariant, Holds
  <2>3. 0 \in found
    BY <2>1, <2>2 DEF found, Matches, Holds
  <2>4. ix = 0
    BY <1>3, <2>1, <2>3 DEF found
  <2>5. Freeable(tmpFiles, ix)
    BY <2>1, <2>2, <2>4 DEF Freeable
  <2>6. pc' = "free"
    BY <1>1, <2>5
  <2> QED
    BY <2>1, <2>6, <1>1 DEF Alone, Holds, heapVars
<1> QED
  BY <1>5, <1>6, <1>7, <1>8, <1>9, <1>10 DEF Inv

LEMMA DropLastInv ==
    ASSUME Inv, DropLast
    PROVE  Inv'
<1> USE DEF MainSteps, Points, Pending, Leaving, Busy
<1>1. /\ pc = "shrink" /\ pc' = "release" /\ tmpFiles' = Shrink(tmpFiles)
      /\ cur \in Scripts /\ at < tmpFiles.size /\ at = tmpFiles.size - 1
      /\ tmpFiles.items[at] \notin allocated
  BY DEF Inv, DropLast, Stage, Room, Named
<1>2. UNCHANGED <<mainVars, heapVars, files, handlerVars>>
  BY DEF DropLast
<1>3. /\ IsList(tmpFiles', Chunks) /\ IsRecord(tmpFiles')
      /\ tmpFiles'.size = tmpFiles.size - 1 /\ tmpFiles'.items = tmpFiles.items
  <2>1. tmpFiles.size > 0
    BY <1>1, ListRange DEF Inv, TypeInvariant
  <2> QED
    BY <1>1, <2>1, ShrinkFacts, ListRange DEF Inv, Room
<1>4. TypeInvariant'
  BY <1>1, <1>2, <1>3 DEF Inv, TypeInvariant, mainVars, heapVars, handlerVars
<1>5. Stage'
  BY <1>1, <1>2 DEF Inv, Stage, mainVars, handlerVars
<1>6. Room'
  BY <1>1, <1>2, <1>3, ListRange DEF Inv, Room, TypeInvariant, mainVars
<1>7. Named'
  BY <1>1, <1>2 DEF Inv, Named, Holds, mainVars, heapVars
<1>8. Listed'
  <2>1. \A n \in files \ left : \E i \in 0..(tmpFiles.size - 1) :
           Holds(tmpFiles.items[i], n) /\ i # at
    BY <1>1 DEF Inv, Listed, Due, Stored, Unlisted, Holds
  <2>2. \A n \in files \ left : \E i \in 0..(tmpFiles'.size - 1) :
           Holds(tmpFiles'.items[i], n)
    BY <2>1, <1>1, <1>3, ListRange DEF Inv
  <2> QED
    BY <2>2, <1>1, <1>2 DEF Listed, Due, Stored, Unlisted, Holds, mainVars, heapVars
<1>9. Alone'
  BY <1>1, <1>2, <1>3 DEF Inv, Alone, mainVars, heapVars, handlerVars
<1> QED
  BY <1>4, <1>5, <1>6, <1>7, <1>8, <1>9 DEF Inv

-----------------------------------------------------------------------------
(* The handler.                                                            *)

LEMMA SignalInv ==
    ASSUME Inv, Signal
    PROVE  Inv'
<1> USE DEF MainSteps, Points, Pending, Leaving, Busy
<1>1. /\ pc \in MainSteps /\ pc' = "handler" /\ interrupted' = pc /\ hix' = 0
      /\ armed' = armed - 1 /\ armed = Handled
      /\ UNCHANGED <<mainVars, tmpFiles, heapVars, files>>
  BY DEF Inv, Signal, Stage
<1>2. TypeInvariant'
  <2>1. armed' \in 0..Handled /\ hix' \in 0..SizeMax
    BY <1>1, SignalsAssumption, SizeMaxAssumption
  <2> QED
    BY <1>1, <2>1 DEF Inv, TypeInvariant, mainVars, heapVars
<1>3. Stage'
  BY <1>1 DEF Inv, Stage, mainVars
<1>4. Room'
  BY <1>1 DEF Inv, Room, mainVars
<1>5. Named'
  BY <1>1 DEF Named
<1>6. Listed'
  <2>1. \A n \in Due(pc) : \E i \in Stored : Holds(tmpFiles.items[i], n)
    BY <1>1 DEF Inv, Listed
  <2>2. Stored \subseteq 0..(tmpFiles.size - 1)
    BY ListRange DEF Inv, Stored
  <2>3. \A c, n : Holds(c, n) => c # NULL /\ mem[c] = n
    BY SignalsAssumption DEF Inv, TypeInvariant, Holds
  <2>4. \A n \in Due(pc) : \E i \in 0..(tmpFiles.size - 1) :
           tmpFiles.items[i] # NULL /\ mem[tmpFiles.items[i]] = n
    BY <2>1, <2>2, <2>3
  <2> QED
    BY <2>4, <1>1 DEF Listed, Due, mainVars, heapVars
<1>7. Alone'
  <2> SUFFICES ASSUME ~parallel PROVE Alone'
    BY <1>1 DEF Alone, mainVars
  <2>1. pc \notin {"shrink", "write"} =>
          \A i \in 0..(tmpFiles.size - 1) : tmpFiles.items[i] \in allocated
    BY <1>1 DEF Inv, Alone, Holds
  <2> QED
    BY <2>1, <1>1 DEF Alone, mainVars, heapVars
<1> QED
  BY <1>2, <1>3, <1>4, <1>5, <1>6, <1>7 DEF Inv

LEMMA RemoveNextInv ==
    ASSUME Inv, RemoveNext
    PROVE  Inv'
<1> USE DEF MainSteps, Points, Pending, Leaving, Busy
<1> DEFINE item == tmpFiles.items[hix]
<1>1. /\ pc = "handler" /\ interrupted # "grow" /\ hix < tmpFiles.size /\ hix' = hix + 1
      /\ files' = IF item = NULL THEN files ELSE files \ {mem[item]}
      /\ UNCHANGED <<pc, mainVars, tmpFiles, heapVars, armed, interrupted>>
  BY DEF RemoveNext
<1>2. hix \in Nat /\ hix' \in 0..SizeMax /\ tmpFiles.size \in Nat
  BY <1>1, ListRange DEF Inv, TypeInvariant
<1>3. TypeInvariant'
  BY <1>1, <1>2 DEF Inv, TypeInvariant, mainVars, heapVars
<1>4. Stage'
  BY <1>1 DEF Inv, Stage, mainVars
<1>5. Room'
  BY <1>1 DEF Inv, Room, mainVars
<1>6. Named'
  BY <1>1 DEF Named
<1>7. Listed'
  <2>1. \A n \in Due(interrupted) : \E i \in hix..(tmpFiles.size - 1) :
           tmpFiles.items[i] # NULL /\ mem[tmpFiles.items[i]] = n
    BY <1>1 DEF Inv, Listed
  <2>2. Due(interrupted)' \subseteq Due(interrupted)
    BY <1>1 DEF Due, mainVars
  <2>3. item # NULL => mem[item] \notin Due(interrupted)'
    BY <1>1 DEF Due
  <2>4. \A n \in Due(interrupted)' : \E i \in (hix + 1)..(tmpFiles.size - 1) :
           tmpFiles.items[i] # NULL /\ mem[tmpFiles.items[i]] = n
    <3> SUFFICES ASSUME NEW n \in Due(interrupted)'
                 PROVE  \E i \in (hix + 1)..(tmpFiles.size - 1) :
                          tmpFiles.items[i] # NULL /\ mem[tmpFiles.items[i]] = n
      OBVIOUS
    <3>1. PICK i \in hix..(tmpFiles.size - 1) :
             tmpFiles.items[i] # NULL /\ mem[tmpFiles.items[i]] = n
      BY <2>1, <2>2
    <3>2. i # hix
      BY <2>3, <3>1
    <3>3. i \in (hix + 1)..(tmpFiles.size - 1)
      BY <1>2, <3>1, <3>2
    <3> QED
      BY <3>1, <3>3
  <2> QED
    BY <2>4, <1>1 DEF Listed, mainVars, heapVars
<1>8. Alone'
  BY <1>1 DEF Inv, Alone, mainVars, heapVars
<1> QED
  BY <1>3, <1>4, <1>5, <1>6, <1>7, <1>8 DEF Inv

LEMMA RemoveTornInv ==
    ASSUME Inv, RemoveTorn
    PROVE  Inv'
<1> USE DEF MainSteps, Points, Pending, Leaving, Busy
<1>1. /\ pc = "handler" /\ pc' = "quit" /\ interrupted = "grow" /\ files' \subseteq files
      /\ UNCHANGED <<mainVars, tmpFiles, heapVars, handlerVars>>
  BY DEF RemoveTorn
<1>2. TypeInvariant'
  BY <1>1 DEF Inv, TypeInvariant, mainVars, heapVars, handlerVars
<1>3. Stage'
  BY <1>1 DEF Inv, Stage, mainVars, handlerVars
<1>4. Room'
  BY <1>1 DEF Inv, Room, mainVars
<1>5. Named'
  BY <1>1 DEF Named
<1>6. Listed'
  BY <1>1 DEF Listed, handlerVars
<1>7. Alone'
  BY <1>1 DEF Inv, Alone, mainVars, heapVars, handlerVars
<1> QED
  BY <1>2, <1>3, <1>4, <1>5, <1>6, <1>7 DEF Inv

LEMMA QuitInv ==
    ASSUME Inv, Quit
    PROVE  Inv'
<1> USE DEF MainSteps, Points, Pending, Leaving, Busy
<1>1. /\ pc = "handler" /\ pc' = "quit" /\ interrupted # "grow" /\ hix >= tmpFiles.size
      /\ UNCHANGED <<mainVars, tmpFiles, heapVars, files, handlerVars>>
  BY DEF Quit
<1>2. TypeInvariant'
  BY <1>1 DEF Inv, TypeInvariant, mainVars, heapVars, handlerVars
<1>3. Stage'
  BY <1>1 DEF Inv, Stage, mainVars, handlerVars
<1>4. Room'
  BY <1>1 DEF Inv, Room, mainVars
<1>5. Named'
  BY <1>1 DEF Named
<1>6. Listed'
  BY <1>1 DEF Inv, Listed, Due, mainVars, heapVars, handlerVars
<1>7. Alone'
  BY <1>1 DEF Inv, Alone, mainVars, heapVars, handlerVars
<1> QED
  BY <1>2, <1>3, <1>4, <1>5, <1>6, <1>7 DEF Inv

\* A second handler starts with the first entry: what is left to be read only
\* becomes more.
LEMMA SignalAgainInv ==
    ASSUME Inv, SignalAgain
    PROVE  Inv'
<1> USE DEF MainSteps, Points, Pending, Leaving, Busy
<1>1. /\ pc = "handler"
      /\ \/ pc' = "handler" /\ hix' = 0 /\ armed' = armed - 1 /\ armed > 0
         \/ pc' = "killed" /\ hix' = hix /\ armed' = armed
      /\ UNCHANGED <<mainVars, tmpFiles, heapVars, files, interrupted>>
  BY DEF SignalAgain
<1>2. TypeInvariant'
  <2>1. hix' \in 0..SizeMax /\ armed' \in 0..Handled
    BY <1>1, SizeMaxAssumption, SignalsAssumption DEF Inv, TypeInvariant
  <2> QED
    BY <1>1, <2>1 DEF Inv, TypeInvariant, mainVars, heapVars
<1>3. Stage'
  BY <1>1 DEF Inv, Stage, mainVars
<1>4. Room'
  BY <1>1 DEF Inv, Room, mainVars
<1>5. Named'
  BY <1>1 DEF Named
<1>6. Listed'
  <2>1. hix \in Nat /\ hix..(tmpFiles.size - 1) \subseteq 0..(tmpFiles.size - 1)
    BY ListRange DEF Inv, TypeInvariant
  <2>2. interrupted # "grow" =>
          \A n \in Due(interrupted) : \E i \in 0..(tmpFiles.size - 1) :
             tmpFiles.items[i] # NULL /\ mem[tmpFiles.items[i]] = n
    BY <1>1, <2>1 DEF Inv, Listed
  <2> QED
    BY <2>2, <1>1 DEF Listed, Due, mainVars, heapVars
<1>7. Alone'
  BY <1>1 DEF Inv, Alone, mainVars, heapVars
<1> QED
  BY <1>2, <1>3, <1>4, <1>5, <1>6, <1>7 DEF Inv

LEMMA StutterInv ==
    ASSUME Inv, UNCHANGED vars
    PROVE  Inv'
<1>1. UNCHANGED <<pc, mainVars, tmpFiles, heapVars, files, handlerVars>>
  BY DEF vars
<1> USE <1>1 DEF mainVars, heapVars, handlerVars
<1>2. TypeInvariant'
  BY DEF Inv, TypeInvariant
<1>3. Stage'
  BY DEF Inv, Stage
<1>4. Room'
  BY DEF Inv, Room
<1>5. Named'
  BY DEF Inv, Named, Holds, Matches
<1>6. Listed'
  BY DEF Inv, Listed, Due, Stored, Holds
<1>7. Alone'
  BY DEF Inv, Alone, Holds
<1> QED
  BY <1>2, <1>3, <1>4, <1>5, <1>6, <1>7 DEF Inv

LEMMA NextInv == Inv /\ [Next]_vars => Inv'
<1> SUFFICES ASSUME Inv, [Next]_vars PROVE Inv'
  OBVIOUS
<1>1. CASE Main
  <2>1. CASE Install
    BY <2>1, InstallInv
  <2>2. CASE Write(TRUE)
    BY <2>2, WriteInv, Zenon
  <2>3. CASE Write(FALSE)
    BY <2>3, WriteInv, Zenon
  <2>4. CASE ForkParallel
    BY <2>4, ForkParallelInv
  <2>5. CASE Strdup
    BY <2>5, StrdupInv
  <2>6. CASE Grow
    BY <2>6, GrowInv
  <2>7. CASE Append
    BY <2>7, AppendInv
  <2>8. CASE ForkSerial
    BY <2>8, ForkSerialInv
  <2>9. CASE WaitSerial
    BY <2>9, WaitSerialInv
  <2>10. CASE \E n \in Scripts : Collect(n) \/ Forget(n)
    BY <2>10, CollectInv, ForgetInv
  <2>11. CASE Unregister
    BY <2>11, UnregisterInv
  <2>12. CASE FreeItem
    BY <2>12, FreeItemInv
  <2>13. CASE DropLast
    BY <2>13, DropLastInv
  <2>14. CASE Release
    BY <2>14, ReleaseInv
  <2>15. CASE Finish
    BY <2>15, FinishInv
  <2> QED
    BY <1>1, <2>1, <2>2, <2>3, <2>4, <2>5, <2>6, <2>7, <2>8, <2>9, <2>10, <2>11,
       <2>12, <2>13, <2>14, <2>15, Zenon DEF Main
<1>2. CASE Handler
  BY <1>2, RemoveNextInv, RemoveTornInv, QuitInv DEF Handler
<1>3. CASE Signal
  BY <1>3, SignalInv
<1>4. CASE SignalAgain
  BY <1>4, SignalAgainInv
<1>5. CASE UNCHANGED vars
  BY <1>5, StutterInv
<1> QED
  BY <1>1, <1>2, <1>3, <1>4, <1>5, Zenon DEF Next, Ended

-----------------------------------------------------------------------------
(* The theorems.                                                           *)

LEMMA InvAlways == Spec => []Inv
  BY InitInv, NextInv, PTL DEF Spec

\* The state of the executor, its heap and its list keeps its types: however
\* scripts end and signals come, the list is never longer than its capacity and
\* its capacity a size_t.
THEOREM TypeCorrect == Spec => []TypeInvariant
<1>1. Inv => TypeInvariant
  BY DEF Inv
<1> QED
  BY InvAlways, <1>1, PTL

\* For every number of scripts, slots and addresses, wherever the signal comes
\* and however often, a handler that reaches its end leaves only scripts behind
\* that mb_exec unregistered without removing them, and the one that is just
\* being registered (signals.c, mb_unregister_tmp_file, mb_exec).
THEOREM HandlerCorrect == Spec => []HandlerCleans
<1>1. Inv => HandlerCleans
  <2> SUFFICES ASSUME Inv, pc = "quit", interrupted # "grow"
               PROVE  Due(interrupted) = {}
    BY DEF HandlerCleans, Due
  <2>1. hix \in Nat /\ hix >= tmpFiles.size /\ tmpFiles.size \in Nat
    BY ListRange DEF Inv, TypeInvariant, Listed
  <2>2. \A n \in Due(interrupted) : \E i \in hix..(tmpFiles.size - 1) : TRUE
    BY DEF Inv, Listed
  <2> QED
    BY <2>1, <2>2
<1> QED
  BY InvAlways, <1>1, PTL

\* As long as only serial rules were run, for every number of scripts, every
\* heap and wherever a signal comes, the list has no pointer to freed memory
\* and nothing is freed twice (mb_exec, run_singular, cptrlist_free_at).
THEOREM SerialHeapCorrect == Spec => []SerialHeapSafe
<1>1. Inv => SerialHeapSafe
  <2> SUFFICES ASSUME Inv, ~parallel,
                      NEW i \in 0..(tmpFiles.size - 1), pc # "shrink", pc # "write",
                      interrupted \notin {"shrink", "write"}
               PROVE  tmpFiles.items[i] \in allocated
    BY DEF SerialHeapSafe, Inv, Alone
  <2>1. CASE pc \in MainSteps
    BY <2>1 DEF Inv, Alone, Holds, MainSteps
  <2>2. CASE pc \notin MainSteps
    BY <2>2 DEF Inv, Alone
  <2> QED
    BY <2>1, <2>2
<1> QED
  BY InvAlways, <1>1, PTL
=============================================================================
