--------------------------- MODULE FrontEndProofs ---------------------------
(***************************************************************************)
(* Proofs about FrontEnd for every set of names, options, build files and  *)
(* every length of the command line.                                       *)
(***************************************************************************)
EXTENDS FrontEnd, SequenceTheorems, TLAPS

-----------------------------------------------------------------------------
(* The inductive invariant.                                                *)

Args == [target : Names \cup {Absent}, force : BOOLEAN, keepGoing : BOOLEAN,
         verbosity : LOG_INVALID..LOG_ERROR, overriden : BOOLEAN]
Config == [target : Names \cup {IllTyped}, public : {"default", "own"},
           buildType : {"full", "incremental"}, force : BOOLEAN, keepGoing : BOOLEAN]

TypeInv ==
    /\ argv \in Seq(Options) /\ file \in File
    /\ pc \in {"args", "start", "load", "build", "free", "ended", "crashed"}
    /\ next \in 1..(Len(argv) + 1)
    /\ args \in Args
    /\ cfg \in Config
    /\ logLevel \in LOG_INVALID..LOG_ERROR
    /\ lists \in [{"default", "own"} -> {"none", "live", "freed", "freed twice"}]
    /\ ran \in Names \cup {Absent}
    /\ dangling \in BOOLEAN
    /\ result \in 0..255

\* No option that was parsed has this key.
NoneOf(key) == \A i \in 1..(next - 1) : argv[i].key # key

\* The i-th option is the last with this key that was parsed.
LastOf(key, i) ==
    /\ i < next /\ argv[i].key = key
    /\ \A j \in 1..(next - 1) : argv[j].key = key => j <= i

\* args holds the last option of each key, and all of them were understood.
Parsed ==
    /\ NoneOf("unknown")
    /\ args.force = ~NoneOf("f") /\ args.keepGoing = ~NoneOf("k")
    /\ \/ args.target = Absent /\ NoneOf("t")
       \/ \E i \in DOMAIN argv : LastOf("t", i) /\ args.target = argv[i].arg
    /\ \/ ~args.overriden /\ NoneOf("v")
       \/ /\ args.overriden
          /\ \E i \in DOMAIN argv :
               LastOf("v", i) /\ args.verbosity = StrToLoglvl(argv[i].arg)

\* The default list lives until the configuration has one of its own, and the
\* one in use is destroyed at the end.
Owned ==
    /\ \A l \in DOMAIN lists : lists[l] # "freed twice"
    /\ pc \in {"args", "start"} => \A l \in DOMAIN lists : lists[l] = "none"
    /\ pc = "load" => lists["default"] = "live" /\ lists["own"] = "none"
    /\ pc \in {"build", "free"} => \A l \in DOMAIN lists : lists[l] = "live" <=> l = cfg.public
    /\ pc = "ended" /\ (ran # Absent \/ result = 0) => \A l \in DOMAIN lists : lists[l] # "live"

Default == IF file.config /\ file.default # Absent THEN file.default ELSE "debug"

\* The whole command line was parsed before the build, and what it says holds.
Chosen ==
    /\ pc \in {"args", "start", "load", "build"} => ran = Absent
    /\ pc \in {"start", "load", "build", "free"} => next = Len(argv) + 1
    /\ pc \in {"start", "load", "build", "free"} /\ args.overriden =>
         logLevel = args.verbosity
    /\ pc \in {"load", "build", "free"} => file.targets \in SUBSET Names /\ file.parses
    /\ pc \in {"build", "free"} =>
         /\ cfg.target = Target(Default)
         /\ cfg.force = args.force /\ cfg.keepGoing = args.keepGoing
         /\ ran # Absent => ran = cfg.target /\ ran \in file.targets
    /\ pc = "free" /\ ran = Absent => result # 0

\* The target was run when mb ends with 0.
Done ==
    pc = "ended" /\ result = 0 =>
        /\ next = Len(argv) + 1
        /\ file.parses
        /\ ran = Target(Default) /\ ran \in file.targets

Inv == TypeInv /\ Parsed /\ Owned /\ Chosen /\ Done

-----------------------------------------------------------------------------
(* Types.                                                                  *)

LEMMA LevelType == \A n : StrToLoglvl(n) \in LOG_INVALID..LOG_ERROR
  BY DEF StrToLoglvl, LOG_INVALID, LOG_DEBUG, LOG_ERROR

LEMMA BuildTypesType ==
    ASSUME file \in File
    PROVE  /\ BuildTypes \subseteq {"full", "incremental", "crash"}
           /\ "crash" \in BuildTypes => file.config /\ file.buildType = "other"
  BY DEF BuildTypes, StrToBuildType, File

\* A command line is a sequence of options.
LEMMA ArgvType ==
    ASSUME argv \in SeqOf(Options, MaxOptions)
    PROVE  argv \in Seq(Options)
<1>1. PICK m \in 0..MaxOptions : argv \in [1..m -> Options]
  BY DEF SeqOf
<1> QED
  BY <1>1, OptionsAssumption

LEMMA TypeInit == Init => TypeInv
<1> SUFFICES ASSUME Init PROVE TypeInv
  OBVIOUS
<1>1. argv \in Seq(Options) /\ Len(argv) \in Nat
  BY ArgvType DEF Init
<1>2. next \in 1..(Len(argv) + 1)
  BY <1>1 DEF Init
<1>3. file \in File
  BY FrontEndFilesAssumption DEF Init
<1>4. args \in Args /\ cfg \in Config
  BY FrontEndFilesAssumption
  DEF Init, NoArgs, Args, DefaultConfig, Config, LOG_STEPS, LOG_INVALID, LOG_ERROR
<1>5. logLevel \in LOG_INVALID..LOG_ERROR
  BY DEF Init, LOG_STEPS, LOG_INVALID, LOG_ERROR
<1>6. lists \in [{"default", "own"} -> {"none", "live", "freed", "freed twice"}]
  BY DEF Init
<1>7. pc = "args" /\ ran = Absent /\ dangling = FALSE /\ result \in 0..255
  BY DEF Init
<1>8. dangling \in BOOLEAN
  BY <1>7
<1> QED
  BY <1>1, <1>2, <1>3, <1>4, <1>5, <1>6, <1>7, <1>8, Zenon DEF TypeInv

LEMMA ArgvFacts ==
    ASSUME TypeInv
    PROVE  /\ Len(argv) \in Nat /\ DOMAIN argv = 1..Len(argv)
           /\ next \in 1..(Len(argv) + 1)
           /\ \A i \in DOMAIN argv : argv[i] \in Options
<1>1. argv \in Seq(Options) /\ next \in 1..(Len(argv) + 1)
  BY DEF TypeInv
<1> QED
  BY <1>1, LenProperties, ElementOfSeq

LEMMA OptType ==
    ASSUME TypeInv, next \in DOMAIN argv
    PROVE  argv[next] \in Option
  BY ArgvFacts, OptionsAssumption

LEMMA ParseType ==
    ASSUME TypeInv, next \in DOMAIN argv, argv[next].key # "unknown"
    PROVE  ParseOpt(argv[next]) \in Args
<1> DEFINE o == argv[next]
<1>1. o \in Option /\ o.key \in {"t", "v", "f", "k"} /\ (o.key = "t" => o.arg \in Names)
  BY OptType DEF Option
<1>2. args \in Args
  BY DEF TypeInv
<1>3. StrToLoglvl(o.arg) \in LOG_INVALID..LOG_ERROR
  BY LevelType
<1> HIDE DEF o
<1>4. ParseOpt(o) \in Args
  <2>1. CASE o.key = "t"
    BY <1>1, <1>2, <2>1 DEF ParseOpt, Args
  <2>2. CASE o.key = "v"
    BY <1>2, <1>3, <2>2 DEF ParseOpt, Args
  <2>3. CASE o.key = "f"
    BY <1>2, <2>3 DEF ParseOpt, Args
  <2>4. CASE o.key = "k"
    BY <1>2, <2>4 DEF ParseOpt, Args
  <2> QED
    BY <1>1, <2>1, <2>2, <2>3, <2>4
<1> QED
  BY <1>4 DEF o

LEMMA TargetType ==
    ASSUME TypeInv
    PROVE  Target(Default) \in Names \cup {IllTyped}
<1>1. Default \in Names \cup {IllTyped}
  BY FrontEndFilesAssumption DEF Default, TypeInv, File
<1>2. args.target \in Names \cup {Absent}
  BY DEF TypeInv, Args
<1> QED
  BY <1>1, <1>2 DEF Target

LEMMA ListsType ==
    ASSUME TypeInv, NEW l \in {"default", "own"}
    PROVE  /\ Destroyed(l) \in [{"default", "own"} -> {"none", "live", "freed", "freed twice"}]
           /\ lists[l] = "live" => Destroyed(l)[l] = "freed"
           /\ \A k \in {"default", "own"} : k # l => Destroyed(l)[k] = lists[k]
  BY DEF TypeInv, Destroyed

LEMMA PublicTargetsType ==
    ASSUME TypeInv
    PROVE  /\ PublicTargets.owner \in {"default", "own"}
           /\ PublicTargets.heap \in
                [{"default", "own"} -> {"none", "live", "freed", "freed twice"}]
  BY ListsType DEF PublicTargets, TypeInv

\* What LoadConfiguration puts together.
LEMMA LoadedType ==
    ASSUME TypeInv, LoadConfiguration
    PROVE  /\ cfg' \in Config
           /\ cfg'.target = Target(Default)
           /\ cfg'.public = PublicTargets.owner
           /\ cfg'.force = args.force /\ cfg'.keepGoing = args.keepGoing
           /\ logLevel' \in LOG_INVALID..LOG_ERROR
           /\ args.overriden => logLevel' = logLevel
<1>1. PICK type \in BuildTypes \ {"crash"} :
         cfg' = [target |-> Target(Default), public |-> PublicTargets.owner,
                 buildType |-> type, force |-> args.force, keepGoing |-> args.keepGoing]
  BY DEF LoadConfiguration, Default, DefaultConfig
<1>2. type \in {"full", "incremental"}
  BY <1>1, BuildTypesType DEF TypeInv
<1>3. args.force \in BOOLEAN /\ args.keepGoing \in BOOLEAN
  BY DEF TypeInv, Args
<1>4. cfg' \in Config
  BY <1>1, <1>2, <1>3, TargetType, PublicTargetsType DEF Config
<1>5. file.logLevel # Absent => file.logLevel \in Int
  BY DEF TypeInv, File
<1>6. logLevel' \in LOG_INVALID..LOG_ERROR
  <2>1. \/ logLevel' = logLevel
        \/ logLevel' = file.logLevel /\ file.logLevel # Absent /\ Wanted(file.logLevel)
    BY DEF LoadConfiguration
  <2>2. logLevel \in LOG_INVALID..LOG_ERROR
    BY DEF TypeInv
  <2> QED
    BY <1>5, <2>1, <2>2 DEF Wanted, LOG_INVALID, LOG_ERROR
<1>7. args.overriden => logLevel' = logLevel
  BY DEF LoadConfiguration
<1> QED
  BY <1>1, <1>4, <1>6, <1>7

LEMMA TypeStep ==
    ASSUME TypeInv, Chosen, [Next]_vars
    PROVE  TypeInv'
<1>1. CASE ParseOption
  <2>1. next + 1 \in 1..(Len(argv) + 1)
    BY <1>1, ArgvFacts DEF ParseOption
  <2>2. args' \in Args
    BY <1>1, ParseType DEF ParseOption
  <2> QED
    BY <1>1, <2>1, <2>2 DEF ParseOption, TypeInv, inputs
<1>2. CASE UnknownOption
  <2>1. pc' = "ended" /\ result' = 64 /\ 64 \in 0..255
    BY <1>2 DEF UnknownOption, End
  <2>2. UNCHANGED <<argv, file, next, args, logLevel, cfg, lists, ran, dangling>>
    BY <1>2 DEF UnknownOption, inputs
  <2> QED
    BY <2>1, <2>2, Zenon DEF TypeInv
<1>3. CASE Main
  <2>1. args.verbosity \in LOG_INVALID..LOG_ERROR
    BY DEF TypeInv, Args
  <2>2. pc' = "start" /\ logLevel' = args.verbosity
    BY <1>3 DEF Main
  <2>3. UNCHANGED <<argv, file, next, args, cfg, lists, ran, dangling, result>>
    BY <1>3 DEF Main, inputs
  <2> QED
    BY <2>1, <2>2, <2>3, Zenon DEF TypeInv
<1>4. CASE MbStart
  <2>1. /\ pc' \in {"load", "ended"} /\ result' \in {result, 1}
        /\ lists' = [lists EXCEPT !["default"] = "live"]
        /\ UNCHANGED <<argv, file, next, args, logLevel, cfg, ran, dangling>>
    BY <1>4 DEF MbStart, End, inputs
  <2>2. lists' \in [{"default", "own"} -> {"none", "live", "freed", "freed twice"}]
    BY <2>1 DEF TypeInv
  <2>3. result \in 0..255
    BY DEF TypeInv
  <2>4. result' \in 0..255
    BY <2>1, <2>3
  <2> QED
    BY <2>1, <2>2, <2>4, Zenon DEF TypeInv
<1>5. CASE LoadConfiguration
  <2>1. /\ cfg' \in Config /\ logLevel' \in LOG_INVALID..LOG_ERROR
        /\ lists' \in [{"default", "own"} -> {"none", "live", "freed", "freed twice"}]
    BY <1>5, LoadedType, PublicTargetsType DEF LoadConfiguration
  <2>2. pc' = "build" /\ UNCHANGED <<argv, file, next, args, ran, dangling, result>>
    BY <1>5 DEF LoadConfiguration, inputs
  <2> QED
    BY <2>1, <2>2, Zenon DEF TypeInv
<1>6. CASE Crash
  BY <1>6 DEF Crash, TypeInv, inputs
<1>7. CASE MbBeginBuild
  <2>1. pc = "build" /\ file.targets \in SUBSET Names /\ ran = Absent
    BY <1>7 DEF MbBeginBuild, Chosen
  <2>2. /\ ran' \in Names \cup {Absent} /\ result' \in Codes \cup {1}
        /\ dangling' \in BOOLEAN
    BY <1>7, <2>1 DEF MbBeginBuild, TypeInv
  <2>3. result' \in 0..255
    BY <2>2, CodesAssumption
  <2>4. pc' = "free" /\ UNCHANGED <<argv, file, next, args, logLevel, cfg, lists>>
    BY <1>7 DEF MbBeginBuild, inputs
  <2> QED
    BY <2>2, <2>3, <2>4 DEF TypeInv
<1>8. CASE Finish
  <2>1. Destroyed(cfg.public) \in [{"default", "own"} -> {"none", "live", "freed", "freed twice"}]
    BY ListsType DEF TypeInv, Config
  <2> QED
    BY <1>8, <2>1 DEF Finish, End, TypeInv, inputs
<1>9. CASE UNCHANGED vars
  BY <1>9 DEF vars, inputs, TypeInv
<1> QED
  BY <1>1, <1>2, <1>3, <1>4, <1>5, <1>6, <1>7, <1>8, <1>9 DEF Next

-----------------------------------------------------------------------------
(* The command line.                                                       *)

LEMMA ParsedOne ==
    ASSUME TypeInv, Parsed, ParseOption
    PROVE  Parsed'
<1> DEFINE o == argv[next]
<1>1. /\ next \in 1..Len(argv) /\ DOMAIN argv = 1..Len(argv) /\ Len(argv) \in Nat
      /\ next' = next + 1 /\ argv' = argv
  BY ArgvFacts DEF ParseOption, inputs
<1>2. o.key \in {"t", "v", "f", "k"} /\ args \in Args
  BY OptType DEF ParseOption, Option, TypeInv
<1>3. args' = ParseOpt(o)
  BY DEF ParseOption
<1>4. \A i \in 1..next : i \in 1..(next - 1) \/ i = next
  BY <1>1
<1>5. ASSUME NEW key, o.key = key, NEW i, i = next
      PROVE  LastOf(key, i)'
  <2>1. next < next + 1 /\ \A j \in 1..((next + 1) - 1) : j <= next
    BY <1>1
  <2> QED
    BY <1>1, <1>5, <2>1 DEF LastOf
<1>6. ASSUME NEW key, o.key # key
      PROVE  /\ NoneOf(key) => NoneOf(key)'
             /\ \A i \in DOMAIN argv : LastOf(key, i) => LastOf(key, i)'
  <2>1. NoneOf(key) => NoneOf(key)'
    BY <1>1, <1>4, <1>6 DEF NoneOf
  <2>2. ASSUME NEW i \in DOMAIN argv, LastOf(key, i) PROVE LastOf(key, i)'
    BY <1>1, <1>4, <1>6, <2>2 DEF LastOf
  <2> QED
    BY <2>1, <2>2
<1>7. \/ args'.target = Absent /\ NoneOf("t")'
      \/ \E i \in DOMAIN argv : LastOf("t", i)' /\ args'.target = argv[i].arg
  <2>1. CASE o.key = "t"
    <3>1. args'.target = argv[next].arg
      BY <1>2, <1>3, <2>1 DEF ParseOpt, Args
    <3> QED
      BY <1>1, <1>5, <2>1, <3>1
  <2>2. CASE o.key # "t"
    <3>1. args'.target = args.target
      BY <1>2, <1>3, <2>2 DEF ParseOpt, Args
    <3> QED
      BY <1>6, <2>2, <3>1 DEF Parsed
  <2> QED
    BY <2>1, <2>2
<1>8. \/ ~args'.overriden /\ NoneOf("v")'
      \/ /\ args'.overriden
         /\ \E i \in DOMAIN argv :
              LastOf("v", i)' /\ args'.verbosity = StrToLoglvl(argv[i].arg)
  <2>1. CASE o.key = "v"
    <3>1. args'.overriden /\ args'.verbosity = StrToLoglvl(argv[next].arg)
      BY <1>2, <1>3, <2>1 DEF ParseOpt, Args
    <3> QED
      BY <1>1, <1>5, <2>1, <3>1
  <2>2. CASE o.key # "v"
    <3>1. args'.overriden = args.overriden /\ args'.verbosity = args.verbosity
      BY <1>2, <1>3, <2>2 DEF ParseOpt, Args
    <3> QED
      BY <1>6, <2>2, <3>1 DEF Parsed
  <2> QED
    BY <2>1, <2>2
<1>9. NoneOf("unknown")'
  BY <1>2, <1>6 DEF Parsed
<1>10. args'.force = ~(NoneOf("f")')
  <2>1. CASE o.key = "f"
    <3>1. args'.force = TRUE
      BY <1>2, <1>3, <2>1 DEF ParseOpt, Args
    <3>2. ~(NoneOf("f")')
      BY <1>1, <2>1 DEF NoneOf
    <3> QED
      BY <3>1, <3>2
  <2>2. CASE o.key # "f"
    <3>1. args'.force = args.force
      BY <1>2, <1>3, <2>2 DEF ParseOpt, Args
    <3>2. NoneOf("f")' = NoneOf("f")
      BY <1>1, <1>4, <2>2 DEF NoneOf
    <3> QED
      BY <3>1, <3>2 DEF Parsed
  <2> QED
    BY <2>1, <2>2
<1>11. args'.keepGoing = ~(NoneOf("k")')
  <2>1. CASE o.key = "k"
    <3>1. args'.keepGoing = TRUE
      BY <1>2, <1>3, <2>1 DEF ParseOpt, Args
    <3>2. ~(NoneOf("k")')
      BY <1>1, <2>1 DEF NoneOf
    <3> QED
      BY <3>1, <3>2
  <2>2. CASE o.key # "k"
    <3>1. args'.keepGoing = args.keepGoing
      BY <1>2, <1>3, <2>2 DEF ParseOpt, Args
    <3>2. NoneOf("k")' = NoneOf("k")
      BY <1>1, <1>4, <2>2 DEF NoneOf
    <3> QED
      BY <3>1, <3>2 DEF Parsed
  <2> QED
    BY <2>1, <2>2
<1> QED
  BY <1>1, <1>7, <1>8, <1>9, <1>10, <1>11 DEF Parsed

LEMMA ParsedStep ==
    ASSUME TypeInv, Parsed, [Next]_vars
    PROVE  Parsed'
<1>1. CASE ParseOption
  BY <1>1, ParsedOne
<1>2. CASE UNCHANGED <<argv, next, args>>
  BY <1>2 DEF Parsed, NoneOf, LastOf
<1> QED
  BY <1>1, <1>2
  DEF Next, vars, UnknownOption, Main, MbStart, LoadConfiguration, Crash, MbBeginBuild,
      Finish, inputs

\* Once everything was parsed, the last option is the last of the command line.
LEMMA LastArgIs ==
    ASSUME TypeInv, next = Len(argv) + 1, NEW key, NEW otherwise
    PROVE  /\ NoneOf(key) <=> ~Given(key)
           /\ NoneOf(key) => LastArg(key, otherwise) = otherwise
           /\ \A i \in DOMAIN argv : LastOf(key, i) => LastArg(key, otherwise) = argv[i].arg
<1> DEFINE found == {i \in DOMAIN argv : argv[i].key = key}
<1>1. DOMAIN argv = 1..(next - 1) /\ next \in Nat
  BY ArgvFacts
<1>2. NoneOf(key) => found = {}
  BY <1>1 DEF NoneOf
<1>3. ASSUME NEW i \in DOMAIN argv, LastOf(key, i)
      PROVE  LastArg(key, otherwise) = argv[i].arg
  <2>1. i \in found /\ \A j \in found : j <= i
    BY <1>1, <1>3 DEF LastOf
  <2>2. \A k \in found : (\A j \in found : j <= k) => k = i
    BY <1>1, <2>1
  <2>3. (CHOOSE k \in found : \A j \in found : j <= k) = i
    BY <2>1, <2>2
  <2> QED
    BY <2>1, <2>3 DEF LastArg
<1>4. NoneOf(key) <=> ~Given(key)
  BY <1>1 DEF NoneOf, Given
<1> QED
  BY <1>2, <1>3, <1>4 DEF LastArg

-----------------------------------------------------------------------------
(* The lists, the choice of the target, and the end.                       *)

LEMMA OwnedStep ==
    ASSUME TypeInv, Owned, Chosen, [Next]_vars
    PROVE  Owned'
<1>one. 1 # 0
  OBVIOUS
<1> USE DEF Owned
<1>0. DOMAIN lists = {"default", "own"} /\ cfg.public \in {"default", "own"}
  BY DEF TypeInv, Config
<1>1. CASE ParseOption
  BY <1>1 DEF ParseOption
<1>2. CASE UnknownOption
  BY <1>2 DEF UnknownOption, End, Chosen
<1>3. CASE Main
  BY <1>3 DEF Main
<1>4. CASE MbStart
  <2>1. /\ lists'["default"] = "live" /\ lists'["own"] = "none"
        /\ DOMAIN lists' = {"default", "own"}
    BY <1>4 DEF MbStart, TypeInv
  <2>2. \/ pc' = "load"
        \/ pc' = "ended" /\ result' # 0 /\ ran' = Absent
    BY <1>4, <1>one DEF MbStart, End, Chosen
  <2> QED
    BY <2>1, <2>2
<1>5. CASE LoadConfiguration
  <2>1. lists["default"] = "live" /\ lists["own"] = "none"
    BY <1>5 DEF LoadConfiguration
  <2>2. /\ DOMAIN lists' = {"default", "own"}
        /\ \/ /\ cfg'.public = "own"
              /\ lists'["own"] = "live" /\ lists'["default"] = "freed"
           \/ /\ cfg'.public = "default"
              /\ lists'["own"] = "none" /\ lists'["default"] = "live"
    <3>1. /\ Destroyed("default")["default"] = "freed"
          /\ DOMAIN Destroyed("default") = {"default", "own"}
      BY <2>1, ListsType
    <3>2. cfg'.public = PublicTargets.owner /\ lists' = PublicTargets.heap
      BY <1>5, LoadedType DEF LoadConfiguration
    <3> QED
      BY <1>0, <2>1, <3>1, <3>2 DEF PublicTargets
  <2>3. pc' = "build"
    BY <1>5 DEF LoadConfiguration
  <2> QED
    BY <2>2, <2>3
<1>6. CASE Crash
  BY <1>6 DEF Crash
<1>7. CASE MbBeginBuild
  BY <1>7 DEF MbBeginBuild
<1>8. CASE Finish
  <2>1. /\ lists[cfg.public] = "live" /\ lists' = Destroyed(cfg.public)
        /\ pc' \in {"ended", "crashed"}
    BY <1>0, <1>8 DEF Finish, End
  <2>2. /\ DOMAIN lists' = {"default", "own"}
        /\ lists'[cfg.public] = "freed"
        /\ \A k \in {"default", "own"} : k # cfg.public => lists'[k] = lists[k]
    BY <1>0, <2>1, ListsType
  <2>3. \A k \in {"default", "own"} : lists[k] = "live" <=> k = cfg.public
    BY <1>0, <1>8 DEF Finish
  <2> QED
    BY <1>0, <2>1, <2>2, <2>3
<1>9. CASE UNCHANGED vars
  BY <1>9 DEF vars
<1> QED
  BY <1>1, <1>2, <1>3, <1>4, <1>5, <1>6, <1>7, <1>8, <1>9 DEF Next

LEMMA ChosenStep ==
    ASSUME TypeInv, Chosen, [Next]_vars
    PROVE  Chosen'
<1>1. CASE ParseOption
  BY <1>1 DEF ParseOption, Chosen
<1>2. CASE UnknownOption
  BY <1>2 DEF UnknownOption, End, Chosen
<1>3. CASE Main
  <2>1. next = Len(argv) + 1
    BY <1>3, ArgvFacts DEF Main
  <2> QED
    BY <1>3, <2>1 DEF Main, Chosen, inputs
<1>4. CASE MbStart
  <2>1. file.targets # Absent => file.targets \in SUBSET Names
    BY DEF TypeInv, File
  <2>2. /\ pc = "start" /\ UNCHANGED <<argv, file, next, args, logLevel, cfg, ran, dangling>>
        /\ \/ pc' = "load" /\ file.targets # Absent /\ file.parses
           \/ pc' = "ended"
    BY <1>4 DEF MbStart, End, CheckFileValidity, inputs
  <2> QED
    BY <2>1, <2>2 DEF Chosen
<1>5. CASE LoadConfiguration
  <2>1. /\ pc = "load" /\ pc' = "build" /\ UNCHANGED <<argv, file, next, args, ran>>
    BY <1>5 DEF LoadConfiguration, inputs
  <2>2. /\ cfg'.target = Target(Default) /\ (args.overriden => logLevel' = logLevel)
        /\ cfg'.force = args.force /\ cfg'.keepGoing = args.keepGoing
    BY <1>5, LoadedType
  <2>3. Target(Default)' = Target(Default)
    BY <2>1 DEF Target, Default
  <2> QED
    BY <2>1, <2>2, <2>3 DEF Chosen
<1>6. CASE Crash
  BY <1>6 DEF Crash, Chosen
<1>7. CASE MbBeginBuild
  <2>1. /\ pc = "build" /\ pc' = "free"
        /\ UNCHANGED <<argv, file, next, args, logLevel, cfg>>
        /\ \/ cfg.target \in file.targets /\ ran' = cfg.target
           \/ UNCHANGED ran /\ result' = 1
    BY <1>7 DEF MbBeginBuild, inputs
  <2>2. Target(Default)' = Target(Default)
    BY <2>1 DEF Target, Default
  <2>3. file.targets \in SUBSET Names /\ Absent \notin Names /\ ran = Absent /\ file.parses
    BY <2>1, NamesAssumption DEF Chosen
  <2>4. ran' = Absent => result' # 0
    BY <2>1, <2>3
  <2>5. cfg.force = args.force /\ cfg.keepGoing = args.keepGoing /\ cfg.target = Target(Default)
    BY <2>1 DEF Chosen
  <2>6. next = Len(argv) + 1 /\ (args.overriden => logLevel = args.verbosity)
    BY <2>1 DEF Chosen
  <2>7. ran' # Absent => ran' = cfg.target /\ ran' \in file.targets
    BY <2>1, <2>3
  <2> QED
    BY <2>1, <2>2, <2>3, <2>4, <2>5, <2>6, <2>7 DEF Chosen
<1>8. CASE Finish
  BY <1>8 DEF Finish, End, Chosen
<1>9. CASE UNCHANGED vars
  BY <1>9 DEF vars, inputs, Chosen, Target, Default
<1> QED
  BY <1>1, <1>2, <1>3, <1>4, <1>5, <1>6, <1>7, <1>8, <1>9 DEF Next

\* Only a target that was run can end mb with 0.
LEMMA DoneStep ==
    ASSUME TypeInv, Chosen, Done, [Next]_vars
    PROVE  Done'
<1>one. 1 # 0 /\ 64 # 0
  OBVIOUS
<1>1. CASE UnknownOption
  BY <1>1, <1>one DEF UnknownOption, End, Done
<1>2. CASE MbStart
  <2>1. pc' = "load" \/ (pc' = "ended" /\ result' = 1)
    BY <1>2 DEF MbStart, End
  <2> QED
    BY <1>one, <2>1 DEF Done
<1>3. CASE Finish
  <2>1. /\ pc = "free" /\ result' = result
        /\ UNCHANGED <<argv, file, next, args, ran>>
    BY <1>3 DEF Finish, End, inputs
  <2>2. Target(Default)' = Target(Default)
    BY <2>1 DEF Target, Default
  <2> QED
    BY <2>1, <2>2 DEF Chosen, Done
<1>4. CASE UNCHANGED vars
  BY <1>4 DEF vars, inputs, Done, Target, Default
<1>5. CASE pc' # "ended"
  BY <1>5 DEF Done
<1> QED
  BY <1>1, <1>2, <1>3, <1>4, <1>5
  DEF Next, ParseOption, Main, LoadConfiguration, Crash, MbBeginBuild

LEMMA Initially == Init => Inv
<1> SUFFICES ASSUME Init PROVE Inv
  OBVIOUS
<1>1. TypeInv
  BY TypeInit
<1>2. Parsed
  <2>1. \A key : NoneOf(key)
    BY DEF Init, NoneOf
  <2>2. args.target = Absent /\ args.force = FALSE /\ args.keepGoing = FALSE /\ ~args.overriden
    BY DEF Init, NoArgs
  <2> QED
    BY <2>1, <2>2, Zenon DEF Parsed
<1>3. Owned /\ Done
  BY DEF Init, Owned, Done
<1>4. Chosen
  BY DEF Init, Chosen
<1> QED
  BY <1>1, <1>2, <1>3, <1>4 DEF Inv

LEMMA Invariance == Spec => []Inv
<1>1. Inv /\ [Next]_vars => Inv'
  BY TypeStep, ParsedStep, OwnedStep, ChosenStep, DoneStep DEF Inv
<1> QED
  BY <1>1, Initially, PTL DEF Spec

-----------------------------------------------------------------------------
(* The theorems.                                                           *)

\* Every variable keeps its type; no verbosity, whether from the command line or
\* from the build file, silences the errors.
THEOREM TypeCorrect == Spec => []TypeOK
<1>1. Inv => TypeOK
  <2> SUFFICES ASSUME TypeInv PROVE TypeOK
    BY DEF Inv
  <2>1. DOMAIN args = DOMAIN NoArgs
    BY DEF TypeInv, Args, NoArgs
  <2>2. logLevel \in LOG_INVALID..LOG_ERROR
    BY DEF TypeInv
  <2>3. Printed(LOG_ERROR)
    BY <2>2 DEF Printed, LOG_INVALID, LOG_ERROR
  <2> QED
    BY <2>1, <2>3 DEF TypeInv, TypeOK, Config
<1> QED
  BY <1>1, Invariance, PTL

\* The list of public targets that is in use was not destroyed, none is
\* destroyed twice, and after the build none is left.
THEOREM ListsCorrect == Spec => []ListsFreedOnce
<1>1. Inv => ListsFreedOnce
  BY DEF Inv, Owned, ListsFreedOnce
<1> QED
  BY <1>1, Invariance, PTL

\* What is wanted of mb is what it configures itself to do, once all options were
\* parsed.
LEMMA WantedIs ==
    ASSUME TypeInv, Parsed, next = Len(argv) + 1
    PROVE  Target(Default) = WantedTarget
<1>1. WantedTarget = LastArg("t", Default)
  BY DEF WantedTarget, Default
<1>2. CASE args.target = Absent /\ NoneOf("t")
  BY <1>1, <1>2, LastArgIs DEF Target
<1>3. ASSUME NEW i \in DOMAIN argv, LastOf("t", i), args.target = argv[i].arg
      PROVE  Target(Default) = WantedTarget
  <2>1. argv[i] \in Option /\ argv[i].key = "t"
    BY <1>3, ArgvFacts, OptionsAssumption DEF LastOf
  <2>2. args.target # Absent
    BY <1>3, <2>1, NamesAssumption DEF Option
  <2> QED
    BY <1>1, <1>3, <2>2, LastArgIs DEF Target
<1> QED
  BY <1>2, <1>3 DEF Parsed

\* What the command line says, and says last, outweighs the build file, and
\* nothing but the command line forces a build or keeps it going.
THEOREM CommandLineCorrect == Spec => []CommandLineWins
<1>1. Inv => CommandLineWins
  <2> SUFFICES ASSUME Inv, pc \in {"build", "free"}
               PROVE  /\ cfg.target = WantedTarget
                      /\ ran # Absent => ran = cfg.target /\ ran \in file.targets
                      /\ cfg.force = Given("f") /\ cfg.keepGoing = Given("k")
                      /\ logLevel # StrToLoglvl(LastArg("v", logLevel)) => ~Given("v")
    BY DEF CommandLineWins
  <2> USE DEF Inv
  <2>1. /\ TypeInv /\ next = Len(argv) + 1 /\ cfg.target = Target(Default)
        /\ cfg.force = args.force /\ cfg.keepGoing = args.keepGoing
        /\ ran # Absent => ran = cfg.target /\ ran \in file.targets
        /\ args.overriden => logLevel = args.verbosity
    BY DEF Chosen
  <2>2. cfg.target = WantedTarget
    BY <2>1, WantedIs
  <2>3. ASSUME logLevel # StrToLoglvl(LastArg("v", logLevel))
        PROVE  ~Given("v")
    <3>1. NoneOf("v")
      BY <2>1, <2>3, LastArgIs DEF Parsed
    <3> QED
      BY <2>1, <3>1, LastArgIs
  <2>4. cfg.force = Given("f") /\ cfg.keepGoing = Given("k")
    <3>1. \A key : NoneOf(key) <=> ~Given(key)
      BY <2>1, LastArgIs
    <3>2. args.force = ~NoneOf("f") /\ args.keepGoing = ~NoneOf("k")
      BY DEF Parsed
    <3>3. Given("f") \in BOOLEAN /\ Given("k") \in BOOLEAN
      BY DEF Given
    <3> QED
      BY <2>1, <3>1, <3>2, <3>3, Zenon
  <2> QED
    BY <2>1, <2>2, <2>3, <2>4
<1> QED
  BY <1>1, Invariance, PTL

\* mb exits with 0 only after it ran the target that was asked for.
THEOREM ZeroCorrect == Spec => []ZeroMeansRun
<1>1. Inv => ZeroMeansRun
  <2> SUFFICES ASSUME Inv, pc = "ended", result = 0
               PROVE  /\ ~Given("unknown")
                      /\ file.parses
                      /\ ran = WantedTarget /\ ran \in file.targets
    BY DEF ZeroMeansRun
  <2> USE DEF Inv
  <2>1. /\ TypeInv /\ Parsed /\ next = Len(argv) + 1 /\ file.parses
        /\ ran = Target(Default) /\ ran \in file.targets
    BY DEF Done
  <2>2. ~Given("unknown")
    BY <2>1, LastArgIs DEF Parsed
  <2> QED
    BY <2>1, <2>2, WantedIs
<1> QED
  BY <1>1, Invariance, PTL
=============================================================================
