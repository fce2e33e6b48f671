------------------------------ MODULE FrontEnd ------------------------------
(***************************************************************************)
(* From the command line to a target and back (src/src/main.c, build.c,    *)
(* types.c, logging.c): options are parsed one by one, the build file is   *)
(* read, the configuration is put together from both, the target is run,   *)
(* and the list of public targets is destroyed by whoever owns it.         *)
(*                                                                         *)
(* mb_run_target is one step with any code (see Target). The options -i    *)
(* and -n, which choose the file and the splash screen, are left out, and  *)
(* so is --help, which ends mb with 0.                                     *)
(***************************************************************************)
EXTENDS Integers, Sequences, SequencesExt

CONSTANTS
    Names,      \* names of targets, "debug" among them
    Options,    \* the options a command line may have
    MaxOptions, \* bound: their number
    Files,      \* the build files
    Codes,      \* what mb_run_target may return
    Absent,     \* a field or sector that is not there
    IllTyped,   \* a field of the wrong type, or a string without data
    NoData      \* a list without data

Option == [key : {"t"}, arg : Names] \cup [key : {"v"}, arg : Int]
          \cup [key : {"f", "k", "unknown"}, arg : {Absent}]
File == [parses : BOOLEAN,
         targets : {Absent} \cup SUBSET Names,      \* the sector "targets"
         config : BOOLEAN,                          \* is there /config/mariebuild/
         public : {Absent, IllTyped, NoData, "list"},   \* its fields
         default : {Absent, IllTyped} \cup Names,
         buildType : {Absent, IllTyped, "full", "incremental", "other"},
         logLevel : {Absent} \cup Int]

ASSUME OptionsAssumption == Options \subseteq Option /\ MaxOptions \in Nat
ASSUME FrontEndFilesAssumption == Files \subseteq File /\ "debug" \in Names
ASSUME NamesAssumption == Absent \notin Names /\ IllTyped \notin Names
\* What Target returns: see there.
ASSUME CodesAssumption == Codes \subseteq 0..255

VARIABLES
    argv, file,
    next,       \* index of the option to be parsed
    pc,         \* "args", "start", "load", "build", "free", "ended" or "crashed"
    args,
    logLevel,   \* mb_log_level
    cfg,
    lists,      \* the lists default_config and the configuration allocate
    ran,        \* the target that was run
    dangling,   \* the build left dynfields that point at freed strings
    result

inputs == <<argv, file>>
vars == <<inputs, next, pc, args, logLevel, cfg, lists, ran, dangling, result>>

LOG_INVALID == -1
LOG_DEBUG == 0
LOG_STEPS == 1
LOG_ERROR == 4

\* str_to_loglvl, of the number strtol finds, and what mb_logf lets through.
StrToLoglvl(n) == IF n \in LOG_DEBUG..LOG_ERROR THEN n ELSE LOG_INVALID
Printed(level) == level >= logLevel

\* Mistake: a level equal to the upper bound is accepted.
WantedBelowBound(n) == n > LOG_INVALID /\ n <= LOG_ERROR + 1
Wanted(n) == n > LOG_INVALID /\ n < LOG_ERROR + 1

\* str_to_build_type: the loop goes on behind the table for an unknown name, and
\* may find any value there, or nothing, or end mb.
StrToBuildType(src, fallback) ==
    IF src \in {"full", "incremental"} THEN {src}
    ELSE IF src = IllTyped THEN {fallback}      \* mcfg_data_as_string returned NULL
    ELSE {fallback, "full", "incremental", "crash"}

NoArgs == [target |-> Absent, force |-> FALSE, keepGoing |-> FALSE,
           verbosity |-> LOG_STEPS, overriden |-> FALSE]
DefaultConfig == [target |-> "debug", public |-> "default", buildType |-> "incremental",
                  force |-> FALSE, keepGoing |-> FALSE]

TypeOK ==
    /\ argv \in Seq(Options) /\ file \in File
    /\ pc \in {"args", "start", "load", "build", "free", "ended", "crashed"}
    /\ next \in 1..(Len(argv) + 1)
    /\ DOMAIN args = DOMAIN NoArgs
    /\ cfg.target \in Names \cup {IllTyped} /\ cfg.public \in DOMAIN lists
    /\ cfg.buildType \in {"full", "incremental"}
    /\ lists \in [{"default", "own"} -> {"none", "live", "freed", "freed twice"}]
    /\ ran \in Names \cup {Absent} /\ dangling \in BOOLEAN
    /\ result \in 0..255
    /\ Printed(LOG_ERROR)       \* no level silences the errors

Init ==
    /\ argv \in SeqOf(Options, MaxOptions)
    /\ file \in Files
    /\ pc = "args" /\ next = 1
    /\ args = NoArgs
    /\ logLevel = LOG_STEPS
    /\ cfg = DefaultConfig
    /\ lists = [l \in {"default", "own"} |-> "none"]
    /\ ran = Absent
    /\ dangling = FALSE
    /\ result = 0

\* The program ends with this code.
End(code) == pc' = "ended" /\ result' = code

-----------------------------------------------------------------------------

ParseOpt(o) ==
    CASE o.key = "t" -> [args EXCEPT !.target = o.arg]
      [] o.key = "f" -> [args EXCEPT !.force = TRUE]
      [] o.key = "k" -> [args EXCEPT !.keepGoing = TRUE]
      [] o.key = "v" -> [args EXCEPT !.verbosity = StrToLoglvl(o.arg), !.overriden = TRUE]

\* argp_parse hands the options to parse_opt, one by one.
ParseOption ==
    /\ pc = "args" /\ next \in DOMAIN argv
    /\ argv[next].key # "unknown"
    /\ args' = ParseOpt(argv[next])
    /\ next' = next + 1
    /\ UNCHANGED <<inputs, pc, logLevel, cfg, lists, ran, dangling, result>>

\* It ends mb on an option parse_opt does not know.
UnknownOption ==
    /\ pc = "args" /\ next \in DOMAIN argv
    /\ argv[next].key = "unknown"
    /\ End(64)
    /\ UNCHANGED <<inputs, next, args, logLevel, cfg, lists, ran, dangling>>

Main ==
    /\ pc = "args" /\ next > Len(argv)
    /\ logLevel' = args.verbosity
    /\ pc' = "start"
    /\ UNCHANGED <<inputs, next, args, cfg, lists, ran, dangling, result>>

CheckFileValidity == file.targets # Absent

\* mb_start, up to the configuration.
MbStart ==
    /\ pc = "start"
    /\ lists' = [lists EXCEPT !["default"] = "live"]
    /\ IF file.parses /\ CheckFileValidity
       THEN pc' = "load" /\ UNCHANGED result
       ELSE End(1)
    /\ UNCHANGED <<inputs, next, args, logLevel, cfg, ran, dangling>>

\* Mistake: the build file's default wins over -t.
TargetOfFile(default) == IF file.default # Absent THEN default ELSE args.target

\* What mb_start adds to the configuration.
Target(default) == IF args.target = Absent THEN default ELSE args.target

Destroyed(l) == [lists EXCEPT ![l] = IF @ = "live" THEN "freed" ELSE "freed twice"]

\* Mistake: the default list is forgotten, not destroyed.
PublicTargetsLeaked ==
    IF file.config /\ file.public = "list"
    THEN [owner |-> "own", heap |-> [lists EXCEPT !["own"] = "live"]]
    ELSE [owner |-> "default", heap |-> lists]

\* The configuration has a list of its own, or goes on with the default one.
PublicTargets ==
    IF file.config /\ file.public = "list"
    THEN [owner |-> "own", heap |-> [Destroyed("default") EXCEPT !["own"] = "live"]]
    ELSE [owner |-> "default", heap |-> lists]

BuildTypes ==
    IF file.config /\ file.buildType # Absent
    THEN StrToBuildType(file.buildType, "incremental") ELSE {"incremental"}

\* mb_load_configuration, and what mb_start does to its result.
LoadConfiguration ==
    /\ pc = "load"
    /\ file.config => file.public \notin {IllTyped, NoData}
    /\ \E type \in BuildTypes \ {"crash"} :
         cfg' = [target |-> Target(IF file.config /\ file.default # Absent
                                   THEN file.default ELSE DefaultConfig.target),
                 public |-> PublicTargets.owner,
                 buildType |-> type,
                 force |-> args.force, keepGoing |-> args.keepGoing]
    /\ lists' = PublicTargets.heap
    /\ logLevel' = IF /\ file.config /\ file.logLevel # Absent
                      /\ ~args.overriden /\ Wanted(file.logLevel)
                   THEN file.logLevel ELSE logLevel
    /\ pc' = "build"
    /\ UNCHANGED <<inputs, next, args, ran, dangling, result>>

\* A list of targets that is no list or has no data, and a default target that
\* is no string, are used without a look.
CrashOnField ==
    \/ pc = "load" /\ file.config /\ file.public \in {IllTyped, NoData}
    \/ pc = "load" /\ "crash" \in BuildTypes
    \/ pc = "build" /\ cfg.target = IllTyped /\ file.targets # {}

\* mb may end for a field, or while the target is run: see RunSingular, CRules and
\* Signals for how.
Crash ==
    /\ \/ CrashOnField
       \/ pc = "build" /\ cfg.target \in file.targets
    /\ pc' = "crashed"
    /\ UNCHANGED <<inputs, next, args, logLevel, cfg, lists, ran, dangling, result>>

\* Mistake: there is nothing to do for a target that is not declared.
MbBeginBuildQuiet ==
    /\ pc = "build"
    /\ \/ cfg.target \in file.targets /\ ran' = cfg.target /\ result' \in Codes
       \/ cfg.target \notin file.targets /\ UNCHANGED <<ran, result>>
    /\ pc' = "free"
    /\ UNCHANGED <<inputs, next, args, logLevel, cfg, lists, dangling>>

\* mb_begin_build. A format error, which fails the target unless -k is given,
\* may leave dynfields that point at freed strings.
MbBeginBuild ==
    /\ pc = "build"
    /\ \/ /\ cfg.target \in file.targets
          /\ ran' = cfg.target
          /\ result' \in Codes
          /\ dangling' \in IF result' # 0 \/ cfg.keepGoing THEN BOOLEAN ELSE {FALSE}
       \/ /\ cfg.target \notin file.targets
          /\ result' = 1
          /\ UNCHANGED <<ran, dangling>>
    /\ pc' = "free"
    /\ UNCHANGED <<inputs, next, args, logLevel, cfg, lists>>

\* The list and the file are freed. mcfg_free_file frees the data of the dynfields,
\* too; a second time it is undefined: mb goes on, or ends.
Finish ==
    /\ pc = "free"
    /\ lists' = Destroyed(cfg.public)
    /\ \/ End(result)
       \/ dangling /\ pc' = "crashed" /\ UNCHANGED result
    /\ UNCHANGED <<inputs, next, args, logLevel, cfg, ran, dangling>>

Next ==
    \/ ParseOption \/ UnknownOption \/ Main \/ MbStart
    \/ LoadConfiguration \/ Crash \/ MbBeginBuild \/ Finish
    \/ pc \in {"ended", "crashed"} /\ UNCHANGED vars

Spec == Init /\ [][Next]_vars

-----------------------------------------------------------------------------
(* Properties.                                                             *)

\* The argument of the last option with this key, or the one given.
LastArg(key, otherwise) ==
    LET at == {i \in DOMAIN argv : argv[i].key = key}
    IN  IF at = {} THEN otherwise
        ELSE argv[CHOOSE i \in at : \A j \in at : j <= i].arg

\* The list in use is never one that was destroyed, and when mb is done with the
\* build every list was destroyed, exactly once.
ListsFreedOnce ==
    /\ \A l \in DOMAIN lists : lists[l] # "freed twice"
    /\ pc \in {"build", "free"} =>
         \A l \in DOMAIN lists : lists[l] = "live" <=> l = cfg.public
    /\ pc = "ended" /\ (ran # Absent \/ result = 0) =>
         \A l \in DOMAIN lists : lists[l] # "live"

Given(key) == \E i \in DOMAIN argv : argv[i].key = key

\* The target -t asks for last; without -t the file's default, and without that
\* "debug".
WantedTarget ==
    LastArg("t", IF file.config /\ file.default # Absent THEN file.default ELSE "debug")

\* What the command line says, and of two options that contradict each other what
\* it says last, outweighs the build file; -f and -k come from nowhere else.
CommandLineWins ==
    pc \in {"build", "free"} =>
        /\ cfg.target = WantedTarget
        /\ ran # Absent => ran = cfg.target /\ ran \in file.targets
        /\ cfg.force = Given("f") /\ cfg.keepGoing = Given("k")
        /\ logLevel # StrToLoglvl(LastArg("v", logLevel)) => ~Given("v")

\* mb exits with 0 only if it understood the whole command line and ran the target
\* that was asked for: no failure on the way (an option, the file, a name that is
\* not declared) is taken for a success.
ZeroMeansRun ==
    pc = "ended" /\ result = 0 =>
        /\ ~Given("unknown")
        /\ file.parses
        /\ ran = WantedTarget /\ ran \in file.targets
============================================================================
