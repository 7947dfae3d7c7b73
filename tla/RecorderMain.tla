---------------------------- MODULE RecorderMain -----------------------------
(***************************************************************************)
(* python -m recorder.main: its configuration, its options, and what it    *)
(* and run_live do to the disk.  src/recorder/main.py, config.py,          *)
(* launcher.py, workload.py and the first part of live.py; RecorderLive    *)
(* models the processes that are one step, Record, here.                   *)
(*                                                                         *)
(* A path is a sequence of names below "/".  A path that is written in a   *)
(* configuration or an option is [from, parts] for each trace, because of  *)
(* "{trace}".  A directory is an entry of the disk, as a file is.          *)
(***************************************************************************)
EXTENDS ConfigChain, SequencesExt

CONSTANTS
  Names,           \* names of files and directories
  Traces,          \* "conversation", "toolagent"
  Defaults,        \* the defaults of RecorderConfig, in sections
  Options,         \* command lines
  Mountpoint, Cwd, Home,  \* real paths
  Links,           \* [paths of symbolic links -> the real paths they lead to]
  Disk,            \* what can be on the disk at first
  MaxRuns,         \* bound: runs of recorder.main
  MaxFailures      \* bound: failures and interrupts

Steps == {"idle", "load", "plan", "prepare", "reset", "record"}
Kinds == {"directory", "blocks", "mooncake", "trace", "other"}

Paths == Seq(Names)
Written == [Traces -> [from : {"root", "home", "relative"}, parts : Paths]]

(* The fields of the dataclasses, and the types of those that name files.  *)
Fields ==
  [model |-> {"rest", "gpu", "kv"}, l2 |-> {"rest", "type", "subpath", "reset"},
   workload |-> {"rest", "backend", "source", "order", "timing", "number", "speedup"},
   mooncake |-> {"rest", "trace", "path", "number", "speedup"}]
Typed(section) ==
  /\ "subpath" \in DOMAIN section => section.subpath \in Written
  /\ "path" \in DOMAIN section => section.path \in Written
  /\ "trace" \in DOMAIN section => section.trace \in Traces
  /\ "reset" \in DOMAIN section => section.reset \in BOOLEAN

CommandLine(o) ==
  /\ o.config \in Files /\ o.output \in Paths /\ o.dry \in BOOLEAN
  /\ o.trace \in Traces \cup {None}
  /\ o.path \in Written \cup {None} /\ o.l2Path \in Written \cup {None}

ASSUME RecorderMainAssumption ==
  /\ MaxRuns \in Nat /\ MaxFailures \in Nat
  /\ Mountpoint \in Paths \ {<<>>} /\ Cwd \in Paths /\ Home \in Paths
  /\ {"lmcache-trace", "kv", "trace"} \subseteq Names
  /\ \A l \in DOMAIN Links : Links[l] \in Paths
  /\ DOMAIN Defaults = DOMAIN Fields /\ DOMAIN Sections = DOMAIN Fields
  /\ \A n \in DOMAIN Fields :
       /\ Fields[n] \subseteq DOMAIN Defaults[n]
       /\ \A m \in Sections[n] \cup {Defaults[n]} : Typed(m)
  /\ Options # {} /\ \A o \in Options : CommandLine(o)
  /\ \A d \in Disk : \A e \in d : e.at \in Paths /\ e.kind \in Kinds /\ e.run = 0

VARIABLES
  main,       \* where recorder.main is
  options,    \* its command line
  plan,       \* the validated configuration, or None
  status,     \* its exit status
  disk,       \* set of [at, kind, workload, run]
  runs, failures  \* (bounds)

mainVars == <<chain, main, options, plan, status, disk, runs, failures>>

MainTypeOK ==
  /\ ChainTypeOK
  /\ main \in Steps /\ status \in {"none", "zero", "nonzero"}
  /\ main \in {"plan", "prepare", "reset", "record"} => load = "loaded"
  /\ CommandLine(options)
  /\ \A e \in disk : e.at \in Paths /\ e.kind \in Kinds /\ e.run \in 0 .. MaxRuns
  /\ runs \in 0 .. MaxRuns /\ failures \in 0 .. MaxFailures

MainInit ==
  /\ contents \in Contents
  /\ load = "idle" /\ file = (CHOOSE f \in Files : TRUE) /\ ancestry = <<>> /\ merged = <<>>
  /\ main = "idle" /\ options = (CHOOSE o \in Options : TRUE) /\ plan = None /\ status = "none"
  /\ disk \in Disk /\ runs = 0 /\ failures = 0

Failure == failures < MaxFailures /\ failures' = failures + 1
Exits(s) == main' = "idle" /\ status' = s

-----------------------------------------------------------------------------
(* Paths.                                                                  *)

Below(p, dir) == IsPrefix(dir, p)

(* Path.resolve: one name after the other, through ".." and links.         *)
Follow(dir, name) ==
  IF name = ".." THEN Front(dir)
  ELSE IF Append(dir, name) \in DOMAIN Links THEN Links[Append(dir, name)]
  ELSE Append(dir, name)

Walk(from, parts) ==
  LET dir[i \in 0 .. Len(parts)] == IF i = 0 THEN from ELSE Follow(dir[i - 1], parts[i])
  IN  dir[Len(parts)]

(* Mutant: a relative path may leave the mountpoint.                       *)
Resolve_Anywhere(p) ==
  Walk(IF p.from = "home" THEN Home ELSE IF p.from = "root" THEN <<>> ELSE Mountpoint, p.parts)

(* resolve of resolve_mountpoint; None where it raises.                    *)
Resolve(p) ==
  CASE p.from = "root" -> Walk(<<>>, p.parts)
    [] p.from = "home" -> Walk(Home, p.parts)
    [] p.from = "relative" ->
         LET resolved == Walk(Mountpoint, p.parts) IN
         IF Below(resolved, Mountpoint) THEN resolved ELSE None

-----------------------------------------------------------------------------
(* The plan.                                                               *)

(* The dataclasses: the defaults, and what the files say over them.        *)
Configured == [s \in DOMAIN Defaults |->
  IF s \in DOMAIN merged THEN Over(merged[s], Defaults[s]) ELSE Defaults[s]]

(* load_config fails: a section is null, or the subpath is called as it    *)
(* was before.                                                             *)
Malformed ==
  \/ \E s \in DOMAIN Defaults \cap DOMAIN merged : merged[s] = None
  \/ "l2" \in DOMAIN merged /\ "base_path" \in DOMAIN merged.l2

(* Mutant: of two limits of the memory one is taken.                       *)
Valid_TwoLimits(c) ==
  /\ \A s \in DOMAIN c : c[s].rest = "valid"
  /\ c.l2.type = "fs_native" /\ c.workload.backend \in {"tensormesh", "mooncake"}
  /\ \A t \in Traces : LET p == c.l2.subpath[t] IN
       p.from = "relative" /\ p.parts # <<>> /\ ".." \notin Listed(p.parts)

(* RecorderConfig.validate; the ranges of the numbers, and whatever else   *)
(* is about one section only, are its "rest".                              *)
Valid(c) ==
  /\ \A s \in DOMAIN c : c[s].rest = "valid"
  /\ c.l2.type = "fs_native" /\ c.workload.backend \in {"tensormesh", "mooncake"}
  /\ ~(c.model.gpu # None /\ c.model.kv # None)
  /\ \A t \in Traces : LET p == c.l2.subpath[t] IN
       p.from = "relative" /\ p.parts # <<>> /\ ".." \notin Listed(p.parts)
  /\ c.workload.backend = "tensormesh" =>
       (c.workload.source # "all" => c.workload.order = "original")

(* Mutant: the path follows the option, and the trace does not.            *)
Traced_PathOnly(c, o) ==
  IF o.path = None THEN c ELSE [c EXCEPT !.mooncake.path = o.path]

(* --mooncake-trace and --mooncake-path.                                   *)
Traced(c, o) ==
  IF o.trace = None THEN c
  ELSE [c EXCEPT !.mooncake.trace = o.trace,
                 !.mooncake.path = IF o.path = None THEN @ ELSE o.path]

(* The options fit the configuration.                                      *)
Fit(c, o) ==
  /\ o.path # None => o.trace # None
  /\ o.trace # None => c.workload.backend = "mooncake"
  /\ o.percent # None => (c.workload.backend = "tensormesh" =>
       c.workload.source \in {"swebench", "gaia", "wildclaw"})
  /\ o.speedup # None => (c.workload.backend = "tensormesh" =>
       c.workload.timing = "respect-gaps")

L2Path(c, o) ==
  Resolve((IF o.l2Path = None THEN c.l2.subpath ELSE o.l2Path)[c.mooncake.trace])
TracePath(c) == Resolve(c.mooncake.path[c.mooncake.trace])

(* num_requests of the Mooncake trace, or num_sessions of V3Config.        *)
Number(c, o) ==
  IF o.percent # None THEN None
  ELSE IF c.workload.backend = "mooncake" THEN c.mooncake.number ELSE c.workload.number

(* The percentage selects only where load_workload applies it.             *)
Percent(c, o) ==
  IF c.workload.backend = "mooncake" \/ c.workload.source = "swebench" THEN o.percent ELSE None

(* build_commands, apply_speedup and the workload.                         *)
Planned(c, o) ==
  [l2 |-> L2Path(c, o), reset |-> c.l2.reset,
   mooncake |-> IF c.workload.backend = "mooncake" THEN TracePath(c) ELSE None,
   workload |-> IF c.workload.backend = "mooncake" THEN c.mooncake.trace ELSE c.workload.source,
   limits |-> IF c.model.kv # None THEN <<"kv", c.model.kv>>
              ELSE IF c.model.gpu # None THEN <<"gpu", c.model.gpu>> ELSE <<>>,
   number |-> Number(c, o), percent |-> Percent(c, o),
   speedup |-> IF o.speedup # None THEN o.speedup
               ELSE IF c.workload.backend = "mooncake" THEN c.mooncake.speedup
               ELSE c.workload.speedup]

-----------------------------------------------------------------------------
(* The run.                                                                *)

Start(o) ==
  /\ main = "idle" /\ runs < MaxRuns
  /\ main' = "load" /\ options' = o /\ plan' = None /\ status' = "none" /\ runs' = runs + 1
  /\ OpenConfig(o.config)
  /\ UNCHANGED <<disk, failures>>

Loading ==
  /\ main = "load" /\ Load
  /\ IF load' = "refused" THEN Exits("nonzero")
     ELSE IF load' = "loaded" THEN main' = "plan" /\ UNCHANGED status
     ELSE UNCHANGED <<main, status>>
  /\ UNCHANGED <<options, plan, disk, runs, failures>>

(* main, from load_config to run_live.                                     *)
Plan ==
  /\ main = "plan"
  /\ IF Malformed THEN Exits("nonzero") /\ UNCHANGED plan
     ELSE LET t == Traced(Configured, options) IN
       IF /\ Valid(Configured) /\ Fit(Configured, options)
          /\ L2Path(t, options) # None /\ TracePath(t) # None
         THEN /\ plan' = Planned(t, options)
              /\ IF options.dry THEN Exits("zero") ELSE main' = "prepare" /\ UNCHANGED status
         ELSE Exits("nonzero") /\ UNCHANGED plan
  /\ UNCHANGED <<chain, options, disk, runs, failures>>

Entry(at, kind) == [at |-> at, kind |-> kind, workload |-> plan.workload, run |-> runs]
Directory(at) == [at |-> at, kind |-> "directory", workload |-> None, run |-> 0]

(* run_live makes its output directory; a Mooncake trace that is not there *)
(* is downloaded.                                                          *)
Prepare ==
  /\ main = "prepare"
  /\ LET made == disk \cup {Directory(options.output)} IN
       \/ /\ disk' = IF plan.mooncake = None \/ (\E e \in disk : e.at = plan.mooncake) THEN made
                     ELSE made \cup {Entry(plan.mooncake, "mooncake")}
          /\ main' = "reset" /\ UNCHANGED <<status, failures>>
       \/ disk' = made /\ Failure /\ Exits("nonzero")
  /\ UNCHANGED <<chain, options, plan, runs>>

(* Mutant: the protected directories themselves, not those above them.     *)
ResetRefused_Itself(target) ==
  Len(target) < 3 \/ target \in {Cwd, Home, options.output}

(* The guards of reset_l2_storage.                                         *)
ResetRefused(target) ==
  Len(target) < 3 \/ \E p \in {Cwd, Home, options.output} : Below(p, target)

Emptied(dir) == {e \in disk : ~Below(e.at, dir)} \cup {Directory(dir)}

(* reset_on_start.                                                         *)
Reset ==
  /\ main = "reset"
  /\ IF ~plan.reset THEN main' = "record" /\ UNCHANGED <<status, disk>>
     ELSE IF ResetRefused(plan.l2) \/ (\E e \in disk : e.at = plan.l2 /\ e.kind # "directory")
       THEN Exits("nonzero") /\ UNCHANGED disk
     ELSE disk' = Emptied(plan.l2) /\ main' = "record" /\ UNCHANGED status
  /\ UNCHANGED <<chain, options, plan, runs, failures>>

(* The servers and the workload: blocks in the L2 path, and a trace.       *)
Record ==
  /\ main = "record"
  /\ disk' = {e \in disk : e.at # Append(options.output, "trace")}
             \cup {Directory(plan.l2), Entry(Append(plan.l2, "kv"), "blocks"),
                   Entry(Append(options.output, "trace"), "trace")}
  /\ \/ Exits("zero") /\ UNCHANGED failures
     \/ Failure /\ Exits("nonzero")
  /\ UNCHANGED <<chain, options, plan, runs>>

(* The servers do not start, or there is an interrupt at any point.        *)
Fails ==
  /\ main # "idle" /\ Failure /\ Exits("nonzero")
  /\ UNCHANGED <<chain, options, plan, disk, runs>>

MainStep == Loading \/ Plan \/ Prepare \/ Reset \/ Record

-----------------------------------------------------------------------------
(* What f and the files above it say of a key, or its default.             *)
Means(f, s, k) ==
  IF Nearest(f, s, k) = {} THEN Defaults[s][k]
  ELSE Section(f, Min(Nearest(f, s, k)), s)[k]

Value(s, k) == Means(file, s, k)

(* Properties.                                                             *)

(* What a step leaves nothing in the place of.                             *)
Removed == {e \in disk : \A d \in disk' : d.at # e.at}

(* What the nearest file sets is what the servers and the workload get,    *)
(* through merging, defaults, validation and options: no limit of the      *)
(* memory that is set is passed over because of the other one, or of its   *)
(* default, and a percentage is one of the whole dataset.                  *)
SettingsAreUsed ==
  plan # None =>
    LET section == IF plan.mooncake # None THEN "mooncake" ELSE "workload" IN
    /\ \A k \in {"gpu", "kv"} :
         Value("model", k) # None => plan.limits = <<k, Value("model", k)>>
    /\ plan.number = IF options.percent # None THEN None ELSE Value(section, "number")

(* Without an absolute --l2-path nothing outside of the mountpoint is      *)
(* removed, whatever the configuration says, through ".." and links.       *)
RemovesBelowMountpoint ==
  [][\A e \in Removed :
       (options.l2Path = None \/ \A t \in Traces : options.l2Path[t].from = "relative") =>
         Below(e.at, Mountpoint)]_mainVars

(* No step removes the directory the recorder runs in, the home directory, *)
(* or the output directory of the run, also when they are deep below an L2 *)
(* path somebody has given.                                                *)
KeepsProtected ==
  [][\A e \in Removed :
       ~(e.kind = "directory" /\ e.at \in {Cwd, Home, options.output})]_mainVars

(* "--dry-run은 L2 디렉터리를 변경하지 않습니다" (recorder.md:15-16): neither the run nor    *)
(* the sweep that runs it changes anything there.                          *)
DryRunKeepsDisk == [][options.dry /\ options' = options => disk' = disk]_mainVars

-----------------------------------------------------------------------------
(* What a text says and the code does not do (README, section 8).          *)

(* --dataset-percent "is ignored" for GAIA and WildClaw (recorder.md:97-98): *)
(* the number of sessions stays the configured one.                        *)
PercentIsIgnored ==
  (plan # None /\ plan.workload \in {"gaia", "wildclaw"} /\ plan.mooncake = None) =>
    plan.number = Value("workload", "number")

=============================================================================
