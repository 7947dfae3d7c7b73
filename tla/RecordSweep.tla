----------------------------- MODULE RecordSweep -----------------------------
(***************************************************************************)
(* The scripts that run recorder.main for one workload after the other:    *)
(* benchmarks/recorder/record_speed_sweep.sh and record_source_traces.sh,  *)
(* composed with the recorder and its disk.                                *)
(*                                                                         *)
(* The recorder takes its L2 path from its configuration; the sweep        *)
(* measures and cleans a path it makes itself of the workload's name.      *)
(***************************************************************************)
EXTENDS RecorderMain

CONSTANTS
  Calls,       \* calls of the scripts
  ConfigOf,    \* record_config_for_workload: [workloads -> Files]
  L2Name,      \* [workloads -> the name "backend-workload"]
  OutputRoot,  \* the output root of a call
  MaxCalls     \* bound: calls

ASSUME RecordSweepAssumption ==
  /\ MaxCalls \in Nat /\ OutputRoot \in Paths
  /\ ConfigOf \in [DOMAIN L2Name -> Files] /\ L2Name \in [DOMAIN L2Name -> Names]
  /\ DOMAIN L2Name \subseteq Names /\ Calls # {}
  /\ \A c \in Calls :
       /\ c.workloads \in Seq(DOMAIN L2Name) \ {<<>>} /\ c.speedups \in Seq(Names) \ {<<>>}
       /\ c.keep \in BOOLEAN /\ c.dry \in BOOLEAN

VARIABLES
  at,     \* where the script is
  call,   \* its options
  case,   \* the number of the case
  usage,  \* the records of l2_usage.jsonl, which all calls append to
  ended,  \* its exit status
  base,   \* (history) runs before it
  calls   \* (bound)

sweepVars == <<at, call, case, usage, ended, base, calls>>
recordVars == <<mainVars, sweepVars>>

RecordTypeOK ==
  /\ MainTypeOK
  /\ at \in {"idle", "next", "main", "measure", "clean"} /\ call \in Calls
  /\ case \in 1 .. Len(call.workloads) * Len(call.speedups) + 1
  /\ \A u \in Listed(usage) : u.run \in 1 .. runs /\ u.status \in {"ok", "failed", "missing"}
  /\ ended \in {"none", "zero", "nonzero", "broken"} /\ base \in 0 .. runs /\ calls \in 0 .. MaxCalls

RecordInit ==
  /\ MainInit /\ at = "idle" /\ call = (CHOOSE c \in Calls : TRUE) /\ case = 1 /\ usage = <<>> /\ ended = "none"
  /\ base = 0 /\ calls = 0

Ends(e) == at' = "idle" /\ ended' = e

AtMost(a, b) == IF a <= b THEN a ELSE b
Cases == Len(call.workloads) * Len(call.speedups)
Workload(i) == call.workloads[((i - 1) \div Len(call.speedups)) + 1]
Speedup(i) == call.speedups[((i - 1) % Len(call.speedups)) + 1]

(* The command line of a case.                                             *)
Case(i) ==
  LET w == Workload(i) IN
  [config |-> ConfigOf[w], trace |-> IF w \in Traces THEN w ELSE None, path |-> None,
   l2Path |-> None, percent |-> call.percent, speedup |-> Speedup(i), dry |-> call.dry,
   output |-> OutputRoot \o <<w, Speedup(i)>>]

(* Mutant: the path without the backend.                                   *)
CaseL2_Workload == Mountpoint \o <<"lmcache-trace", Workload(case)>>

(* The path the sweep measures and cleans.                                 *)
CaseL2 == Mountpoint \o <<"lmcache-trace", L2Name[Workload(case)]>>

-----------------------------------------------------------------------------
Call(c) ==
  /\ at = "idle" /\ main = "idle" /\ calls < MaxCalls
  /\ runs + Len(c.workloads) * Len(c.speedups) <= MaxRuns
  /\ at' = "next" /\ call' = c /\ case' = 1 /\ ended' = "none"
  /\ base' = runs /\ calls' = calls + 1
  /\ UNCHANGED <<mainVars, usage>>

NextCase ==
  /\ at = "next"
  /\ IF case > Cases THEN Ends("zero") /\ UNCHANGED mainVars
     ELSE Start(Case(case)) /\ at' = "main" /\ UNCHANGED ended
  /\ UNCHANGED <<call, case, usage, base, calls>>

(* Mutant: a failed recording is left as it is.                            *)
Measured_OnlyOk == call.script = "speeds" /\ ~call.dry /\ status = "zero"

(* Mutant: a dry run is measured and cleaned as well.                      *)
Measured_Dry == call.script = "speeds"

(* The speed sweep measures after each recording, also a failed one.       *)
Measured == call.script = "speeds" /\ ~call.dry

(* Mutant: the script goes on with the next case.                          *)
AfterCase_GoOn(s) == s \in {"zero", "nonzero"} /\ at' = "next" /\ case' = case + 1 /\ UNCHANGED ended

(* The end of a case: the status of the recorder ends the script.          *)
AfterCase(s) ==
  IF s = "zero" THEN at' = "next" /\ case' = case + 1 /\ UNCHANGED ended
  ELSE Ends(s) /\ UNCHANGED case

CaseEnds ==
  /\ at = "main" /\ main = "idle"
  /\ IF Measured THEN at' = "measure" /\ UNCHANGED <<case, ended>> ELSE AfterCase(status)
  /\ UNCHANGED <<mainVars, call, usage, base, calls>>

(* record_case_l2_usage.                                                   *)
Measure ==
  /\ at = "measure"
  /\ \/ /\ \E s \in {"ok", "failed"} :
             usage' = Append(usage,
               [run |-> runs, code |-> status,
                status |-> IF ~\E e \in disk : e.at = Walk(<<>>, CaseL2) THEN "missing" ELSE s,
                blocks |-> {e.run : e \in {d \in disk : d.kind = "blocks" /\ Below(d.at, Walk(<<>>, CaseL2))}}])
        /\ IF call.keep THEN AfterCase(status)
           ELSE at' = "clean" /\ UNCHANGED <<case, ended>>
        /\ UNCHANGED failures
     \/ Failure /\ Ends("broken") /\ UNCHANGED <<case, usage>>
  /\ UNCHANGED <<chain, main, options, plan, status, disk, runs, call, base, calls>>

(* clean_case_l2: refused where a link is in the path or below it.         *)
Clean ==
  /\ at = "clean"
  /\ IF \E l \in DOMAIN Links : Below(l, Mountpoint) /\ (Below(l, CaseL2) \/ Below(CaseL2, l))
       THEN Ends("broken") /\ UNCHANGED <<case, disk>>
       ELSE disk' = Emptied(CaseL2) /\ AfterCase(status)
  /\ UNCHANGED <<chain, main, options, plan, status, runs, failures, call, usage, base, calls>>

(* Ctrl-C: the recorder, and the script with it.                           *)
Interrupted ==
  /\ at # "idle" /\ Failure /\ Ends("broken")
  /\ main' = "idle" /\ status' = IF main = "idle" THEN status ELSE "nonzero"
  /\ UNCHANGED <<chain, options, plan, disk, runs, call, case, usage, base, calls>>

(* recorder.main alone, with any command line.                             *)
Run(o) == at = "idle" /\ contents[o.config] # None /\ Start(o) /\ UNCHANGED sweepVars

RecordNext ==
  \/ \E o \in Options : Run(o)
  \/ \E c \in Calls : Call(c)
  \/ NextCase \/ CaseEnds \/ Measure \/ Clean \/ Interrupted
  \/ (MainStep \/ Fails) /\ UNCHANGED sweepVars

RecordSpec == RecordInit /\ [][RecordNext]_recordVars

-----------------------------------------------------------------------------
(* What the scripts take for granted.                                      *)

(* The directory of a workload's blocks: CaseL2 of its cases.              *)
L2Of(w) == Append(Append(Mountpoint, "lmcache-trace"), L2Name[w])

(* What a command line and the files it names say.                         *)
TraceMeant(o) == IF o.trace = None THEN Means(o.config, "mooncake", "trace") ELSE o.trace
L2Meant(o) ==
  Resolve((IF o.l2Path = None THEN Means(o.config, "l2", "subpath") ELSE o.l2Path)[TraceMeant(o)])
DownloadMeant(o) ==
  Resolve((IF o.trace = None \/ o.path = None
             THEN Means(o.config, "mooncake", "path") ELSE o.path)[TraceMeant(o)])
WorkloadMeant(o) ==
  IF Means(o.config, "workload", "backend") = "mooncake" THEN TraceMeant(o)
  ELSE Means(o.config, "workload", "source")

(* What all cases of a workload have on their command line.                *)
CaseLine(w) ==
  [config |-> ConfigOf[w], trace |-> IF w \in Traces THEN w ELSE None, path |-> None, l2Path |-> None]

(* No output of a case, and neither of the two directories, is among those *)
(* below which the scripts keep their blocks.                              *)
OutputsApart ==
  \A w \in DOMAIN L2Name, x \in Names :
    ~Below(OutputRoot \o <<w, x>>, Append(Mountpoint, "lmcache-trace"))
Apart ==
  /\ ~Below(Cwd, Append(Mountpoint, "lmcache-trace"))
  /\ ~Below(Home, Append(Mountpoint, "lmcache-trace"))
  /\ OutputsApart

(* Below the directory of a workload there are only its blocks.            *)
Owned(d) ==
  \A w \in DOMAIN L2Name : \A e \in d :
    Below(e.at, L2Of(w)) => e.kind = "directory" \/ (e.kind = "blocks" /\ e.workload = w)

DownloadsApart(o) ==
  DownloadMeant(o) # None => \A w \in DOMAIN L2Name : ~Below(DownloadMeant(o), L2Of(w))

(* The configuration of each workload means its directory, and resets it.  *)
ScriptsAgree ==
  \A w \in DOMAIN L2Name : Loadable(ConfigOf[w]) =>
    /\ L2Meant(CaseLine(w)) = L2Of(w) /\ WorkloadMeant(CaseLine(w)) = w
    /\ Means(ConfigOf[w], "l2", "reset") = TRUE /\ DownloadsApart(CaseLine(w))

(* What is recorded without a script stays out of these directories, or is *)
(* of the same workload, and does not empty a directory above the outputs. *)
OthersApart ==
  \A o \in Options : Loadable(o.config) /\ L2Meant(o) # None =>
    /\ DownloadsApart(o)
    /\ \A w \in DOMAIN L2Name :
         /\ Below(Append(L2Meant(o), "kv"), L2Of(w)) => WorkloadMeant(o) = w
         /\ ~Below(Append(o.output, "trace"), L2Of(w))
         /\ \A x \in Names :
              Below(Append(OutputRoot \o <<w, x>>, "trace"), L2Meant(o)) =>
                \E p \in {Cwd, Home, o.output} : Below(p, L2Meant(o))

Agreed ==
  /\ \A v, w \in DOMAIN L2Name : L2Name[v] = L2Name[w] => v = w
  /\ \A w \in DOMAIN L2Name : Walk(<<>>, L2Of(w)) = L2Of(w)
  /\ OutputsApart /\ ScriptsAgree /\ OthersApart
  /\ \A d \in Disk : Owned(d)

-----------------------------------------------------------------------------
(* Properties.                                                             *)

(* "Each run resets only its own source-specific L2 directory"             *)
(* (record_source_traces.sh:106, and recorder.md:286): what a script's run *)
(* or cleaning removes are the blocks of the same workload, never those of *)
(* another one, a downloaded trace or what somebody else keeps there.      *)
OnlyOwnBlocks ==
  [][at # "idle" => \A e \in Removed :
       \/ e.kind = "directory" /\ Below(e.at, CaseL2)
       \/ e.kind = "blocks" /\ e.workload = Workload(case)]_recordVars

(* A usage record is about the blocks its recording has written, and about *)
(* no others when the recording has reset the path: the sweep and the      *)
(* configuration mean the same path.                                       *)
UsageIsOfRun ==
  \A u \in Listed(usage) : (u.code = "zero" /\ u.status # "failed") => u.blocks = {u.run}

(* Exit status 0 of a script that is no dry run: each case has its trace,  *)
(* of this call; after a speed sweep also its usage record.                *)
ZeroIsRecorded ==
  (ended = "zero" /\ ~call.dry) =>
    /\ \A i \in 1 .. Cases : \E e \in disk :
         e.kind = "trace" /\ e.run > base /\ e.at = Append(Case(i).output, "trace")
    /\ call.script = "speeds" =>
         \A i \in 1 .. Cases : \E u \in Listed(usage) : u.run = base + i

(* When the speed sweep ends with the recorder's status, whatever it is,   *)
(* no blocks of its recordings are left, unless they are to be kept        *)
(* (recorder.md:152-155).                                                  *)
NoBlocksLeft ==
  (ended \in {"zero", "nonzero"} /\ call.script = "speeds" /\ ~call.keep /\ ~call.dry) =>
    ~\E e \in disk : e.kind = "blocks" /\ e.run > base /\ e.run <= base + AtMost(case, Cases)

(* What reaches a recording of its settings, and what a script makes of it.*)
SettingsInv == RecordTypeOK /\ NoFileTwice /\ NearestWins /\ SettingsAreUsed

CasesInv == UsageIsOfRun /\ ZeroIsRecorded /\ NoBlocksLeft

(* What a recording, or a script after it, may remove.                     *)
RemovesSafely == RemovesBelowMountpoint /\ KeepsProtected /\ DryRunKeepsDisk

=============================================================================
