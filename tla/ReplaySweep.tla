----------------------------- MODULE ReplaySweep -----------------------------
(***************************************************************************)
(* A sweep of replays over a list of speedups or L1 sizes:                 *)
(* benchmarks/replayer/replay_speed_sweep.sh and replay_l1_size_sweep.sh,  *)
(* called again and again, with the configuration of each replay           *)
(* (src/replayer/main.py, config.py, src/traceprof/config.py) and the CSV  *)
(* made of their statistics (src/replayer/report.py).                      *)
(*                                                                         *)
(* The loop reads the list from its standard input, which is also that of  *)
(* the replays it runs.  A replay can fail, the sweep can be interrupted   *)
(* or killed, and the replay of a killed sweep goes on.                    *)
(***************************************************************************)
EXTENDS Naturals, Sequences, SequencesExt

CONSTANTS
  Cases,           \* names of cases
  Roots,           \* L2 roots
  Dirs,            \* output roots
  Calls,           \* [script, entries, root, dir, keep, dry, config, profile]
  Defaults,        \* the fields of ReplayerConfig
  None,            \* no L2 path, no statistics, no --io-profile, no replay_node
  MaxSweeps,       \* bound: calls
  MaxFailures      \* bound: failed replays and reports, signals

Scripts == {"speeds", "sizes"}

ASSUME SweepAssumption ==
  /\ None \notin Roots /\ Calls # {}
  /\ \A c \in Calls : c.script \in Scripts /\ c.root \in Roots /\ c.dir \in Dirs
  /\ \A c \in Calls : c.entries \in Seq(Cases) /\ c.entries # <<>>
  /\ \A c \in Calls : c.keep \in BOOLEAN /\ c.dry \in BOOLEAN
  /\ MaxSweeps \in Nat /\ MaxFailures \in Nat

VARIABLES
  at,           \* where the sweep is
  call,         \* its options, and what its configuration files say
  input,        \* what can still be read of the list
  entry,        \* the case
  path,         \* the L2 path of its replay, once that has started
  overallStatus,  \* overall_status
  exit,         \* the exit status of the sweep
  results,      \* [Files -> the records of sweep-results.jsonl, l1-size-results.jsonl]
  csv,          \* [Dirs -> the rows of sweep-summary.csv, by the place of their record]
  l2,           \* [Roots -> replays whose blocks are there]
  out,          \* [Dirs -> [cases -> replays that wrote there]]
  stats,        \* [Dirs -> [cases -> whose l2_replay_stats.json it is]]
  replay,       \* the number of the last replay
  first,        \* (history) the replays before this sweep
  succeeded,    \* (history) [Dirs -> the cases of speeds that ended with 0, with their replays]
  orphans,      \* replays that outlive their killed sweep
  sweeps, failures  \* (bounds)

vars == <<at, call, input, entry, path, overallStatus, exit, results, csv, l2, out, stats,
          replay, first, succeeded, orphans, sweeps, failures>>

root == call.root
dir == call.dir
list == call.entries

(* results_jsonl: each script has a file of its own in an output root.     *)
Files == Dirs \X Scripts
File(c) == <<c.dir, c.script>>
file == File(call)

Replays == Nat \ {0}
Records == [entry : Cases, replay : Replays, returncode : {"zero", "nonzero"},
            status : {"ok", "failed", "dry_run"}]
Rows == [entry : Cases, replay : Replays]

TypeOK ==
  /\ at \in {"idle", "next", "running"}
  /\ call \in Calls /\ entry \in Cases /\ path \in Roots \cup {None}
  /\ input \in Seq(Cases)
  /\ overallStatus \in {"zero", "nonzero"} /\ exit \in {"none", "zero", "nonzero"}
  /\ results \in [Files -> Seq(Records)] /\ succeeded \in [Dirs -> SUBSET Rows]
  /\ DOMAIN csv = Dirs
  /\ \A d \in Dirs : DOMAIN csv[d] \subseteq Nat /\ csv[d] \in [DOMAIN csv[d] -> Rows]
  /\ l2 \in [Roots -> SUBSET Replays]
  /\ out \in [Dirs -> [Cases -> SUBSET Replays]]
  /\ stats \in [Dirs -> [Cases -> [replay : Replays, json : BOOLEAN] \cup {None}]]
  /\ replay \in Replays \cup {0} /\ first \in Replays \cup {0}
  /\ orphans \subseteq [replay : Replays, root : Roots, dir : Dirs, entry : Cases]
  /\ sweeps \in 0 .. MaxSweeps /\ failures \in 0 .. MaxFailures

Init ==
  /\ at = "idle" /\ call = (CHOOSE c \in Calls : TRUE) /\ input = <<>>
  /\ entry = Head(list) /\ path = None /\ overallStatus = "zero" /\ exit = "none"
  /\ results = [f \in Files |-> <<>>] /\ succeeded = [d \in Dirs |-> {}]
  /\ csv = [d \in Dirs |-> <<>>]
  /\ l2 = [r \in Roots |-> {}] /\ out = [d \in Dirs |-> [c \in Cases |-> {}]]
  /\ stats = [d \in Dirs |-> [c \in Cases |-> None]]
  /\ replay = 0 /\ first = 0 /\ orphans = {} /\ sweeps = 0 /\ failures = 0

Failure == failures < MaxFailures /\ failures' = failures + 1
Exits(e) == at' = "idle" /\ exit' = e

-----------------------------------------------------------------------------
(* python -m replayer.main.                                                *)

(* _merge: the adapter is the only mapping in a configuration.             *)
Merge(base, override) ==
  [k \in DOMAIN base \cup DOMAIN override |->
     IF k \notin DOMAIN override THEN base[k]
     ELSE IF k = "l2_adapter" /\ k \in DOMAIN base THEN override[k] @@ base[k]
     ELSE override[k]]

(* _load_raw_config, for files that extend the one before them.            *)
Raw(files) == FoldLeft(Merge, files[1], Tail(files))

(* The fields of ReplayerConfig: what no file says has its default.        *)
Loaded(files) == Raw(files) @@ Defaults

(* ReplayerConfig.validate; the ranges of the numbers are its "rest".      *)
ConfigValid(c) ==
  c.rest = "valid" /\ c.l2_store_policy = "skip_l1" /\ "type" \in DOMAIN c.l2_adapter

(* Mutant: only the base_path is replaced.                                 *)
Overridden_BasePath(a, r) ==
  IF a.type = "nixl_store_dynamic" /\ "file_path" \in DOMAIN a THEN a.file_path
  ELSE IF a.type = "fs_native" THEN r ELSE None

(* apply_overrides: the L2 path of the adapter, or None: an error.         *)
Overridden(a, r) ==
  IF a.type = "fs_native" \/ (a.type = "nixl_store_dynamic" /\ "file_path" \in DOMAIN a)
    THEN r ELSE None

(* The nodes of a profiler's configuration: those of "nodes", and          *)
(* "replay_node".                                                          *)
ProfileNodes(p) ==
  p.nodes \o (IF p.replayNode = None THEN <<>> ELSE <<[p.replayNode EXCEPT !.role = "replay"]>>)

(* NodeConfig.validate: the forms of names, devices, ports are its "rest". *)
NodeValid(n) ==
  n.rest = "valid" /\ n.role \in {"storage", "replay"} /\ n.devices \cup n.interfaces # {}

(* ProfilerConfig.validate: intervals, timeouts, paths are its "rest".     *)
ProfileValid(p) ==
  LET nodes == ProfileNodes(p) IN
  /\ nodes # <<>> /\ p.rest = "valid"
  /\ \A i, j \in DOMAIN nodes : i # j => nodes[i].name # nodes[j].name
  /\ \A i \in DOMAIN nodes : NodeValid(nodes[i])

(* --l2-path is the root of the sweep.                                     *)
UsedPath == Overridden(Loaded(call.config).l2_adapter, root)

(* The configuration is read, overridden and validated; then that of the   *)
(* profiler is read.                                                       *)
Accepted ==
  /\ DOMAIN Raw(call.config) \subseteq DOMAIN Defaults /\ ConfigValid(Loaded(call.config))
  /\ UsedPath # None
  /\ call.profile # None => ProfileValid(call.profile)

-----------------------------------------------------------------------------
(* Mutant: the directories of the cases are not tested.                    *)
PathsAvailable_AnyOut(c) == c.keep => l2[c.root] = {}

(* ensure_case_path_available, for every case before the first one.        *)
PathsAvailable(c) ==
  /\ c.keep => l2[c.root] = {}
  /\ \A e \in ToSet(c.entries) : out[c.dir][e] = {}

Sweep(c) ==
  /\ at = "idle" /\ sweeps < MaxSweeps /\ sweeps' = sweeps + 1
  /\ call' = c /\ first' = replay
  /\ IF PathsAvailable(c)
       THEN /\ at' = "next" /\ exit' = "none"
            /\ input' = c.entries /\ overallStatus' = "zero"
            /\ results' = [results EXCEPT ![File(c)] = <<>>]
       ELSE Exits("nonzero") /\ UNCHANGED <<input, overallStatus, results>>
  /\ UNCHANGED <<entry, path, csv, l2, out, stats, replay, succeeded, orphans, failures>>

(* Mutant: the L2 root is not reset.                                       *)
ResetL2_Warm == l2

(* reset_l2_root.                                                          *)
ResetL2 == IF call.keep \/ call.dry THEN l2 ELSE [l2 EXCEPT ![root] = {}]

(* What read leaves of the list.                                           *)
Rest == Tail(input)

(* The next case: its L2 root is reset, its directory made, its command    *)
(* started.                                                                *)
Replay ==
  /\ at = "next" /\ input # <<>>
  /\ at' = "running"
  /\ entry' = Head(input) /\ input' = Rest
  /\ replay' = replay + 1 /\ path' = None
  /\ l2' = ResetL2
  /\ UNCHANGED <<call, overallStatus, exit, results, csv, out, stats, first, succeeded, orphans,
                 sweeps, failures>>

(* run_command and LMCache write: blocks, and results.                     *)
Writes ==
  /\ at = "running" /\ path = None /\ Accepted /\ ~call.dry
  /\ path' = UsedPath
  /\ l2' = [l2 EXCEPT ![path'] = @ \cup {replay}]
  /\ out' = [out EXCEPT ![dir][entry] = @ \cup {replay}]
  /\ UNCHANGED <<at, call, input, entry, overallStatus, exit, results, csv, stats, replay, first,
                 succeeded, orphans, sweeps, failures>>

(* ssh of the profiler reads what it finds.                                *)
InputLeft == IF call.profile # None /\ Accepted /\ ~call.dry THEN {input, <<>>} ELSE {input}

(* "status" of a record: of a failed dry run only one script says so.      *)
Status(code) ==
  IF call.dry /\ (code = "zero" \/ call.script = "speeds") THEN "dry_run"
  ELSE IF code = "zero" THEN "ok" ELSE "failed"

Record(code) ==
  /\ results' = [results EXCEPT ![file] =
       Append(@, [entry |-> entry, replay |-> replay, returncode |-> code, status |-> Status(code)])]
  /\ succeeded' = IF code = "zero" /\ call.script = "speeds" /\ ~call.dry
       THEN [succeeded EXCEPT ![dir] = @ \cup {[entry |-> entry, replay |-> replay]}]
       ELSE succeeded

(* Mutant: the status of the last replay only.                             *)
Overall_Last(code) == code

(* overall_status after a replay.                                          *)
Overall(code) == IF code = "zero" THEN overallStatus ELSE "nonzero"

(* The replay leaves its statistics, or none; broken ones are a failure.   *)
Statistics(json) ==
  \E own \in IF json /\ path # None THEN BOOLEAN ELSE {~json} :
    stats' = IF own THEN [stats EXCEPT ![dir][entry] = [replay |-> replay, json |-> json]] ELSE stats

Returns ==
  /\ at = "running" /\ at' = "next"
  /\ input' \in InputLeft
  /\ \E code \in {"zero", "nonzero"}, json \in BOOLEAN :
       /\ Record(code) /\ overallStatus' = Overall(code) /\ Statistics(json)
       /\ code = "zero" => Accepted /\ (call.dry \/ path # None)
       /\ ~json => code = "zero" /\ path # None
       /\ IF ~json \/ (code = "nonzero" /\ Accepted) THEN Failure ELSE UNCHANGED failures
  /\ UNCHANGED <<call, entry, path, exit, csv, l2, out, replay, first, orphans, sweeps>>

(* Mutant: every record that has statistics.                               *)
Selected_Any(rec) == stats[dir][rec.entry] # None

(* The records write_speed_sweep_csv makes rows of.                        *)
Selected(rec) == rec.status = "ok" /\ stats[dir][rec.entry] # None

(* The summary of the records, the CSV unless statistics are broken, then  *)
(* the exit status.                                                        *)
Report ==
  /\ at = "next" /\ input = <<>>
  /\ LET chosen == {i \in DOMAIN results[file] : Selected(results[file][i])}
         found(i) == stats[dir][results[file][i].entry] IN
       IF call.dry \/ call.script = "sizes"
         THEN Exits(overallStatus) /\ UNCHANGED <<csv, failures>>
       ELSE IF \E i \in chosen : ~found(i).json
         THEN Exits("nonzero") /\ UNCHANGED <<csv, failures>>
       ELSE \/ /\ csv' = [csv EXCEPT ![dir] =
                    [i \in chosen |->
                       [entry |-> results[file][i].entry, replay |-> found(i).replay]]]
               /\ Exits(overallStatus) /\ UNCHANGED failures
            \/ Failure /\ Exits("nonzero") /\ UNCHANGED csv
  /\ UNCHANGED <<call, input, entry, path, overallStatus, results, l2, out, stats, replay, first,
                 succeeded, orphans, sweeps>>

(* SIGINT, which the replay gets too, or SIGTERM with a trap for it: when  *)
(* the replay has ended.                                                   *)
Interrupted ==
  /\ at = "running" /\ Failure /\ Exits("nonzero")
  /\ UNCHANGED <<call, input, entry, path, overallStatus, results, csv, l2, out, stats, replay,
                 first, succeeded, orphans, sweeps>>

(* SIGKILL, or SIGTERM of the L1 sweep, which has no trap: the replay goes *)
(* on.                                                                     *)
Killed ==
  /\ at # "idle" /\ Failure /\ Exits("nonzero")
  /\ orphans' = IF at = "running" /\ Accepted /\ ~call.dry
       THEN orphans \cup {[replay |-> replay, root |-> UsedPath,
                           dir |-> dir, entry |-> entry]}
       ELSE orphans
  /\ UNCHANGED <<call, input, entry, path, overallStatus, results, csv, l2, out, stats, replay,
                 first, succeeded, sweeps>>

OrphanWrites(o) ==
  /\ o \in orphans /\ o.replay \notin l2[o.root]
  /\ l2' = [l2 EXCEPT ![o.root] = @ \cup {o.replay}]
  /\ out' = [out EXCEPT ![o.dir][o.entry] = @ \cup {o.replay}]
  /\ UNCHANGED <<at, call, input, entry, path, overallStatus, exit, results, csv, stats, replay,
                 first, succeeded, orphans, sweeps, failures>>

OrphanEnds(o) ==
  /\ o \in orphans /\ o.replay \in out[o.dir][o.entry]
  /\ stats' = [stats EXCEPT ![o.dir][o.entry] = [replay |-> o.replay, json |-> TRUE]]
  /\ UNCHANGED <<at, call, input, entry, path, overallStatus, exit, results, csv, l2, out, replay,
                 first, succeeded, orphans, sweeps, failures>>

Running ==
  \/ Replay \/ Writes \/ Returns \/ Report \/ Interrupted \/ Killed
  \/ \E o \in orphans : OrphanWrites(o) \/ OrphanEnds(o)

Next == (\E c \in Calls : Sweep(c)) \/ Running

Spec == Init /\ [][Next]_vars

-----------------------------------------------------------------------------
(* Properties.                                                             *)

(* Replays of killed sweeps.                                               *)
Orphaned == {o.replay : o \in orphans}

(* Exit code 0: a record for every entry of the list, in its order, each   *)
(* of a replay of this sweep that ended with 0.                            *)
ZeroIsAll ==
  exit = "zero" =>
    /\ Len(results[file]) = Len(list)
    /\ \A i \in 1 .. Len(list) :
         /\ results[file][i].entry = list[i] /\ results[file][i].returncode = "zero"
         /\ results[file][i].replay > first

(* "이전 case의 warm cache도 남지 않습니다" (replayer.md:141): a replay finds     *)
(* only what it wrote itself, with --keep-l2 what this sweep wrote; but    *)
(* for what replays of killed sweeps have written since.  The root that is *)
(* reset is the path the adapter of the replay uses, whatever path and     *)
(* adapter the configuration has.                                          *)
ColdStart ==
  at = "running" /\ path # None =>
    \A n \in l2[path] :
      n = replay \/ (call.keep /\ n > first) \/ n \in Orphaned

(* "기존 replay 결과를 보호하기 위해" (replayer.md:143): no replay writes to the   *)
(* directory of a case an earlier sweep has written to, but for replays of *)
(* killed sweeps, which may begin to write when the directory was tested.  *)
EarlierKept ==
  at = "running" /\ path # None => \A m \in out[dir][entry] : m > first \/ m \in Orphaned

(* Whether a row is about a replay of the records, one that ended with 0.  *)
SpeedRecords(d) == ToSet(results[<<d, "speeds">>])
Recorded(row, d) ==
  \E rec \in SpeedRecords(d) :
    rec.replay = row.replay /\ rec.entry = row.entry /\ rec.returncode = "zero"

(* The rows without statistics of a replay of a killed sweep.              *)
OwnRows(d) == {i \in DOMAIN csv[d] : csv[d][i].replay \notin Orphaned}

(* "comparison CSV for successful cases" (report.py:293): a row is about a *)
(* replay of the speeds that ended with 0, with the statistics of that     *)
(* replay, in the order of the list; but for statistics a replay of a      *)
(* killed sweep has written.  All rows are about the records in            *)
(* sweep-results.jsonl, or none is: the CSV of an earlier sweep is left by *)
(* a later one with other entries that is a dry run, is interrupted or     *)
(* fails to write it.  After exit code 0 all are, and none is missing.     *)
CsvIsSuccessful ==
  /\ \A d \in Dirs :
       /\ \A i \in OwnRows(d) : csv[d][i] \in succeeded[d]
       /\ \A i, j \in OwnRows(d) : i < j => csv[d][i].replay < csv[d][j].replay
       /\ \/ \A i \in OwnRows(d) : Recorded(csv[d][i], d)
          \/ \A i \in OwnRows(d), rec \in SpeedRecords(d) : rec.replay # csv[d][i].replay
  /\ exit = "zero" /\ call.script = "speeds" /\ ~call.dry =>
       /\ \A i \in OwnRows(dir) : Recorded(csv[dir][i], dir)
       /\ \A rec \in SpeedRecords(dir) :
            LET found == stats[dir][rec.entry] IN
            found # None => (found.replay = rec.replay =>
              \E i \in DOMAIN csv[dir] : csv[dir][i].replay = rec.replay)

-----------------------------------------------------------------------------
(* What a document says and the code does not do (README, section 8).      *)

(* --io-profile profiles every speedup of the list (replayer.md:138-139).      *)
ProfiledIsAll == exit = "zero" => Len(results[file]) = Len(list)

(* The output of the cases is separate (replayer.md:121-122).              *)
SeparateOutputs ==
  \A f \in Files : \A i, j \in 1 .. Len(results[f]) :
    i # j => results[f][i].entry # results[f][j].entry

=============================================================================
