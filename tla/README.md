# TLA+ models of LMCache Tracebench

Models of the parts of this repository that start, watch, stop and clean up
after other programs, on one node or on several, of the parts that keep
large files on nodes that can lose each other, and of the configurations and
scripts that decide what is run on which directory. The modules are translated from
the code; a definition's lines are in `PROJECT.json` ("map"). Paths below are
relative to the root of the repository.

Checking: `tlc -config X.cfg M` for the runs of section 4, `tlapm M.tla` for
the modules named `*Proofs`.

Contents: 1 inventory, 2 plan, 3 modules and code, 4 runs, 5 bounds,
6 fairness, 7 proofs, 8 disagreements between code and text, 9 what is left out.

## 1. Inventory

| Component | Code | State it keeps | Operations | Modelled in |
|---|---|---|---|---|
| Recorder lifecycle | `src/recorder/live.py`, `process.py` | process groups of LMCache, vLLM and the workload client; the trace; `manifest.json` | start, wait for port and health, run the workload, stop in order, write the manifest | `RecorderLive` |
| Recorder planning | `src/recorder/main.py`, `launcher.py`, `config.py`, `workload.py` | none; the L2 directory it empties | load a chain of configurations, validate, apply options, resolve paths, build commands, reset L2 | `ConfigChain`, `RecorderMain` |
| Mooncake traces | `src/recorder/mooncake.py`, `mooncake_cli.py` | a downloaded trace | download, count, select, summarise, statistics | `MooncakeTrace` |
| Replay runner | `src/replayer/runner.py` | output directory, exit code | prepare, profile, replay, finalise | `ProfiledReplay` |
| Replay CLI, config, reports | `src/replayer/main.py`, `config.py`, `report.py` | none; the CSV of a sweep | merge, validate, override, select rows | `ReplaySweep` |
| Profiler configuration | `src/traceprof/config.py` | none | load, validate | `ReplaySweep` |
| Remote profiler controller | `src/traceprof/controller.py`, `aggregate.py` | one ssh process per node, pending nodes, copied profiles | deploy, preflight, start, stop, collect, aggregate, clean up | `ProfiledReplay` |
| Remote profiler agent | `src/traceprof/storage_agent.sh` | pid file, snapshots, `disk.tsv`, `summary.json` | run, stop | `ProfilerAgent`, `AgentLifecycle` |
| Parallel replay | `src/replayer/instances.py`, `benchmarks/replayer/replay_instances.sh` | running list, results, L2 directories | reset, launch, poll, terminate, summarise | `ReplayInstances` |
| Replay sweeps | `benchmarks/replayer/replay_speed_sweep.sh`, `replay_l1_size_sweep.sh` | L2 root, case directories, `sweep-results.jsonl` | check paths, replay each case, report | `ReplaySweep` |
| Outer replay sweeps | `replay_workload_sweep.sh`, `replay_backend_sweep.sh`, `replay_common.sh` | `workload-results.jsonl`, `backend-results.jsonl` | one inner sweep per workload or backend | `ReplayMatrix` |
| Recording sweeps | `benchmarks/recorder/*.sh` | output and L2 directories, `l2_usage.jsonl` | one recording per workload and speedup, measure and clean L2 | `RecordSweep` |
| Staged remote replay | `benchmarks/replayer/staged_remote_replay.sh` | archives, traces, repository, venv and outputs on two nodes | prepare-trace, prepare-replay, replay, all | `StagedReplay` |
| Trace assets, GitHub | `tools/artifacts/release_asset.sh` | release assets, output file | release, upload, download | `ReleaseAsset` |
| Trace assets, Hugging Face | `tools/artifacts/hf_trace_asset.sh` | dataset file, destination | upload, download | `HubAsset` |
| uv download, runtime setup | `tools/artifacts/uv_binary.sh`, `scripts/setup_runtime.sh` | one binary, one venv | download, install, verify | as steps of `StagedReplay` |
| LMCache, vLLM | external | | | as processes of `RecorderLive`, `ReplayInstances`, `ProfiledReplay` |

How they interact. A recording is one Python process with three children in
process groups of their own, driven by signals, ports and exit codes; its
product is a trace and a manifest. A trace travels through a Release or a
Dataset to a controller, which stages it, the repository and a venv onto an
isolated replay node over ssh, rsync or scp. There a replay is
`python -m replayer.main`, alone, in a sweep, or as one of several parallel
instances. With `--io-profile` it starts an agent on every configured node over
ssh, waits for their READY lines, and afterwards stops, collects and aggregates
them. What one component leaves on disk (an L2 directory, a run directory, an
extracted trace) is what the next one finds, often with nothing but its
existence as evidence of what happened.

What is hard, and which properties answer it:

* Shutdown order and half-dead process groups (recorder): a leader can exit
  before its workers, survive SIGKILL for a while, or be interrupted at any
  step. `NoStoreDuringFlush`, `ManifestFollowsStop`, `ManifestTraceIsFinal`,
  `ReturnMeansRecorded`, `RunEnds`, `GroupsEnd`.
* A finalisation of many steps on many nodes, each of which can fail or be
  interrupted, and READY lines that travel through pipes and buffers
  (profiler). `ReplayIsMeasured`, `ExitZeroIsProfiled`, `RemovedIsCollected`,
  `RunReturns`.
* Byte counts over intervals that do not divide each other, with a stop at any
  time (agent). `IntervalsAddUp`, `RowsCoverRun`, `AgentEnds`.
* Children that end while others are polled or stopped, and grandchildren
  nobody signals (instances). `ZeroMeansAll`, `SummaryIsHonest`, `NoneLeft`,
  `FailureEndsRun`, `FirstRunIsCold`.
* Crashes, lost connections and commands that outlive them, with only
  existence tests to recover from (staged replay). `NothingOverwritten`,
  `RuntimeIsVerified`, `ZeroIsReplayed`, `RetrievedIsFinal`.
* Uploads of several parts next to downloads (assets). `DownloadIsWhole`,
  `UploadIsComplete`, `NothingReplaced`, `ZeroIsCurrent`, `ExistingIsKept`.
* A loop over a list on a shared standard input, caches that must start
  cold on the path the adapter really uses, and a CSV put together from records
  and files (sweeps). `ZeroIsAll`, `ColdStart`, `EarlierKept`, `CsvIsSuccessful`.
* Two levels of scripts that fail and are interrupted independently, with an
  exit code each (outer sweeps). `TriesAll`, `MatrixZeroIsAll`.
* Several processes that download one file, with a file that is read three
  times and may be replaced in between (Mooncake). `FileIsAResponse`,
  `PlanIsPrefix`, `RecordedIsPlanned`, `PercentIsKept`, `PartsAreExplained`.
* Settings on their way through a chain of files, defaults, validation and
  options, and paths that are emptied (planning). `NoFileTwice`, `NearestWins`,
  `SettingsAreUsed`, `RemovesBelowMountpoint`, `KeepsProtected`.
* A script and a configuration that each make up the L2 path of a recording,
  and a script that cleans after failures too (recording sweeps).
  `OnlyOwnBlocks`, `UsageIsOfRun`, `ZeroIsRecorded`, `NoBlocksLeft`,
  `DryRunKeepsDisk`.

`PROJECT.json` ("hazards") lists each hazard at its line.

## 2. Plan

In order of importance; the first thirteen are done.

1. `RecorderLive`, with the first part of `RecorderProofs`.
2. `AgentLifecycle` (abstract) and `ProfilerAgent`, which implements it.
3. `ProfiledReplay`: runner and controller composed with one agent per node,
   each in a phase of `AgentLifecycle`. It uses that module's operators, so
   what `ProfilerAgent` is shown to implement is what the controller is
   checked against.
4. `ReplayInstances`.
5. `StagedReplay`.
6. `ReleaseAsset`, `HubAsset`.
7. `ReplaySweep`, with the configuration of each replay and the CSV;
   `ReplayMatrix`, the workload and backend sweeps around it.
8. Theorems for 1 to 5: the type invariant of each, and the safety properties
   listed in section 7.
9. `MooncakeTrace`.
10. `ConfigChain`, and `RecorderMain` on top of it.
11. `RecordSweep`: the recording sweeps around `RecorderMain`, in which the
    processes of `RecorderLive` are one step.
12. Theorems for 6, 7 and 9: every safety property of their runs.
13. Theorems for 10 and 11: `SettingsInv`, `RemovesSafely`, `CasesInv` and
    `OnlyOwnBlocks`, in the second part of `RecorderProofs`. With them every safety
    property of the passing runs is a theorem.
14. Abstract specifications still worth stating: a run directory that is either
    collected or kept (`ProfiledReplay`), and a write-once store (`StagedReplay`).
15. Two sweeps at the same time on one output root or one L2 root.

## 3. Modules and code

Conventions. An exit status is "zero" or "nonzero". A failure of something
outside the code (a connection, a child, a kill) is a disjunct that counts
against a bound. Variables the code does not have are marked as history in
their declarations and are read by no guard of the code. A definition named
`X_Y` right before a definition `X` is a mutated `X` which some property, or
some part of one, must catch.

Type invariants: those of the modules with proofs are theorems (section 7), those
of the other modules are the first part of an invariant of their run. Six
properties are conjunctions of named parts, each of which is stated and
commented on its own:

| Property | Parts |
|---|---|
| `FilesInv` | `TypeOK`, `FileIsAResponse`, `PartsAreExplained` |
| `PlansInv` | `PlanIsPrefix`, `PercentIsKept` |
| `SettingsInv` | `RecordTypeOK`, `NoFileTwice`, `NearestWins`, `SettingsAreUsed` |
| `CasesInv` | `UsageIsOfRun`, `ZeroIsRecorded`, `NoBlocksLeft` |
| `RemovesSafely` | `RemovesBelowMountpoint`, `KeepsProtected`, `DryRunKeepsDisk` |
| `ExitCodesInv` | `MatrixTypeOK`, `ZeroIsAll`, `TriesAll`, `MatrixZeroIsAll` |

`DownloadInv` and `DatasetInv` are `TypeOK` with `DownloadIsWhole` and with
`ZeroIsCurrent`.

**RecorderLive**: `run_live`. `pc` and `cur` say where in the try and finally
blocks it is. `StartProcess` is `start_process`; the polls, probes and the
startup timeout are the steps of `wait_for_tcp` and `wait_for_http`;
`WaitLeader`, `WaitGroup`, the kill and the reap are `stop_process`. `handle`
is a local variable, `leader`, `workers` and `ready` are what the operating
system knows. An exception, also `KeyboardInterrupt`, goes to the finally block
from a try point and out of the function from a finally point. The servers are
modelled from their use: they may become ready, crash, leave workers behind,
flush on SIGTERM.

**AgentLifecycle**: what an agent promises: pid file before READY, SIGTERM
deadly before the trap, orderly after it, a summary only after a stop.

**ProfilerAgent**: `run_agent`. A snapshot is a value of all counters, a
`date` read is a clock value that moves on and may be set back. `InstallTrap`
is line 271: the signal only sets a flag from then on. `Lifecycle` is the
refinement mapping.

**ProfiledReplay**: `run_command` around `RemoteProfiler`. Every loop over the
nodes keeps the nodes left in `todo`. An agent's output goes from `pipe` to
`held` (the line buffer of `readline`) to the controller, as the code does
with `select` and `readline`. `local` and `remote` are the files of a run
directory; a local one may carry "earlier", the leftovers of a previous run.
`Fail` is an exception: before the replay it leaves through the finally block
with `profiler_started` as it is.

**ReplayInstances**: `run_instances`. `proc` is a `replayer.main` process,
`child` its LMCache replay. `lost` (history) holds instances started but not yet
in the list when Ctrl-C came.

**StagedReplay**: one call after the other of the script. `step` and `item` say
what it does with which archive, trace, repository, venv or output. `mode` is the
runtime mode of the topology file, chosen once. `here`
and `there` are the contents at the two nodes: absent, partial, complete, and
for the venv copied and ready. `job` is a remote command, which may go on
without its ssh. The existence tests are guards that a failed ssh makes false;
`missed` (history) remembers the tests that failed although the path was there.
What then happens to a venv that works is that of the code: `setup_runtime.sh` or
the repair of a copied venv goes over it again (`Reworks`, until it ends, or is
stopped half-way), and rsync of the repository adds the files of the controller's
`.venv` that it lacks (`Merged`).

**ReleaseAsset**: `up` and `down` are an uploader and a downloader; the asset
NAME is 0 and NAME.part-i is i, each with the version it holds.

**HubAsset**: callers that each list, then commit or fetch; the destination is
opened, which truncates it, and then copied to. Names that `ReleaseAsset` has as
well begin with `hub` here, so that one module can prove about both.

**ReplaySweep**: one sweep after the other. A replay is a number; `l2` and
`out` are the replays that left something in an L2 root or a case directory,
`stats` whose statistics file a case directory has. `input` is what the loop's
standard input still holds. The two scripts differ in names, numbers, the CSV
and the trap only, and are one module: SIGTERM without a trap is `Killed`, and
the replay of a killed sweep goes on as an orphan. Each call has a list of its own;
an output root has one file of records for each of the two scripts (`Files`), which
a call empties, and a CSV, which only the end of a call on speeds writes. So a later
call with other speedups leaves the CSV of an earlier one without any record when it
is interrupted, is a dry run, or fails to write its own (`succeeded`, history, is
what those rows are checked against). The configuration files of a
call are a sequence of what each of a chain says; `Loaded`, `Overridden` and
`ConfigValid` are those functions of `src/replayer/config.py`, and `UsedPath` is the
directory the adapter then writes to, under whichever key the adapter has it.
`ProfileValid` is the validation of `--io-profile`'s file. `Selected` says which
records become rows of the CSV; a row is kept under the place of its record, so
that the CSV is a function whose domain is a set of places, in the order of the file.

**ReplayMatrix**: the outer sweeps. Its actions call `Sweep`, `Interrupted` and
`Running` of `ReplaySweep`, so a workload is a whole inner sweep with all its
failures. All items of an outer sweep have the list of its `--speedups`, as in the
scripts (`MatrixAssumption`). The output of both scripts goes through one `tee` each: Ctrl-C ends
the tees, and the scripts with their next message (`MatrixInterrupted`); a signal
to the inner sweep alone ends that one only.

**MooncakeTrace**: calls of `prepare_mooncake_workload`, by the recorder and by
`mooncake_cli`, at the same time. `file` is the content at the path of each trace,
`temp` that of a call's temporary file, `upstream` what the URL serves. A pass over
the file is one step, because an open file stays what it is when its path is
replaced. The temporary file exists before `temporary_path` is assigned
(`pc` = "made"), and is unlinked by a step of its own: an interrupt in between, or
a second one in the except clause, leaves it (`Lapses`; `mooncake.py:68-81`). A
percentage is a number of units of 1/`Percent`. `Exact` is its share rounded
up; `Limits` is a set, because the product of floats may come out on either side of a
whole number: `ceil(250 * 64.4 / 100.0)` is 162, and
`ceil(3 * 33.333333333333336 / 100.0)` is 1 where the exact product is above 1. `Slack`
is how far it may be off, any amount below one request; with a whole percentage the
product of two integers is exact.

**ConfigChain**: `_load_raw_config` with its recursion: `ancestry` is the argument
of that name, and the stack of the calls that wait. `Over` is the merging of two
mappings, and `Sections` says which mappings a section can be, so that merged ones
are again of a type. `Above` and `Nearest` are the reference definition of what a
chain means: no recursion over the calls, only the file that many `extends` up, and
the nearest one that has a key.

**RecorderMain**: `recorder.main` up to `run_live`, and what `run_live` does to
the disk. A path is a sequence of names, resolved through `..` and `Links` by
`Walk`; settings are sections (`l2` and `mooncake`, which are nested in the code, are
sections of their own), and `rest` stands for the values whose ranges are checked
one by one. `Planned` has of the commands what the properties are about. `Names`
are the names of files; it is bounded by nothing, as the proofs are about all paths
over it. `Means` is what a file and its chain say of a key, without a load: the
value a plan must have, and what the hypotheses of section 7 are about.

**RecordSweep**: `record_speed_sweep.sh` and `record_source_traces.sh`, one case
after the other; `call.script` says which one. `ended = "broken"` is an end
before the status of the recorder is passed on. `usage` is `l2_usage.jsonl` below the
one output root of all calls, which each call appends to
(`record_speed_sweep.sh:259`); `base` tells the records of a call from those before
it. The section "What the scripts take
for granted" has `Agreed` and `Apart`, the hypotheses of its theorems; `MCRecordSweep`
asserts both of every initial state, so that the run shows they are met by the
repository's configurations.

`MCMooncakeTrace`, `MCRecordSweep`, `MCReleaseAsset` and `MCReplaySweep` hold
the functions and sequences their configurations use as constants; those of
`MCRecordSweep` and `MCReplaySweep` are the repository's own `configs/`, with others
that extend each other.

## 4. Runs

One run per component that must pass, with all of its properties:

| Run | Shows |
|---|---|
| `RecorderLive.cfg` | With two interrupts anywhere, occupied ports, a stale trace, unkillable leaders and the recorder's death: shutdown order, manifest and normal return mean what they should; a run ends, and one with a manifest leaves no process. |
| `ProfilerAgent.cfg` | Rows add up for two devices with stops and clock changes anywhere; the agent implements `AgentLifecycle`, and ends when it is stopped. |
| `ProfiledReplay.cfg` | Two nodes, a fault, a line of ssh, a Ctrl-C and old directories: meaning of READY, of exit code 0 and of removal; the controller always returns. |
| `ReplayInstances.cfg` | Two instances, two runs, a failure, a Ctrl-C: exit code, summary, nobody left, a cold first run; a failing instance ends the run. |
| `StagedReplay.cfg` | Three calls of any phase with two failures or kills, in both runtime modes: what exit code 0 means, what is overwritten, and when a venv that works is changed. |
| `ReleaseAsset.cfg` | Four versions of different sizes, uploads and downloads interleaved. |
| `HubAsset.cfg` | Two uploaders and a downloader, two calls each, two failures. |
| `ReplaySweep.cfg` | Three sweeps, each of one of the lists of the two scripts, two L2 and two output roots, alone or for the workloads or backends of an outer sweep, two failures or signals: exit codes of both levels, cold starts on the adapter's path, whose rows a CSV has, also one an earlier sweep left. |
| `MooncakeTrace.cfg` | A recorder and a checker at the same time, two traces with two versions, one failure, interrupt or kill, and a second interrupt while the first is handled: the file, temporary files, the plan and what is recorded of it; every call ends. |
| `RecordSweep.cfg` | Two recordings by a script or alone, with the repository's configurations and chains of others, one failure or interrupt: settings, paths that are emptied, and what a sweep measures, cleans and reports. |

Two runs end in a violation, each the counterexample of a disagreement in
section 8: `RecorderLiveDoc.cfg` and `ReplaySweepProfiled.cfg`.

Deadlock is not checked: every one of these programs ends, and the state it
ends in has no successor.

## 5. Bounds

The names of bounds begin with `Max` and they occur in guards only. They count
what the environment does (failures, interrupts, calls, traffic); the control
of the programs is bounded by itself.

* Two nodes, instances, devices and cases are enough for "one is through the
  step, the other is not", which is what each loop can get wrong; the code
  treats them alike.
* Two failures or interrupts are enough for a failure during the handling of a
  failure. `ProfiledReplay` has one of each kind, a fault and a Ctrl-C, in one
  run; a second fault multiplies its states beyond use. The theorems hold for
  any number.
* Three calls of the staged replay: one that fails, one that goes on from
  there, one that goes on from both; three replay sweeps, for a sweep after
  one on another root, and for one with another list into an output root that has a
  CSV: lists of two speeds, of a third one, and of one L1 size; two calls for the assets, the instances, the traces
  and the recordings, where only what a call leaves behind matters to the next.
* `MaxSamples = 2` with `ReportInterval = 2` and gaps of 1 and 2 has reports
  at a sample, between samples, and in the final flush only.
* `Limit = 3`, `Chunk = 2` and `MaxParts = 3` in `ReleaseAsset` keep the order of
  the code's 2 GiB and 1900 MiB, and have a file of one piece, two, three, and
  more than there are suffixes for.
* Chains of up to three configurations have a file between the nearest and the
  last one, which is where a key can be dropped or a circle can begin that does
  not come back to the first file.
* Versions of one and two entries, with a percentage of 50.01 and a slack of 3 (in
  hundredths of a percent of a request), have a limit that is rounded up, one that is
  one too low, and a file that is replaced by a shorter or longer one. They are too
  short for a limit that is one too high, and no call of the run has a whole percentage
  that is not refused: both are in the theorem about `PlansInv` (and the first in the
  counterexample of section 8). One new version and one failure are enough for each
  of the three passes to see another file than the one before.

## 6. Fairness

The runs of the first four modules and of `MooncakeTrace` check a
specification with fairness, because they have a liveness property each; the
others have none. The safety properties do not
use the fairness.

* `RecorderLive`: the recorder runs (WF); the readiness loops compare a
  monotonic clock with a deadline in every round, so the timeout of a loop that
  polls for ever is taken (SF: it is enabled between polls only); the workload
  client ends; SIGKILL ends leaders not in `Unkillable`, and workers. No server
  is assumed to become ready, to obey SIGTERM or to crash.
* `ProfilerAgent`: the agent runs, and the controller's stop is sent
  once it may be.
* `ProfiledReplay`: the controller runs, which includes that its timeouts
  expire and that the replay ends (`process.wait()` at `runner.py:336` has no
  timeout). Nothing is assumed of nodes or ssh.
* `ReplayInstances`: the orchestrator runs, and an instance that was signalled
  or whose replay ended exits. Replays need not end.
* `MooncakeTrace`: a call runs, which includes that a response goes on or fails
  (`urlopen` has a timeout of 60 seconds for each read), and that the client of vLLM
  ends.

## 7. Proofs

Each `*Proofs` module extends the component's module and proves, from the
assumptions on its constants, an inductive invariant that has the
type invariant as its first part; the theorems follow from it. `PROJECT.json`
("theorems") lists them. The properties are not inductive: each invariant adds what
connects them to the control. Where a later property needs more than `IInv`, the
addition has a name of its own (`RunInv`, `ColdInv`, ...) and is proved on top.
TLC has checked each of them on the run of its module.

The theorems are for any number of nodes, devices, instances, entries, versions,
calls and failures, not for the values of the runs. Six of them have a hypothesis:

* `Method = "rsync"` (`NothingIsOverwritten`): with scp it does not hold (section 9).
* `Unprofiled` (`ExitCodesHold`): no sweep has `--io-profile`, unless dry. With it, ssh
  reads the list and the exit code says nothing; that is the finding of section 8.
* `NoEntryTwice` (`CsvHolds`): no list has an entry twice; different calls may have
  any lists. With a repeated entry, a row has the statistics of the later replay
  (`SeparateOutputs`, section 8).
* `Agreed`, of the first state (`CasesHold`, `OwnBlocks`): the L2 path and the workload
  that a configuration means are those the script makes up, and it resets that path;
  two workloads have two paths, none of them through a link; the outputs, downloads
  and recordings made without the script are apart from these. Nothing in the code
  compares the two sides: a configuration that is edited breaks it, and then the
  script measures and empties a directory that is not its own. That the files mean
  this is a statement about `Means`, and the theorem carries it through load,
  merge, defaults, options and paths to what is removed.
* `Apart` (`RemovalHolds`): the current directory, the home and the outputs of a
  script are not below `lmcache-trace`, where it keeps its blocks. `reset_l2_storage`
  refuses to remove them, `clean_case_l2` has no such test.

* `RecorderProofs`, `RecorderLive`: `TypeCorrect`, `ShutdownOrder`, `ManifestAfterStop`.
  `PassedInv` is the heart: every held group the finally block is past is
  settled (leader reaped, nobody acts). `TryInv` keeps signals from groups not
  yet reached, `StopInv` relates the points of `stop_process` to the group they
  are about, and `OrderInv` then gives the order of vLLM and LMCache.
* `ProfilerAgentProofs`: `AgentTypeCorrect`, `RowsAddUp`, `RowsAreComplete`,
  `AgentRefinesLifecycle`. `RowsInv` says that what was reported is the
  distance from the first to the last snapshot, which a report extends;
  `ClockInv` is what the final flush needs, and why the clock must not be set
  back. The refinement is proved action by action: a step of the agent is one
  of `AgentLifecycle` or leaves its variables as they are.
* `ProfiledReplayProofs`: `ReplayTypeCorrect`, `MeasuredReplay`, `ZeroIsProfiled`,
  `RemovalIsSafe`. `ReadyInv` follows a READY line through pipe and buffer;
  `CollectInv` says which nodes the collecting loop has behind it; `EndInv`
  carries that to the aggregation and the exit code; `AgentInv` says that
  results come from agents that stop.
* `ReplayInstancesProofs`: `InstancesTypeCorrect`, `ZeroIsAll`, `HonestSummary`,
  `NoneIsLeft`, `FirstRunCold`. `CodeInv` ties recorded codes to ended processes,
  `ListInv` says that the list has every process that may run, except at the one
  point where an interrupt loses it. `ColdInv` says that in a first run no other
  process writes, and that a replay which has not begun finds what the reset left.
* `StagedReplayProofs`: `StagedInvariant`, `StagedTypeCorrect`,
  `NothingIsOverwritten`, `RuntimeVerified`, `ZeroReplayed`, `RetrievedFinal`.
  `ItemInv` says what each step works on, `KindInv` that a venv is never simply
  "complete"; with these every action is shown to leave whole archives, traces and
  repositories alone, and a verified venv unless an existence test of the repository
  or the venv has failed (`Doubted`). `RuntimeVerified` excepts, after such a test, a
  command of an earlier call that was still at work on the venv (`Disturbed`).
  `RuntimeInv` and `ResultInv` carry a venv and an output from the command that
  made them to the end of the call, past the orphans of earlier calls; `NewInv`
  says that no replay is started under a run name that has a result.
* `RecorderProofs`, the manifest: `ManifestTrace`, `ReturnIsRecorded`. `StartInv` follows the
  try block (which handles are set at each of its points), `ExitInv` ties
  LMCache's exit status to the end marker of the trace, and `ReturnInv` carries
  `Recorded`, what a workload that ended well leaves, through the finally block,
  which either raises or keeps it.
* `MooncakeTraceProofs`: `FilesHold`, `PlansHold`, `RecordedPlans`. `TempInv` ties a
  temporary file to the steps of a download and says that it is a whole response
  when it is renamed, and that what stays is of a kill or a lapse; `NoPlan` that no plan of the trace before is left. `RowsInv`
  relates what the client asks for to the plan while the file stays the same.
  `ExactBounds` and `LimitBounds` are the arithmetic: division rounded up,
  for a percentage of any precision and a product that is off in either direction by
  less than a request.
* `TraceAssetsProofs`: `DownloadsHold`, `UploadsComplete`, `NoneReplaced` about
  `ReleaseAsset`, `DatasetHolds`, `ExistingKept` about
  `HubAsset`; it extends both. `UploadInv` says what was sent is in the release,
  `PartsInv` that the pieces beside an undisturbed download are those of the
  release; `DuringInv` follows the archive in a downloader's cache, `KeptInv`
  says who can have got past the test for an existing destination.
* `ReplaySweepProofs`: `StartsCold`, `EarlierResultsKept`, `ExitCodesHold`, `CsvHolds`, and
  `AllTried`, the part of the exit codes that needs no hypothesis. Every step of the
  outer sweeps is, for the variables of the inner one, a step of it, a kill, or
  nothing (`SweepNext`, `MatrixStepIsSweepStep`), so the invariants of the
  inner sweep are proved once and hold below an outer one. `NumbersInv` says that a replay
  has its number to itself, `PlaceInv` where in the list the sweep is, `RootInv` and
  `OutInv` what is in its roots, `RecordsInv` what its records are; `FullInv` that what
  an item of an outer sweep has completed stays so until its end, `SucceededFit`, `RowsFit`
  and `RowsComplete` what the CSV is, and whether the records are about it.
* `RecorderProofs`, `RecordSweep`: `RecordInvariant`, `SettingsHold`, `RemovalHolds`,
  `CasesHold`, `OwnBlocks`. In the order in which they build on each other:
  - `LoadInv`: the files that wait extend each other (`Waiting`), and what has been
    merged is what the chain from `file` on says (`Returned`, `Merges`). `MergesExtend`
    is the step: merging the settings of one more file over it gives what the
    longer chain says, because its distances are those of the shorter one, plus one
    (`AboveShift`, `NearestShift`). `WaitingFit` bounds the chain by the number of
    files, since none is in it twice.
  - `PlanInv`: a plan is `Planned` of the loaded configuration and the options.
    `ConfiguredMeans` equates merging and defaults with `Means`; `ResolveType` says
    that a relative path is below the mountpoint or refused, through `..` and links.
  - `SweepInv`: the recording at hand is the one of the case, and runs are numbered by
    cases, without which a number would not say whose blocks it marks.
  - `CasesIInv`: `DiskInv` (the directory of a workload has that workload's blocks
    only), `RunsInv` (runs made after a script are numbered after it), `BlocksInv` (in a
    case that was recorded the path has blocks of this run and no others; what is
    cleaned is gone, case by case) and `TracesInv` (each case that is over has its
    trace, and its record). `InScript` and `Alone` say what a recording writes and
    where, from `Agreed`.
  Recursion in `Above` and `Walk` is over numbers: that there are such functions, and
  only one, is proved from the least number for which it fails (`LeastOf`).

Only model-checked:

* Liveness (`RunEnds`, `GroupsEnd`, `AgentEnds`, `RunReturns`, `FailureEndsRun`,
  `CallsEnd`): the provers have no ENABLED.
* The two runs that end in a violation.

Every invariant and every action property without fairness is a theorem.

## 8. Where code and text disagree

With a run each; `PROJECT.json` ("findings") quotes the text:

| Configuration | What happens |
|---|---|
| `RecorderLiveDoc` | A vLLM leader that outlives SIGKILL by five seconds makes `stop_process` raise in the finally block; LMCache is not stopped. |
| `ReplaySweepProfiled` | ssh of the profiler reads the rest of the list from the loop's standard input; the sweep ends after one case, with exit 0. |

The modules state more that a document claims and the code does not do. No run
of the project is about these; add the definition to the module's own
configuration (`INVARIANTS`, or `PROPERTIES` for those marked *) to get the
counterexample:

| Definition | Text | What happens |
|---|---|---|
| `ProfilerAgent!SummaryIsTotal` | `docs/replayer.md:304` | The summary starts from the snapshot each report overwrites (`storage_agent.sh:262`): after a first report it covers the time since the last report only. |
| `ProfiledReplay!TimeoutBlamesLateAgents` * | `controller.py:186` | READY stays in the line buffer behind a line of ssh (`controller.py:230`); `select` never sees it, and start times out on an agent that is ready. |
| `ProfilerAgent!SamplesAreMonotonic` | `docs/replayer.md:303` | The "monotonic" timestamp is the wall clock. |
| `ProfiledReplay!CollectedRowsAreFinal` | `docs/replayer.md:295` | scp copies a directory its agent still writes to; the run exits 0 and removes the complete one. |
| `ReplayInstances!ReplayStartsEmpty` | `docs/replayer.md:206` | The LMCache child of a stopped instance writes to the directory the next run uses. |
| `StagedReplay!VenvIsKept` * | `docs/staged-remote-replay.md:273-274` | A connection lost in an existence test of the repository or the venv: a runtime that works is installed or repaired again, or mixed with the controller's, and may be left half changed. |
| `StagedReplay!PreparedTraceIsWhole` | `staged_remote_replay.sh:30` | An interrupted extraction passes for a whole trace. |
| `StagedReplay!OnlyCopySendsVenv` | `docs/staged-remote-replay.md:159` | remote_install sends the controller's venv inside the repository. |
| `StagedReplay!CopiedRuntimeWorks` | `docs/staged-remote-replay.md:204` | copy_venv takes the venv it has just sent for one that was there, and does not verify it. |
| `StagedReplay!ZeroIsRetrieved` | `docs/staged-remote-replay.md:249` | A connection lost in the test for the result passes for "no result", with exit 0. |
| `StagedReplay!NoReplayOverOutput` * | `docs/staged-remote-replay.md:275` | The remote command of a killed call makes the output after it was tested. |
| `ReleaseAsset!DownloadIsOriginal` | `docs/trace-assets.md:39` | Parts are joined without knowing how many there are. |
| `ReleaseAsset!ReplacedIsDownloaded` | `docs/trace-assets.md:30` | `--clobber` with fewer parts leaves the last parts of the old version. |
| `ReleaseAsset!AssetIsFound` | `release_asset.sh:21` | A name at the end of the list of assets is not found. |
| `HubAsset!UploadIsKept` * | `docs/trace-assets.md:118` | Files are listed, then committed: the second of two uploads replaces the first without `--clobber`. |
| `HubAsset!DownloadIsKept` * (two downloaders) | `hf_trace_asset.sh:32` | The same for the test and the opening of the destination. |
| `MooncakeTrace!FileIsOfficial` | `mooncake.py:55` | A connection that is cut ends `copyfileobj` without an error: the part of the trace is renamed, and every later call takes it for the trace. |
| `MooncakeTrace!PercentIsExact` (`Versions <- LongVersion`, `Selections <- LongSelection`, one call, no failures, no changes) | `docs/recorder.md:253` | The float product may be a little above a whole number, or below one: 64.4 percent of 250 requests are 162 instead of 161, and 33.333333333333336 percent of 3 are 1 instead of 2. |
| `RecorderMain!PercentIsIgnored` | `docs/recorder.md:97-98` | `--dataset-percent` is not quite ignored for GAIA and WildClaw: it removes the configured number of sessions. |
| `ReplaySweep!SeparateOutputs` (with a call whose `entries` are `<<"x1", "x1">>`) | `docs/replayer.md:121` | An entry given twice is replayed twice into one directory. |

## 9. What is left out

* Argument parsing, validation of numbers and YAML, dry runs, messages and
  report formats.
* `RecorderLive`: reuse of a process id between a reap and `killpg`; the inside
  of LMCache, vLLM and the workload client.
* `ProfiledReplay`: the unprofiled path of `run_command`, which is its profiled
  path without the profiler steps; the inside of the L2 prepare; directories of
  nodes that are no longer configured, which the aggregation also reads; a
  `collect` or `cleanup` whose ssh hangs, for these calls have no timeout.
* `ReplayInstances`: the symlink and file-type tests of the L2 path.
* `StagedReplay`: two calls of the script at the same time; the topology parser;
  the branch of `retrieve_directory` for a local output that exists, which calls
  one after the other cannot reach. With `transfer_method: scp`
  `NothingOverwritten` fails: a transfer whose existence test lost its
  connection writes into the directory that is there. The runs and the theorem
  are about rsync.
* `ReleaseAsset`: two uploads at the same time. `HubAsset`: the client's cache,
  taken as atomic.
* `ReplaySweep` and `ReplayMatrix`: symlinked roots, sweeps at the same time, the
  names `replay_common.sh` makes up for output roots, an item of a list that is
  not well-formed, which ends an outer sweep in the middle.
* `MooncakeTrace`: the parsing of a line, the tokens of a plan other than their
  maximum, and the layout of the statistics.
* `RecorderMain`: the numbers of the configuration, the environment and the text of
  the commands, `hf_cache_dir`, and `--load-workload`, which only prints. The same
  exclusions of `dataset_percent` are tested in `main`, in `load_workload` and in
  `prepare_mooncake_workload`; from the command line only the first can fail. A
  configured Mooncake trace is one of the two: another name is refused when Mooncake is
  recorded, and is otherwise no more than what `{trace}` in a path is replaced by.
* `RecordSweep`: `--mooncake-trace-root`; an output directory below the L2 path of
  a case. There the recorder refuses to reset, but `clean_case_l2` has no such
  test and removes the output: `KeepsProtected` would not hold.
* The components listed as not modelled in `PROJECT.json`: `setup_runtime.sh` and
  `uv_binary.sh`, which are steps of `StagedReplay`, the launcher of
  `ReplayInstances`, data, tests and external programs.
