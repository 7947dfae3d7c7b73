----------------------------- MODULE ProfilerAgent -----------------------------
(***************************************************************************)
(* The shell agent of the remote profiler (src/traceprof/storage_agent.sh) *)
(* on one node: run_agent with write_snapshot, write_interval and          *)
(* write_summary, and the stop command another shell runs against it.      *)
(*                                                                         *)
(* Each device has one sysfs byte counter, which the node's traffic        *)
(* increases at any time.  A clock value is what date +%s%N returns; time  *)
(* passes between two reads, and the wall clock may be set back.           *)
(***************************************************************************)
EXTENDS Integers

CONSTANTS
  Devices,         \* the devices and interfaces of the node
  ReportInterval,  \* report_interval_seconds
  MaxGap,          \* bound: time between two reads of the clock
  MaxSamples,      \* bound: samples before the agent is stopped
  MaxTraffic,      \* bound: bytes per device
  MaxClockSteps    \* bound: how often the wall clock is set back

ASSUME AgentAssumption ==
  /\ ReportInterval \in Nat \ {0}
  /\ MaxGap \in Nat \ {0}
  /\ MaxSamples \in Nat
  /\ MaxTraffic \in Nat
  /\ MaxClockSteps \in Nat

VARIABLES
  pc,            \* where run_agent is
  pidFile,       \* agent.pid exists
  stopRequested, \* the trap handler ran
  clock,         \* the wall clock
  counter,       \* [Devices -> Nat]: the sysfs counters
  snapshot,      \* [{"last", "current", "final"} -> [Devices -> Nat]]
  lastReport,    \* last_report_ns
  endNs,         \* end_ns
  reported,      \* [Devices -> Nat]: sum of the byte column of disk.tsv
  sampleTimes,   \* the last two monotonic_ns values of samples.jsonl
  summary,       \* [Devices -> Nat]: the totals of summary.json
  first,         \* (history) the counters when the agent took its first snapshot
  samples,       \* (bound) samples taken
  clockSteps     \* (bound) how often the clock was set back

vars == <<pc, pidFile, stopRequested, clock, counter, snapshot, lastReport,
          endNs, reported, sampleTimes, summary, first, samples, clockSteps>>

Untrapped == {"init", "started", "announced"}
Looping == {"loop", "sleep", "sample"}
Ending == {"final", "flushed", "summarised"}
Counters == [Devices -> Nat]
Zero == [d \in Devices |-> 0]

TypeOK ==
  /\ pc \in {"boot", "done", "killed"} \cup Untrapped \cup Looping \cup Ending
  /\ pidFile \in BOOLEAN
  /\ stopRequested \in BOOLEAN
  /\ clock \in Int
  /\ counter \in Counters
  /\ snapshot \in [{"last", "current", "final"} -> Counters]
  /\ lastReport \in Int
  /\ endNs \in Int
  /\ reported \in Counters
  /\ sampleTimes \in [previous : Int, last : Int]
  /\ summary \in Counters
  /\ first \in Counters
  /\ samples \in Nat
  /\ clockSteps \in Nat

(* START_SNAPSHOT="$snapshot_last": not a file of its own.                 *)
StartSnapshot == "last"

(* delta never is negative.                                                *)
Delta(start, end) == IF end < start THEN 0 ELSE end - start

DeltaOf(a, b) == [d \in Devices |-> Delta(a[d], b[d])]

(* write_interval appends one row per device.                              *)
WriteInterval(from, to) ==
  reported' = [d \in Devices |-> reported[d] + DeltaOf(from, to)[d]]

(* now_ns, at some later time.                                             *)
ReadClock == \E gap \in 1..MaxGap : clock' = clock + gap

Init ==
  /\ pc = "boot"
  /\ pidFile = FALSE
  /\ stopRequested = FALSE
  /\ clock = 0
  /\ counter \in [Devices -> 0..1]
  /\ snapshot = [f \in {"last", "current", "final"} |-> Zero]
  /\ lastReport = 0
  /\ endNs = 0
  /\ reported = Zero
  /\ sampleTimes = [previous |-> 0, last |-> 0]
  /\ summary = Zero
  /\ first = Zero
  /\ samples = 0
  /\ clockSteps = 0

(* printf "$$" > "$pid_file", and the headers of the tables.               *)
WritePid ==
  /\ pc = "boot"
  /\ pidFile' = TRUE
  /\ pc' = "init"
  /\ UNCHANGED <<stopRequested, clock, counter, snapshot, lastReport, endNs,
                 reported, sampleTimes, summary, first, samples, clockSteps>>

(* START_NS, START_TIMESTAMP and the first snapshot.                       *)
Start ==
  /\ pc = "init"
  /\ ReadClock
  /\ snapshot' = [snapshot EXCEPT ![StartSnapshot] = counter]
  /\ first' = counter
  /\ lastReport' = clock'
  /\ sampleTimes' = [previous |-> clock', last |-> clock']
  /\ pc' = "started"
  /\ UNCHANGED <<pidFile, stopRequested, counter, endNs, reported, summary,
                 samples, clockSteps>>

(* printf 'READY'.                                                         *)
Announce ==
  /\ pc = "started"
  /\ pc' = "announced"
  /\ UNCHANGED <<pidFile, stopRequested, clock, counter, snapshot, lastReport,
                 endNs, reported, sampleTimes, summary, first, samples,
                 clockSteps>>

InstallTrap ==
  /\ pc = "announced"
  /\ pc' = "loop"
  /\ UNCHANGED <<pidFile, stopRequested, clock, counter, snapshot, lastReport,
                 endNs, reported, sampleTimes, summary, first, samples,
                 clockSteps>>

(* while [ "$stop_requested" -eq 0 ]; do sleep                             *)
LoopTest ==
  /\ pc = "loop"
  /\ pc' = IF stopRequested THEN "final" ELSE "sleep"
  /\ UNCHANGED <<pidFile, stopRequested, clock, counter, snapshot, lastReport,
                 endNs, reported, sampleTimes, summary, first, samples,
                 clockSteps>>

(* The sleep ends; a trap that ran meanwhile breaks the loop.              *)
Wake ==
  /\ pc = "sleep"
  /\ samples < MaxSamples \/ stopRequested
  /\ pc' = IF stopRequested THEN "final" ELSE "sample"
  /\ UNCHANGED <<pidFile, stopRequested, clock, counter, snapshot, lastReport,
                 endNs, reported, sampleTimes, summary, first, samples,
                 clockSteps>>

AddSample(ns) == sampleTimes' = [previous |-> sampleTimes.last, last |-> ns]

(* Mutant: without cp "$snapshot_current" "$snapshot_last".                *)
Sample_NoCopy ==
  /\ pc = "sample"
  /\ ReadClock
  /\ endNs' = clock'
  /\ AddSample(clock')
  /\ samples' = samples + 1
  /\ pc' = "loop"
  /\ snapshot' = [snapshot EXCEPT !["current"] = counter]
  /\ IF clock' - lastReport >= ReportInterval
       THEN /\ WriteInterval(snapshot["last"], counter)
            /\ lastReport' = clock'
       ELSE UNCHANGED <<reported, lastReport>>
  /\ UNCHANGED <<pidFile, stopRequested, counter, summary, first, clockSteps>>

(* One turn of the loop: a snapshot and, when the report interval elapsed,  *)
(* a row per device, the new base of the next rows and the report time.    *)
Sample ==
  /\ pc = "sample"
  /\ ReadClock
  /\ endNs' = clock'
  /\ AddSample(clock')
  /\ samples' = samples + 1
  /\ pc' = "loop"
  /\ IF clock' - lastReport >= ReportInterval
       THEN /\ WriteInterval(snapshot["last"], counter)
            /\ snapshot' = [snapshot EXCEPT !["current"] = counter,
                                            !["last"] = counter]
            /\ lastReport' = clock'
       ELSE /\ snapshot' = [snapshot EXCEPT !["current"] = counter]
            /\ UNCHANGED <<reported, lastReport>>
  /\ UNCHANGED <<pidFile, stopRequested, counter, summary, first, clockSteps>>

(* Mutant: the last interval starts at the last sample, not the last report. *)
FinalFlush_FromSample ==
  /\ pc = "final"
  /\ ReadClock
  /\ endNs' = clock'
  /\ AddSample(clock')
  /\ snapshot' = [snapshot EXCEPT !["final"] = counter]
  /\ IF clock' > lastReport
       THEN WriteInterval(snapshot[IF samples = 0 THEN "last" ELSE "current"], counter)
       ELSE UNCHANGED reported
  /\ pc' = "flushed"
  /\ UNCHANGED <<pidFile, stopRequested, counter, lastReport, summary, first,
                 samples, clockSteps>>

(* After the loop: the final snapshot and the last, short interval.        *)
FinalFlush ==
  /\ pc = "final"
  /\ ReadClock
  /\ endNs' = clock'
  /\ AddSample(clock')
  /\ snapshot' = [snapshot EXCEPT !["final"] = counter]
  /\ IF clock' > lastReport
       THEN WriteInterval(snapshot["last"], counter)
       ELSE UNCHANGED reported
  /\ pc' = "flushed"
  /\ UNCHANGED <<pidFile, stopRequested, counter, lastReport, summary, first,
                 samples, clockSteps>>

WriteSummary ==
  /\ pc = "flushed"
  /\ summary' = DeltaOf(snapshot[StartSnapshot], snapshot["final"])
  /\ pc' = "summarised"
  /\ UNCHANGED <<pidFile, stopRequested, clock, counter, snapshot, lastReport,
                 endNs, reported, sampleTimes, first, samples, clockSteps>>

(* Mutant: the pid file stays.                                             *)
Finish_KeepPid ==
  /\ pc = "summarised"
  /\ pc' = "done"
  /\ UNCHANGED <<pidFile, stopRequested, clock, counter, snapshot, lastReport,
                 endNs, reported, sampleTimes, summary, first, samples,
                 clockSteps>>

(* rm -f of the pid file and of the snapshots, which nothing reads again.  *)
Finish ==
  /\ pc = "summarised"
  /\ pidFile' = FALSE
  /\ pc' = "done"
  /\ UNCHANGED <<stopRequested, clock, counter, snapshot, lastReport, endNs,
                 reported, sampleTimes, summary, first, samples, clockSteps>>

(* Mutant: no trap, SIGTERM always kills the agent.                        *)
StopAgent_NoTrap ==
  /\ pidFile
  /\ pc' = "killed"
  /\ UNCHANGED <<pidFile, stopRequested, clock, counter, snapshot, lastReport,
                 endNs, reported, sampleTimes, summary, first, samples,
                 clockSteps>>

(* storage_agent.sh stop: SIGTERM to the pid in the pid file, if there is  *)
(* one.  Before the trap is installed it kills the agent.                  *)
StopAgent ==
  /\ pidFile
  /\ \/ /\ pc \in Untrapped
        /\ pc' = "killed"
        /\ UNCHANGED stopRequested
     \/ /\ pc \in Looping \cup Ending
        /\ stopRequested' = TRUE
        /\ UNCHANGED pc
  /\ UNCHANGED <<pidFile, clock, counter, snapshot, lastReport, endNs,
                 reported, sampleTimes, summary, first, samples, clockSteps>>

-----------------------------------------------------------------------------
(* The node.                                                               *)

Traffic(d) ==
  /\ counter[d] < MaxTraffic
  /\ counter' = [counter EXCEPT ![d] = @ + 1]
  /\ UNCHANGED <<pc, pidFile, stopRequested, clock, snapshot, lastReport,
                 endNs, reported, sampleTimes, summary, first, samples,
                 clockSteps>>

SetClockBack ==
  /\ clockSteps < MaxClockSteps
  /\ clockSteps' = clockSteps + 1
  /\ clock' = clock - 2 * MaxGap
  /\ UNCHANGED <<pc, pidFile, stopRequested, counter, snapshot, lastReport,
                 endNs, reported, sampleTimes, summary, first, samples>>

Agent == WritePid \/ Start \/ Announce \/ InstallTrap \/ LoopTest \/ Wake
           \/ Sample \/ FinalFlush \/ WriteSummary \/ Finish

Next == Agent \/ StopAgent \/ SetClockBack \/ \E d \in Devices : Traffic(d)

Spec == Init /\ [][Next]_vars

(* The agent keeps running, and the controller keeps asking it to stop     *)
(* once it announced itself.                                               *)
FairSpec ==
  /\ Spec
  /\ WF_vars(Agent)
  /\ WF_vars(StopAgent /\ pc \in Looping)

-----------------------------------------------------------------------------
(* Properties.                                                             *)

(* The rows of disk.tsv never lose or repeat a byte: whatever the sampling *)
(* and the report interval, they add up to what the counters moved from    *)
(* the first snapshot to the last report (replayer.md, "interval별 diff"). *)
IntervalsAddUp ==
  pc \in Looping => reported = DeltaOf(first, snapshot["last"])

(* ... and at the end, with the last short interval, to the whole run,     *)
(* provided the wall clock was not set back ("마지막의 짧은 구간도 종료 시 *)
(* flush합니다", replayer.md:296).                                         *)
RowsCoverRun ==
  pc \in {"flushed", "summarised"} /\ clockSteps = 0 =>
    reported = DeltaOf(first, snapshot["final"])

(* An agent that serves and is asked to stop ends with its pid file gone,  *)
(* also when the request comes while it sleeps or writes.                  *)
AgentEnds == (pc \in Looping) ~> (pc = "done" /\ ~pidFile)

-----------------------------------------------------------------------------
(* What a document says and the code does not do (README, section 8).      *)

(* replayer.md:304: summary.json holds the whole bytes of the node.        *)
SummaryIsTotal ==
  pc = "summarised" => summary = DeltaOf(first, snapshot["final"])

(* replayer.md:303: samples.jsonl holds a monotonic timestamp.             *)
SamplesAreMonotonic == sampleTimes.previous <= sampleTimes.last

-----------------------------------------------------------------------------
(* The agent as its controller sees it.                                    *)
AbstractPhase ==
  CASE pc = "boot" -> "booting"
    [] pc \in {"init", "started"} -> "pidWritten"
    [] pc = "announced" -> "announced"
    [] pc \in Looping -> IF stopRequested THEN "stopping" ELSE "serving"
    [] pc \in Ending -> "stopping"
    [] OTHER -> pc

Lifecycle == INSTANCE AgentLifecycle WITH
  phase <- AbstractPhase,
  summary <- IF pc \in {"summarised", "done"} THEN "complete" ELSE "none"

(* The agent keeps the lifecycle its controller relies on: a summary only  *)
(* after an orderly stop, killed only before the trap is installed.        *)
ImplementsLifecycle == Lifecycle!Spec
===============================================================================
