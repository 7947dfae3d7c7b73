----------------------------- MODULE RecorderLive -----------------------------
(***************************************************************************)
(* One call of run_live (src/recorder/live.py) with the process helpers it *)
(* uses (src/recorder/process.py): start the LMCache MP server, wait for   *)
(* its port, start vLLM, wait for its health endpoint, run the workload,   *)
(* and in the finally block stop the workload, vLLM and LMCache, in that   *)
(* order, and write manifest.json.                                         *)
(*                                                                         *)
(* Every child is a process group of its own (start_new_session): a leader *)
(* and, for the processes in HasWorkers, workers that can outlive it.  The *)
(* recorder only sees the leader's exit status, once it reaped it.         *)
(***************************************************************************)
EXTENDS Naturals

CONSTANTS
  HasWorkers,      \* the processes whose leader forks workers into its group
  Unkillable,      \* those whose leader may survive SIGKILL for over 5 seconds
  StalePorts,      \* servers whose port another process may already listen on
  RecorderMayDie,  \* may the recorder itself be killed by a signal?
  MaxInterrupts    \* bound: how many KeyboardInterrupts one run receives

Servers == {"lmcache", "vllm"}
Procs == Servers \cup {"workload"}

ASSUME ConstantsAssumption ==
  /\ HasWorkers \subseteq Procs
  /\ Unkillable \subseteq Procs
  /\ StalePorts \subseteq Servers
  /\ RecorderMayDie \in BOOLEAN
  /\ MaxInterrupts \in Nat

VARIABLES
  backend,    \* config.workload.backend
  pc,         \* where run_live is
  cur,        \* the process pc is about, while starting, waiting or stopping
  handle,     \* [Procs -> BOOLEAN]: is the local ManagedProcess variable set?
  leader,     \* [Procs -> status of the group leader]
  exit,       \* [Procs -> exit status of the leader, once it exited]
  workers,    \* [Procs -> BOOLEAN]: are workers of the group running?
  termed,     \* [Procs -> BOOLEAN]: SIGTERM was sent to the group
  doomed,     \* [Procs -> BOOLEAN]: SIGKILL was sent to the group
  ready,      \* [Servers -> BOOLEAN]: the child itself listens on its port
  foreign,    \* servers whose port another process listens on
  trace,      \* the trace file
  lateStore,  \* a storage operation reached LMCache while it was flushing
  completed,  \* the workload finished and its results were read
  error,      \* error_message is not None
  returnCodes,\* return_codes
  raised,     \* run_live ended by an exception, or the recorder died
  manifest,   \* manifest.json
  interrupts  \* KeyboardInterrupts so far

group == <<leader, exit, workers, termed, doomed, ready>>
outcome == <<completed, error, returnCodes, raised, manifest>>
vars == <<backend, pc, cur, handle, group, foreign, trace, lateStore,
          outcome, interrupts>>

TryPoints == {"start", "poll", "probe", "load", "replay", "bench", "benchDone",
              "benchRead"}
FinallyPoints == {"stop", "waitLeader", "waitGroup", "kill", "reap", "manifest"}
ExitStatus == {"ok", "fail", "killed"}

TypeOK ==
  /\ backend \in {"tensormesh", "mooncake"}
  /\ pc \in TryPoints \cup FinallyPoints \cup {"done"}
  /\ cur \in Procs
  /\ handle \in [Procs -> BOOLEAN]
  /\ leader \in [Procs -> {"none", "running", "zombie", "reaped"}]
  /\ exit \in [Procs -> ExitStatus \cup {"None"}]
  /\ workers \in [Procs -> BOOLEAN]
  /\ termed \in [Procs -> BOOLEAN]
  /\ doomed \in [Procs -> BOOLEAN]
  /\ ready \in [Servers -> BOOLEAN]
  /\ foreign \in SUBSET Servers
  /\ trace \in {"absent", "stale", "open", "complete"}
  /\ lateStore \in BOOLEAN
  /\ completed \in BOOLEAN
  /\ error \in BOOLEAN
  /\ returnCodes \in [Procs -> ExitStatus \cup {"None", "unset"}]
  /\ raised \in BOOLEAN
  /\ manifest \in [written : BOOLEAN, error : BOOLEAN,
                   trace : {"absent", "stale", "open", "complete"},
                   codes : [Procs -> ExitStatus \cup {"None", "unset"}]]
  /\ interrupts \in 0..MaxInterrupts

NoManifest == [written |-> FALSE, error |-> FALSE, trace |-> "absent",
               codes |-> [p \in Procs |-> "unset"]]

(* The output directory may hold the trace of an earlier run (mkdir with   *)
(* exist_ok), and a port may still be in use by a leftover server.         *)
Init ==
  /\ backend \in {"tensormesh", "mooncake"}
  /\ pc = "start"
  /\ cur = "lmcache"
  /\ handle = [p \in Procs |-> FALSE]
  /\ leader = [p \in Procs |-> "none"]
  /\ exit = [p \in Procs |-> "None"]
  /\ workers = [p \in Procs |-> FALSE]
  /\ termed = [p \in Procs |-> FALSE]
  /\ doomed = [p \in Procs |-> FALSE]
  /\ ready = [s \in Servers |-> FALSE]
  /\ foreign \in SUBSET StalePorts
  /\ trace \in {"absent", "stale"}
  /\ lateStore = FALSE
  /\ completed = FALSE
  /\ error = FALSE
  /\ returnCodes = [p \in Procs |-> "unset"]
  /\ raised = FALSE
  /\ manifest = NoManifest
  /\ interrupts = 0

-----------------------------------------------------------------------------
(* Process groups.                                                         *)

(* killpg(pgid, 0) succeeds: an unreaped zombie still belongs to its group. *)
GroupExists(p) == leader[p] \in {"running", "zombie"} \/ workers[p]

(* Some member still executes its own code; a member SIGKILL was sent to   *)
(* may linger in the kernel but executes no more of it.                    *)
CanAct(p) == ~doomed[p] /\ (leader[p] = "running" \/ workers[p])

(* Popen.poll() or Popen.wait() on an exited leader.                       *)
Reap(p) == leader' = [leader EXCEPT ![p] = "reaped"]

(* Popen: the group comes to be, with its leader only.                     *)
Spawn(p) == leader' = [leader EXCEPT ![p] = "running"]

-----------------------------------------------------------------------------
(* Control transfers of run_live.                                          *)

(* except BaseException: remember the error, then the finally block, which *)
(* starts with the workload.                                               *)
Raise == pc' = "stop" /\ cur' = "workload" /\ error' = TRUE

(* The try block ends normally.                                            *)
Finish == pc' = "stop" /\ cur' = "workload" /\ completed' = TRUE

(* An exception inside the finally block leaves run_live at once.          *)
Abort == pc' = "done" /\ raised' = TRUE

(* The first point of the workload, after both servers answered.           *)
WorkloadPoint == IF backend = "tensormesh" THEN "load" ELSE "start"

-----------------------------------------------------------------------------
(* The try block.                                                          *)

StartProcess ==
  /\ pc = "start"
  /\ Spawn(cur)
  /\ handle' = [handle EXCEPT ![cur] = TRUE]
  /\ pc' = IF cur = "workload" THEN "bench" ELSE "poll"
  /\ UNCHANGED <<backend, cur, exit, workers, termed, doomed, ready, foreign,
                 trace, lateStore, outcome, interrupts>>

(* reset_l2_storage refuses or fails, the command is missing, the log      *)
(* cannot be opened, workload.json cannot be written.                      *)
StartFails ==
  /\ pc = "start"
  /\ Raise
  /\ UNCHANGED <<backend, handle, group, foreign, trace, lateStore, completed,
                 returnCodes, raised, manifest, interrupts>>

(* wait_for_tcp and wait_for_http first look at the child: once it exited  *)
(* they raise RuntimeError, and poll() has reaped it.                      *)
PollServer ==
  /\ pc = "poll"
  /\ \/ /\ leader[cur] = "running"
        /\ pc' = "probe"
        /\ UNCHANGED <<cur, error, leader>>
     \/ /\ leader[cur] # "running"
        /\ Raise
        /\ Reap(cur)
  /\ UNCHANGED <<backend, handle, exit, workers, termed, doomed, ready, foreign,
                 trace, lateStore, completed, returnCodes, raised, manifest,
                 interrupts>>

(* Then they try the port, whoever listens on it.                          *)
ProbeAnswered ==
  /\ pc = "probe"
  /\ cur \in foreign \/ (ready[cur] /\ leader[cur] = "running")
  /\ IF cur = "lmcache"
       THEN pc' = "start" /\ cur' = "vllm"
       ELSE pc' = WorkloadPoint /\ cur' = "workload"
  /\ UNCHANGED <<backend, handle, group, foreign, trace, lateStore, outcome,
                 interrupts>>

ProbeRefused ==
  /\ pc = "probe"
  /\ cur \notin foreign
  /\ pc' = "poll"
  /\ UNCHANGED <<backend, cur, handle, group, foreign, trace, lateStore,
                 outcome, interrupts>>

(* Mutant: no deadline on the readiness loops.                             *)
StartupTimeout_Never == FALSE /\ UNCHANGED vars

(* startup_timeout_seconds elapsed: TimeoutError.                          *)
StartupTimeout ==
  /\ pc = "poll"
  /\ Raise
  /\ UNCHANGED <<backend, handle, group, foreign, trace, lateStore, completed,
                 returnCodes, raised, manifest, interrupts>>

(* Tensormesh: load_workload and workload.json.                            *)
LoadWorkload ==
  /\ pc = "load"
  /\ \/ /\ pc' = "replay"
        /\ UNCHANGED <<cur, error>>
     \/ Raise
  /\ UNCHANGED <<backend, handle, group, foreign, trace, lateStore, completed,
                 returnCodes, raised, manifest, interrupts>>

(* Tensormesh: _run_v3_replay runs in the recorder's own process.  Failed  *)
(* requests are counted, they do not raise.                                *)
ReplayV3 ==
  /\ pc = "replay"
  /\ \/ Finish /\ UNCHANGED error
     \/ Raise /\ UNCHANGED completed
  /\ UNCHANGED <<backend, handle, group, foreign, trace, lateStore,
                 returnCodes, raised, manifest, interrupts>>

(* Mooncake: workload_process.process.wait(), which has no timeout.        *)
WaitBench ==
  /\ pc = "bench"
  /\ leader["workload"] = "zombie"
  /\ Reap("workload")
  /\ returnCodes' = [returnCodes EXCEPT !["workload"] = exit["workload"]]
  /\ pc' = "benchDone"
  /\ UNCHANGED <<backend, cur, handle, exit, workers, termed, doomed, ready,
                 foreign, trace, lateStore, completed, error, raised, manifest,
                 interrupts>>

(* Mutant: the exit code of vllm bench is not looked at.                   *)
BenchDone_IgnoreCode ==
  /\ pc = "benchDone"
  /\ handle' = [handle EXCEPT !["workload"] = FALSE]
  /\ pc' = "benchRead"
  /\ UNCHANGED <<backend, cur, error, group, foreign, trace, lateStore,
                 completed, returnCodes, raised, manifest, interrupts>>

(* close_log, workload_process = None, and the check of the exit code.     *)
BenchDone ==
  /\ pc = "benchDone"
  /\ handle' = [handle EXCEPT !["workload"] = FALSE]
  /\ \/ /\ returnCodes["workload"] # "ok"
        /\ Raise
     \/ /\ returnCodes["workload"] = "ok"
        /\ pc' = "benchRead"
        /\ UNCHANGED <<cur, error>>
  /\ UNCHANGED <<backend, group, foreign, trace, lateStore, completed,
                 returnCodes, raised, manifest, interrupts>>

(* load_mooncake_result and write_mooncake_request_stats.                  *)
ReadBench ==
  /\ pc = "benchRead"
  /\ \/ Finish /\ UNCHANGED error
     \/ Raise /\ UNCHANGED completed
  /\ UNCHANGED <<backend, handle, group, foreign, trace, lateStore,
                 returnCodes, raised, manifest, interrupts>>

-----------------------------------------------------------------------------
(* The finally block: stop_process for every handle that is set.           *)

(* Mutant: LMCache is stopped before vLLM.                                 *)
StopNext_LmcacheFirst ==
  /\ pc' = IF cur = "vllm" THEN "manifest" ELSE "stop"
  /\ cur' = IF cur = "workload" THEN "lmcache" ELSE "vllm"

(* The finally block goes on with the next process, or with the manifest.  *)
StopNext ==
  /\ pc' = IF cur = "lmcache" THEN "manifest" ELSE "stop"
  /\ cur' = IF cur = "workload" THEN "vllm" ELSE "lmcache"

StopSkip ==
  /\ pc = "stop"
  /\ ~handle[cur]
  /\ StopNext
  /\ UNCHANGED <<backend, handle, group, foreign, trace, lateStore, outcome,
                 interrupts>>

(* stop_process returns managed.process.returncode, which is None unless   *)
(* the leader was reaped.                                                  *)
StopReturn(reaped) ==
  /\ returnCodes' = [returnCodes EXCEPT ![cur] = IF reaped THEN exit[cur] ELSE "None"]
  /\ StopNext

(* Mutant: the group is signalled and not waited for.                      *)
StopTerminate_NoWait ==
  /\ pc = "stop"
  /\ handle[cur]
  /\ termed' = [termed EXCEPT ![cur] = GroupExists(cur)]
  /\ StopReturn(leader[cur] = "reaped")
  /\ UNCHANGED <<backend, handle, leader, exit, workers, doomed, ready, foreign,
                 trace, lateStore, completed, error, raised, manifest, interrupts>>

(* killpg(SIGTERM); a group that is gone is no error.                      *)
StopTerminate ==
  /\ pc = "stop"
  /\ handle[cur]
  /\ termed' = [termed EXCEPT ![cur] = GroupExists(cur)]
  /\ pc' = "waitLeader"
  /\ UNCHANGED <<backend, cur, handle, leader, exit, workers, doomed, ready,
                 foreign, trace, lateStore, outcome, interrupts>>

(* poll() or wait(): the leader exits before the deadline, or the deadline *)
(* passes with the leader running.                                         *)
StopWaitLeader ==
  /\ pc = "waitLeader"
  /\ IF leader[cur] = "zombie" THEN Reap(cur) ELSE UNCHANGED leader
  /\ pc' = IF leader[cur] = "running" THEN "kill" ELSE "waitGroup"
  /\ UNCHANGED <<backend, cur, handle, exit, workers, termed, doomed, ready,
                 foreign, trace, lateStore, outcome, interrupts>>

StopGroupGone ==
  /\ pc = "waitGroup"
  /\ ~GroupExists(cur)
  /\ StopReturn(leader[cur] = "reaped")
  /\ UNCHANGED <<backend, handle, group, foreign, trace, lateStore, completed,
                 error, raised, manifest, interrupts>>

(* Mutant: the deadline passes and the rest of the group is left alone.    *)
StopGroupTimeout_NoKill ==
  /\ pc = "waitGroup"
  /\ GroupExists(cur)
  /\ StopReturn(leader[cur] = "reaped")
  /\ UNCHANGED <<backend, handle, group, foreign, trace, lateStore, completed,
                 error, raised, manifest, interrupts>>

StopGroupTimeout ==
  /\ pc = "waitGroup"
  /\ GroupExists(cur)
  /\ pc' = "kill"
  /\ UNCHANGED <<backend, cur, handle, group, foreign, trace, lateStore,
                 outcome, interrupts>>

StopKill ==
  /\ pc = "kill"
  /\ doomed' = [doomed EXCEPT ![cur] = GroupExists(cur)]
  /\ pc' = "reap"
  /\ UNCHANGED <<backend, cur, handle, leader, exit, workers, termed, ready,
                 foreign, trace, lateStore, outcome, interrupts>>

(* Mutant: SIGKILL without the final poll() and wait().                    *)
StopReap_NoReap ==
  /\ pc = "reap"
  /\ StopReturn(leader[cur] = "reaped")
  /\ UNCHANGED <<backend, handle, group, foreign, trace, lateStore, completed,
                 error, raised, manifest, interrupts>>

(* poll(), then wait(timeout=5) when the leader is not reaped yet.         *)
StopReap ==
  /\ pc = "reap"
  /\ leader[cur] # "running"
  /\ Reap(cur)
  /\ StopReturn(TRUE)
  /\ UNCHANGED <<backend, handle, exit, workers, termed, doomed, ready,
                 foreign, trace, lateStore, completed, error, raised, manifest,
                 interrupts>>

(* TimeoutExpired leaves stop_process, and with it the finally block.      *)
StopReapTimeout ==
  /\ pc = "reap"
  /\ leader[cur] = "running"
  /\ cur \in Unkillable
  /\ Abort
  /\ UNCHANGED <<backend, cur, handle, group, foreign, trace, lateStore,
                 completed, error, returnCodes, manifest, interrupts>>

(* The manifest looks at the trace path as it is now; then the original    *)
(* exception, if there is one, goes on.                                    *)
WriteManifest ==
  /\ pc = "manifest"
  /\ manifest' = [written |-> TRUE, error |-> error, trace |-> trace,
                  codes |-> returnCodes]
  /\ pc' = "done"
  /\ raised' = error
  /\ UNCHANGED <<backend, cur, handle, group, foreign, trace, lateStore,
                 completed, error, returnCodes, interrupts>>

(* The manifest cannot be written (OSError).                               *)
WriteManifestFails ==
  /\ pc = "manifest"
  /\ Abort
  /\ UNCHANGED <<backend, cur, handle, group, foreign, trace, lateStore,
                 completed, error, returnCodes, manifest, interrupts>>

-----------------------------------------------------------------------------
(* Ctrl-C and the recorder's own death.  The children live in sessions of  *)
(* their own: they do not see the terminal's signal.                       *)

KeyboardInterrupt ==
  /\ interrupts < MaxInterrupts
  /\ interrupts' = interrupts + 1
  /\ \/ /\ pc \in TryPoints
        /\ Raise
        /\ UNCHANGED <<raised, leader>>
     \/ (* after Popen, before the local variable is assigned *)
        /\ pc = "start"
        /\ Raise
        /\ Spawn(cur)
        /\ UNCHANGED raised
     \/ /\ pc \in FinallyPoints
        /\ Abort
        /\ UNCHANGED <<cur, error, leader>>
  /\ UNCHANGED <<backend, handle, exit, workers, termed, doomed, ready,
                 foreign, trace, lateStore, completed, returnCodes, manifest>>

(* SIGTERM and SIGKILL have no handler in the recorder: no finally block.  *)
RecorderDies ==
  /\ RecorderMayDie
  /\ pc # "done"
  /\ Abort
  /\ UNCHANGED <<backend, cur, handle, group, foreign, trace, lateStore,
                 completed, error, returnCodes, manifest, interrupts>>

-----------------------------------------------------------------------------
(* The children.                                                           *)

Exit(p, status) ==
  /\ leader' = [leader EXCEPT ![p] = "zombie"]
  /\ exit' = [exit EXCEPT ![p] = status]

(* LMCache opens its trace file and vLLM forks its workers, then the       *)
(* server listens; with the port taken it fails instead.                   *)
ServerReady(s) ==
  /\ leader[s] = "running" /\ ~doomed[s] /\ ~ready[s] /\ ~termed[s]
  /\ s \notin foreign
  /\ ready' = [ready EXCEPT ![s] = TRUE]
  /\ workers' = [workers EXCEPT ![s] = s \in HasWorkers]
  /\ trace' = IF s = "lmcache" THEN "open" ELSE trace
  /\ UNCHANGED <<backend, pc, cur, handle, leader, exit, termed, doomed,
                 foreign, lateStore, outcome, interrupts>>

(* A leader fails on its own: crash, failed bind, CUDA error, failed run;  *)
(* or SIGTERM finds no handler installed yet.                              *)
Crash(p) ==
  /\ leader[p] = "running" /\ ~doomed[p]
  /\ Exit(p, "fail")
  /\ UNCHANGED <<backend, pc, cur, handle, workers, termed, doomed, ready,
                 foreign, trace, lateStore, outcome, interrupts>>

(* LMCache's graceful shutdown writes the end marker of the trace.         *)
FlushTrace ==
  /\ leader["lmcache"] = "running" /\ ~doomed["lmcache"]
  /\ termed["lmcache"] /\ ready["lmcache"]
  /\ trace' = "complete"
  /\ Exit("lmcache", "ok")
  /\ UNCHANGED <<backend, pc, cur, handle, workers, termed, doomed, ready,
                 foreign, lateStore, outcome, interrupts>>

(* vLLM's graceful shutdown; the workers end on their own, later.          *)
VllmExits ==
  /\ leader["vllm"] = "running" /\ ~doomed["vllm"]
  /\ termed["vllm"] /\ ready["vllm"]
  /\ Exit("vllm", "ok")
  /\ UNCHANGED <<backend, pc, cur, handle, workers, termed, doomed, ready,
                 foreign, trace, lateStore, outcome, interrupts>>

BenchFinishes ==
  /\ leader["workload"] = "running" /\ ~doomed["workload"]
  /\ Exit("workload", "ok")
  /\ UNCHANGED <<backend, pc, cur, handle, workers, termed, doomed, ready,
                 foreign, trace, lateStore, outcome, interrupts>>

WorkersExit(p) ==
  /\ workers[p]
  /\ workers' = [workers EXCEPT ![p] = FALSE]
  /\ UNCHANGED <<backend, pc, cur, handle, leader, exit, termed, doomed, ready,
                 foreign, trace, lateStore, outcome, interrupts>>

(* SIGKILL takes effect on the leader.                                     *)
KilledLeaderDies(p) ==
  /\ leader[p] = "running" /\ doomed[p]
  /\ Exit(p, "killed")
  /\ UNCHANGED <<backend, pc, cur, handle, workers, termed, doomed, ready,
                 foreign, trace, lateStore, outcome, interrupts>>

(* A vLLM process offloads KV blocks while LMCache, told to terminate, is  *)
(* flushing its recorder.                                                  *)
StoreDuringFlush ==
  /\ CanAct("vllm") /\ ready["vllm"]
  /\ leader["lmcache"] = "running" /\ ~doomed["lmcache"]
  /\ termed["lmcache"] /\ ready["lmcache"]
  /\ lateStore' = TRUE
  /\ UNCHANGED <<backend, pc, cur, handle, group, foreign, trace, outcome,
                 interrupts>>

Recorder ==
  \/ StartProcess \/ StartFails
  \/ PollServer \/ ProbeAnswered \/ ProbeRefused \/ StartupTimeout
  \/ LoadWorkload \/ ReplayV3
  \/ WaitBench \/ BenchDone \/ ReadBench
  \/ StopSkip \/ StopTerminate \/ StopWaitLeader
  \/ StopGroupGone \/ StopGroupTimeout \/ StopKill \/ StopReap \/ StopReapTimeout
  \/ WriteManifest \/ WriteManifestFails

Children ==
  \/ \E s \in Servers : ServerReady(s)
  \/ \E p \in Procs : Crash(p) \/ WorkersExit(p) \/ KilledLeaderDies(p)
  \/ FlushTrace \/ VllmExits \/ BenchFinishes
  \/ StoreDuringFlush

Next == Recorder \/ KeyboardInterrupt \/ RecorderDies \/ Children

Spec == Init /\ [][Next]_vars

(* Fairness.  The recorder keeps running (WF); the readiness loops compare *)
(* a monotonic clock with their deadline, so a loop that keeps polling is  *)
(* ended (SF); the workload client ends; SIGKILL ends leaders outside      *)
(* Unkillable, and workers.  Nothing else a child does is promised.        *)
Fairness ==
  /\ WF_vars(Recorder)
  /\ SF_vars(StartupTimeout)
  /\ WF_vars(BenchFinishes)
  /\ \A p \in Procs \ Unkillable : WF_vars(KilledLeaderDies(p))
  /\ \A p \in Procs : WF_vars(doomed[p] /\ WorkersExit(p))

FairSpec == Spec /\ Fairness

-----------------------------------------------------------------------------
(* Properties.                                                             *)

(* live.py:459, "Stop the model first so no more storage operations arrive *)
(* while the MP server is flushing its recorder": a vLLM group run_live    *)
(* holds never stores into a flushing LMCache.                             *)
NoStoreDuringFlush == lateStore => ~handle["vllm"]

(* When manifest.json is there, every group run_live held has been dealt   *)
(* with: its leader is reaped, no member can act any more, and the         *)
(* manifest shows the leader's exit status (never None).                   *)
ManifestFollowsStop ==
  manifest.written =>
    \A p \in Procs : handle[p] => /\ leader[p] = "reaped"
                                  /\ ~CanAct(p)
                                  /\ manifest.codes[p] = exit[p]

(* What the manifest says of the trace stays true: nothing writes to it    *)
(* afterwards, and with LMCache's return code 0 it has its end marker.     *)
ManifestTraceIsFinal ==
  manifest.written /\ handle["lmcache"] =>
    /\ manifest.trace = trace
    /\ manifest.codes["lmcache"] = "ok" => trace = "complete"

(* run_live returns normally only for a run that is recorded in full: the  *)
(* workload ended well and a manifest without an error is on disk.         *)
ReturnMeansRecorded ==
  pc = "done" /\ ~raised =>
    /\ completed
    /\ manifest.written /\ ~manifest.error
    /\ \A s \in Servers : handle[s] /\ leader[s] = "reaped"
    /\ backend = "mooncake" => manifest.codes["workload"] = "ok"

(* Every run of the recorder ends, whatever the servers do.                *)
RunEnds == <>(pc = "done")

(* A run that leaves a manifest leaves no process of its groups behind.    *)
GroupsEnd ==
  manifest.written ~> \A p \in Procs : handle[p] => ~GroupExists(p)

-----------------------------------------------------------------------------
(* What a document says and the code does not do (README, section 8).      *)

(* The docstring of run_live (live.py:218): "always stops both child       *)
(* process groups ..., including when the workload or server fails".       *)
AlwaysStopsBothGroups == pc = "done" => \A s \in Servers : ~CanAct(s)

=============================================================================
