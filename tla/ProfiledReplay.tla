---------------------------- MODULE ProfiledReplay ----------------------------
(***************************************************************************)
(* One replay with --io-profile: run_command (src/replayer/runner.py)      *)
(* around RemoteProfiler (src/traceprof/controller.py), which drives one   *)
(* agent per node over ssh.  An agent goes through the phases of           *)
(* AgentLifecycle; the local ssh process that started it may end before or *)
(* after it, and its output reaches the controller through a pipe and a    *)
(* line buffer.                                                            *)
(***************************************************************************)
EXTENDS Naturals, Sequences, FiniteSets

CONSTANTS
  Nodes,             \* config.nodes
  CleanupOnSuccess,  \* cleanup_on_success
  MaxFaults,         \* bound: ssh, scp, Popen, agent and replay failures
  MaxNotices,        \* bound: lines of ssh before READY (banners, warnings)
  MaxInterrupts      \* bound: Ctrl-C

ASSUME ReplayAssumption ==
  /\ IsFiniteSet(Nodes) /\ Nodes # {}
  /\ CleanupOnSuccess \in BOOLEAN
  /\ MaxFaults \in Nat /\ MaxNotices \in Nat /\ MaxInterrupts \in Nat

VARIABLES
  pc,            \* where run_command and the controller are
  todo,          \* the nodes the loop at pc still has to do
  started,       \* profiler_started
  unwinding,     \* an exception passes through the finally block
  profilerError, \* profiler_error is set
  exit,          \* how run_command ends
  replay,        \* the lmcache replay process
  returnCode,    \* return_code
  agent,         \* [Nodes -> phase]
  remote,        \* [Nodes -> set of files in the remote run directory]
  ssh,           \* [Nodes -> the local ssh process of storage_agent.sh run]
  pipe, held,    \* [Nodes -> lines in its stdout pipe, and in the reader]
  registered,    \* the pipes the selector watches
  pending,       \* the agents READY was not read from
  local,         \* [Nodes -> set of files in profile_root/<node>]
  profileSummary,\* profile_summary.json was written
  copied,        \* [Nodes -> files scp has copied]
  announced,     \* (history) the agents that printed READY
  faults, interrupts, notices \* (bounds)

control == <<pc, todo, started, unwinding, profilerError, exit>>
process == <<replay, returnCode>>
remotes == <<agent, remote, announced>>
startup == <<ssh, pipe, held, registered, pending>>
results == <<local, profileSummary, copied>>
bounds == <<faults, interrupts, notices>>
vars == <<control, process, remotes, startup, results, bounds>>

LC == INSTANCE AgentLifecycle WITH phase <- agent, summary <- remote

(* A run directory, the final rows of disk.tsv, and summary.json, which is *)
(* written piece by piece; {} again after cleanup.                         *)
Files == {"dir", "rows", "summary", "complete"}
Ended == {"done", "killed"}
Lines == {"notice", "READY"}

TypeOK ==
  /\ pc \in {"prepare", "deploy", "preflight", "launch", "ready", "replay",
             "replaying", "stop", "wait", "collect", "copy", "aggregate",
             "cleanup", "report", "returned"}
  /\ todo \in SUBSET Nodes
  /\ started \in BOOLEAN /\ unwinding \in BOOLEAN /\ profilerError \in BOOLEAN
  /\ exit \in {"none", "raised", "zero", "nonzero"}
  /\ replay \in {"none", "running", "exited"}
  /\ returnCode \in {"none", "zero", "nonzero"}
  /\ agent \in [Nodes -> LC!Phases \cup {"absent"}]
  /\ remote \in [Nodes -> SUBSET Files]
  /\ announced \in SUBSET Nodes
  /\ ssh \in [Nodes -> {"none", "up", "dead"}]
  /\ pipe \in [Nodes -> Seq(Lines)] /\ held \in [Nodes -> Seq(Lines)]
  /\ registered \in SUBSET Nodes /\ pending \in SUBSET Nodes
  /\ local \in [Nodes -> SUBSET (Files \cup {"earlier"})]
  /\ profileSummary \in BOOLEAN
  /\ copied \in [Nodes -> SUBSET {"rows", "summary"}]
  /\ faults \in Nat /\ interrupts \in Nat /\ notices \in Nat

(* The local profile directory of a node may be left from an earlier run.  *)
Init ==
  /\ pc = "prepare" /\ todo = {}
  /\ started = FALSE /\ unwinding = FALSE /\ profilerError = FALSE
  /\ exit = "none" /\ replay = "none" /\ returnCode = "none"
  /\ agent = [n \in Nodes |-> "absent"]
  /\ remote = [n \in Nodes |-> {}]
  /\ announced = {}
  /\ ssh = [n \in Nodes |-> "none"]
  /\ pipe = [n \in Nodes |-> <<>>] /\ held = [n \in Nodes |-> <<>>]
  /\ registered = {} /\ pending = {}
  /\ local \in [Nodes -> {{}, {"earlier", "summary", "complete"}}]
  /\ profileSummary = FALSE
  /\ copied = [n \in Nodes |-> {}]
  /\ faults = 0 /\ interrupts = 0 /\ notices = 0

(* A failure of the environment, of which there are at most MaxFaults.     *)
Fault ==
  /\ faults < MaxFaults
  /\ faults' = faults + 1
  /\ UNCHANGED <<interrupts, notices>>

Goto(p, nodes) == pc' = p /\ todo' = nodes

(* run_command returns or raises.                                          *)
Leave(how) == Goto("returned", {}) /\ exit' = how

(* An exception outside the replay itself.  Before profiler_started it     *)
(* leaves run_command; in the finally block it becomes profiler_error.     *)
Fail ==
  /\ IF started
       THEN /\ Goto("report", {})
            /\ profilerError' = TRUE
            /\ UNCHANGED exit
       ELSE /\ Leave("raised")
            /\ UNCHANGED profilerError
  /\ UNCHANGED <<started, unwinding>>

-----------------------------------------------------------------------------
(* Before the replay.                                                      *)

(* _run_prepare of an L2 trace; its exit code ends the run when not 0.     *)
Prepare ==
  /\ pc = "prepare"
  /\ \/ /\ Goto("deploy", {})
        /\ UNCHANGED <<exit, bounds>>
     \/ Fault /\ Leave("nonzero")
  /\ UNCHANGED <<started, unwinding, profilerError, process, remotes, startup,
                 results>>

(* _deploy_one of all nodes at once; ssh and scp may fail after the mkdir. *)
Deploy ==
  /\ pc = "deploy"
  /\ \E made \in SUBSET Nodes :
       /\ remote' = [n \in Nodes |-> IF n \in made THEN {"dir"} ELSE {}]
       /\ \/ /\ made = Nodes
             /\ Goto("preflight", {})
             /\ UNCHANGED <<started, unwinding, profilerError, exit, bounds>>
          \/ Fault /\ Fail
  /\ UNCHANGED <<process, agent, announced, startup, results>>

Preflight ==
  /\ pc = "preflight"
  /\ \/ /\ Goto("launch", Nodes)
        /\ UNCHANGED <<started, unwinding, profilerError, exit, bounds>>
     \/ Fault /\ Fail
  /\ UNCHANGED <<process, remotes, startup, results>>

(* The loop of start: Popen of ssh for one node.  It is not inside the try *)
(* block: when it fails, the agents already launched are left alone.       *)
Launch(n) ==
  /\ pc = "launch" /\ n \in todo
  /\ \/ /\ ssh' = [ssh EXCEPT ![n] = "up"]
        /\ IF todo = {n} THEN Goto("ready", {}) ELSE Goto("launch", todo \ {n})
        /\ registered' = IF todo = {n} THEN Nodes ELSE {}
        /\ pending' = IF todo = {n} THEN Nodes ELSE {}
        /\ UNCHANGED <<started, unwinding, profilerError, exit, bounds>>
     \/ Fault /\ Fail /\ UNCHANGED <<ssh, registered, pending>>
  /\ UNCHANGED <<process, remotes, pipe, held, results>>

(* What readline may return, and what it leaves in the reader: it fills an *)
(* empty reader with everything the pipe holds.                            *)
Available(n) == IF held[n] = <<>> THEN pipe[n] ELSE held[n]

(* Mutant: any first line counts as READY.                                 *)
ReadLine_AnyLine(n) ==
  /\ pc = "ready" /\ n \in registered
  /\ pipe[n] # <<>> \/ (ssh[n] = "dead" /\ held[n] # <<>>)
  /\ held' = [held EXCEPT ![n] = Tail(Available(n))]
  /\ pipe' = IF held[n] = <<>> THEN [pipe EXCEPT ![n] = <<>>] ELSE pipe
  /\ pending' = pending \ {n}
  /\ pc' = IF pending' = {} THEN "replay" ELSE "ready"
  /\ started' = (pending' = {})
  /\ UNCHANGED <<todo, unwinding, profilerError, exit, process, remotes, ssh,
                 registered, results, bounds>>

(* select reports the pipe of n, which has data or is closed, and one line *)
(* is read.  The last READY ends start, and profiler_started is set.       *)
ReadLine(n) ==
  /\ pc = "ready" /\ n \in registered
  /\ pipe[n] # <<>> \/ (ssh[n] = "dead" /\ held[n] # <<>>)
  /\ held' = [held EXCEPT ![n] = Tail(Available(n))]
  /\ pipe' = IF held[n] = <<>> THEN [pipe EXCEPT ![n] = <<>>] ELSE pipe
  /\ pending' = IF Head(Available(n)) = "READY" THEN pending \ {n} ELSE pending
  /\ pc' = IF pending' = {} THEN "replay" ELSE "ready"
  /\ started' = (pending' = {})
  /\ UNCHANGED <<todo, unwinding, profilerError, exit, process, remotes, ssh,
                 registered, results, bounds>>

(* The except clause of start: stop the agents, then raise.                *)
AbortStart ==
  /\ Goto("stop", Nodes)
  /\ UNCHANGED <<started, unwinding, profilerError, exit>>

(* End of file: an error when the ssh process is already reaped by poll,   *)
(* otherwise the pipe is forgotten.                                        *)
ReadEof(n) ==
  /\ pc = "ready" /\ n \in registered
  /\ ssh[n] = "dead" /\ pipe[n] = <<>> /\ held[n] = <<>>
  /\ registered' = registered \ {n}
  /\ AbortStart \/ UNCHANGED control
  /\ UNCHANGED <<process, remotes, ssh, pipe, held, pending, results, bounds>>

Readable(n) == n \in registered /\ (pipe[n] # <<>> \/ ssh[n] = "dead")

(* Mutant: select without the remaining time.                              *)
StartTimeout_Never ==
  /\ pc = "ready" /\ registered = {} /\ pending = {}
  /\ AbortStart
  /\ UNCHANGED <<process, remotes, startup, results, bounds>>

(* select reports nothing until the deadline.                              *)
StartTimeout ==
  /\ pc = "ready" /\ ~\E n \in Nodes : Readable(n)
  /\ AbortStart
  /\ UNCHANGED <<process, remotes, startup, results, bounds>>

-----------------------------------------------------------------------------
(* The replay.                                                             *)

StartReplay ==
  /\ pc = "replay"
  /\ \/ /\ Goto("replaying", {})
        /\ replay' = "running"
        /\ UNCHANGED <<unwinding, bounds>>
     \/ /\ Fault
        /\ Goto("stop", Nodes)
        /\ unwinding' = TRUE
        /\ UNCHANGED replay
  /\ UNCHANGED <<started, profilerError, exit, returnCode, remotes, startup,
                 results>>

(* The output of the replay ends, and process.wait returns its exit code.  *)
ReplayExits ==
  /\ pc = "replaying"
  /\ replay' = "exited"
  /\ \/ returnCode' = "zero" /\ UNCHANGED bounds
     \/ returnCode' = "nonzero" /\ Fault
  /\ Goto("stop", Nodes)
  /\ UNCHANGED <<started, unwinding, profilerError, exit, remotes, startup,
                 results>>

-----------------------------------------------------------------------------
(* The finally block.                                                      *)

(* storage_agent.sh stop: SIGTERM, if agent.pid exists.                    *)
Told(n) ==
  agent' = IF agent[n] \in LC!PidFilePhases
             THEN [agent EXCEPT ![n] = LC!Signalled(agent[n])]
             ELSE agent

(* _remote_action "stop" of one node, of all active nodes at once.  A      *)
(* failure, before or after the signal, is a warning; a timeout raises,    *)
(* when all the others are done.                                           *)
SendStop(n) ==
  /\ pc = "stop" /\ n \in todo
  /\ \/ Told(n) /\ UNCHANGED bounds
     \/ (Told(n) \/ UNCHANGED agent) /\ Fault
  /\ \/ /\ IF todo = {n} THEN Goto("wait", Nodes) ELSE Goto("stop", todo \ {n})
        /\ UNCHANGED <<started, unwinding, profilerError, exit>>
     \/ /\ todo = {n} /\ faults' > faults
        /\ Fail
  /\ UNCHANGED <<process, remote, announced, startup, results>>

(* stop waits for the ssh process, not for the agent, and ends it after    *)
(* stop_timeout_seconds.  Then start raises, or the results are collected. *)
WaitSsh(n) ==
  /\ pc = "wait" /\ n \in todo
  /\ ssh' = [ssh EXCEPT ![n] = "dead"]
  /\ \/ todo # {n} /\ Goto("wait", todo \ {n}) /\ UNCHANGED exit
     \/ todo = {n} /\ started /\ Goto("collect", Nodes) /\ UNCHANGED exit
     \/ todo = {n} /\ ~started /\ Leave("raised")
  /\ UNCHANGED <<started, unwinding, profilerError, process, remotes, pipe,
                 held, registered, pending, results, bounds>>

(* collect, node by node: scp -r into a directory that must not exist.     *)
BeginCollect(n) ==
  /\ pc = "collect" /\ n \in todo
  /\ IF local[n] # {}
       THEN Fail /\ UNCHANGED local
       ELSE /\ local' = [local EXCEPT ![n] = {"dir"}]
            /\ Goto("copy", todo)
            /\ UNCHANGED <<started, unwinding, profilerError, exit>>
  /\ UNCHANGED <<process, remotes, startup, profileSummary, copied, bounds>>

Copying(n) == pc = "copy" /\ n \in todo /\ "dir" \in local[n]

Content(f) == IF f = "rows" THEN {"rows"} ELSE {"summary", "complete"}

(* scp reads the files one after the other, in no particular order, as     *)
(* they are at that moment.                                                *)
CopyFile(n, f) ==
  /\ Copying(n) /\ f \notin copied[n]
  /\ copied' = [copied EXCEPT ![n] = @ \cup {f}]
  /\ local' = [local EXCEPT ![n] = @ \cup (remote[n] \cap Content(f))]
  /\ UNCHANGED <<control, process, remotes, startup, profileSummary, bounds>>

Collected(n) ==
  /\ IF todo = {n} THEN Goto("aggregate", {}) ELSE Goto("collect", todo \ {n})
  /\ UNCHANGED <<started, unwinding, profilerError, exit>>

(* Mutant: no test for summary.json.                                       *)
EndCollect_NoTest(n) ==
  /\ Copying(n)
  /\ \/ copied[n] = {"rows", "summary"} /\ Collected(n) /\ UNCHANGED bounds
     \/ Fault /\ Fail
  /\ UNCHANGED <<process, remotes, startup, results>>

(* The exit code of scp and the test for summary.json.                     *)
EndCollect(n) ==
  /\ Copying(n)
  /\ \/ /\ copied[n] = {"rows", "summary"}
        /\ IF "summary" \in local[n] THEN Collected(n) ELSE Fail
        /\ UNCHANGED bounds
     \/ Fault /\ Fail
  /\ UNCHANGED <<process, remotes, startup, results>>

(* aggregate_profiles reads every summary.json there is, and fails on one  *)
(* that is cut off.                                                        *)
Aggregate ==
  /\ pc = "aggregate"
  /\ IF \E n \in Nodes : "summary" \in local[n] /\ "complete" \notin local[n]
       THEN Fail /\ UNCHANGED profileSummary
       ELSE /\ profileSummary' = TRUE
            /\ IF CleanupOnSuccess THEN Goto("cleanup", Nodes) ELSE Goto("report", {})
            /\ UNCHANGED <<started, unwinding, profilerError, exit>>
  /\ UNCHANGED <<process, remotes, startup, local, copied, bounds>>

(* storage_agent.sh cleanup on all nodes at once; a failure raises when    *)
(* all the others are done.                                                *)
Cleanup(n) ==
  /\ pc = "cleanup" /\ n \in todo
  /\ \/ /\ remote' = [remote EXCEPT ![n] = {}]
        /\ IF todo = {n} THEN Goto("report", {}) ELSE Goto("cleanup", todo \ {n})
        /\ UNCHANGED <<started, unwinding, profilerError, exit, bounds>>
     \/ /\ todo = {n} /\ Fault /\ Fail
        /\ UNCHANGED remote
  /\ UNCHANGED <<process, agent, announced, startup, results>>

(* Mutant: the exit code of the replay, whatever became of the profile.    *)
Report_IgnoreProfiler ==
  /\ pc = "report"
  /\ Leave(IF unwinding THEN "raised" ELSE returnCode)
  /\ UNCHANGED <<started, unwinding, profilerError, process, remotes, startup,
                 results, bounds>>

(* The exception goes on, or the exit code of the replay, or 1 when only   *)
(* the profiler failed.                                                    *)
Report ==
  /\ pc = "report"
  /\ Leave(IF unwinding THEN "raised"
           ELSE IF profilerError /\ returnCode = "zero" THEN "nonzero"
           ELSE returnCode)
  /\ UNCHANGED <<started, unwinding, profilerError, process, remotes, startup,
                 results, bounds>>

(* Ctrl-C reaches the whole foreground process group: the controller, the  *)
(* ssh processes and the replay, which may take its time.  In the finally  *)
(* block it only becomes profiler_error.                                   *)
KeyboardInterrupt ==
  /\ interrupts < MaxInterrupts
  /\ interrupts' = interrupts + 1
  /\ ssh' = [n \in Nodes |-> IF ssh[n] = "up" THEN "dead" ELSE ssh[n]]
  /\ replay' \in {replay, IF replay = "running" THEN "exited" ELSE replay}
  /\ \/ pc = "ready" /\ AbortStart
     \/ /\ pc \in {"replay", "replaying"}
        /\ Goto("stop", Nodes)
        /\ unwinding' = TRUE
        /\ UNCHANGED <<started, profilerError, exit>>
     \/ /\ pc \in {"prepare", "deploy", "preflight", "launch", "stop", "wait",
                 "collect", "copy", "aggregate", "cleanup"}
        /\ Fail
     \/ /\ pc = "report" /\ Leave("raised")
        /\ UNCHANGED <<started, unwinding, profilerError>>
  /\ UNCHANGED <<returnCode, remotes, pipe, held, registered, pending, results,
                 faults, notices>>

-----------------------------------------------------------------------------
(* The nodes.                                                              *)

(* The remote shell runs the agent, or the connection fails; ssh may print *)
(* a line of its own first.                                                *)
Connect(n) ==
  /\ ssh[n] = "up" /\ agent[n] = "absent"
  /\ agent' = [agent EXCEPT ![n] = "booting"]
  /\ UNCHANGED <<control, process, remote, announced, startup, results, bounds>>

SshNotice(n) ==
  /\ ssh[n] = "up" /\ agent[n] = "absent"
  /\ notices < MaxNotices /\ notices' = notices + 1
  /\ pipe' = [pipe EXCEPT ![n] = Append(@, "notice")]
  /\ UNCHANGED <<control, process, remotes, ssh, held, registered, pending,
                 results, faults, interrupts>>

(* The agent gets ready; READY reaches the pipe while ssh lives.  An agent *)
(* whose ssh is gone may be killed by its own printf.                      *)
AgentAdvances(n) ==
  /\ \E next \in LC!Advance(agent[n]) :
       /\ agent' = [agent EXCEPT ![n] = next]
       /\ IF next = "announced"
            THEN /\ announced' = announced \cup {n}
                 /\ pipe' = IF ssh[n] = "up" THEN [pipe EXCEPT ![n] = Append(@, "READY")]
                                             ELSE pipe
            ELSE UNCHANGED <<announced, pipe>>
  /\ UNCHANGED <<control, process, remote, ssh, held, registered, pending,
                 results, bounds>>

Order == <<"dir", "rows", "summary", "complete">>

(* A stopping agent writes the last rows, then summary.json piece by       *)
(* piece, and ends.                                                        *)
AgentWrites(n) ==
  /\ agent[n] = "stopping"
  /\ \E i \in 2..4 : /\ Order[i - 1] \in remote[n] /\ Order[i] \notin remote[n]
                     /\ remote' = [remote EXCEPT ![n] = @ \cup {Order[i]}]
  /\ UNCHANGED <<control, process, agent, announced, startup, results, bounds>>

AgentEnds(n) ==
  /\ agent[n] = "stopping" /\ "complete" \in remote[n]
  /\ agent' = [agent EXCEPT ![n] = "done"]
  /\ UNCHANGED <<control, process, remote, announced, startup, results, bounds>>

(* The agent is killed, or its node is.                                    *)
AgentDies(n) ==
  /\ agent[n] \notin Ended \cup {"absent"}
  /\ Fault
  /\ agent' = [agent EXCEPT ![n] = "killed"]
  /\ UNCHANGED <<control, process, remote, announced, startup, results>>

(* ssh ends with its agent, or when the connection is lost.                *)
SshEnds(n) ==
  /\ ssh[n] = "up"
  /\ (agent[n] \in Ended /\ UNCHANGED bounds) \/ Fault
  /\ ssh' = [ssh EXCEPT ![n] = "dead"]
  /\ UNCHANGED <<control, process, remotes, pipe, held, registered, pending,
                 results>>

-----------------------------------------------------------------------------
Controller ==
  \/ Prepare \/ Deploy \/ Preflight \/ StartTimeout \/ StartReplay
  \/ ReplayExits \/ Aggregate \/ Report
  \/ \E n \in Nodes :
       \/ Launch(n) \/ ReadLine(n) \/ ReadEof(n) \/ SendStop(n) \/ WaitSsh(n)
       \/ BeginCollect(n) \/ EndCollect(n) \/ Cleanup(n)
       \/ \E f \in {"rows", "summary"} : CopyFile(n, f)

Node(n) == Connect(n) \/ SshNotice(n) \/ AgentAdvances(n) \/ AgentWrites(n)
             \/ AgentEnds(n) \/ AgentDies(n) \/ SshEnds(n)

Next == Controller \/ KeyboardInterrupt \/ \E n \in Nodes : Node(n)

Spec == Init /\ [][Next]_vars

(* The controller runs, its timeouts expire and the replay ends; nothing   *)
(* is assumed of the nodes or of ssh.                                      *)
FairSpec == Spec /\ WF_vars(Controller)

-----------------------------------------------------------------------------
(* Properties.                                                             *)

(* Every node is measured from before the replay starts: the replay only   *)
(* starts when each agent, having taken its first snapshot, printed READY, *)
(* whatever else ssh prints.                                               *)
ReplayIsMeasured == replay # "none" => announced = Nodes

(* A run directory is only removed when the complete summary of every      *)
(* node, from this run, is at the replay host and is aggregated ("수집과   *)
(* 집계가 성공하면 원격 임시 경로를 삭제하고", replayer.md:288).           *)
RemovedIsCollected ==
  [][(\E n \in Nodes : "dir" \in remote[n] /\ "dir" \notin remote'[n]) =>
       /\ profileSummary
       /\ \A n \in Nodes : "complete" \in local[n] /\ "earlier" \notin local[n]]_vars

(* Exit code 0 means more than the replay's own: the profile of every node *)
(* is complete and aggregated, and no agent is left measuring.             *)
ExitZeroIsProfiled ==
  exit = "zero" =>
    /\ returnCode = "zero" /\ profileSummary
    /\ \A n \in Nodes : /\ "complete" \in local[n] /\ "earlier" \notin local[n]
                        /\ agent[n] # "serving"

(* Whatever the agents and ssh do, the controller never waits for ever.    *)
RunReturns == <>(exit # "none")

-----------------------------------------------------------------------------
(* What a document says and the code does not do (README, section 8).      *)

(* controller.py:186: start waits for the READY markers of all agents; it  *)
(* only times out on one that has not printed its marker.                  *)
TimeoutBlamesLateAgents == [][StartTimeout => pending \cap announced = {}]_vars

(* replayer.md:295: the last short interval is flushed, and the tables are *)
(* saved in output_dir/profile/<node>/.                                    *)
CollectedRowsAreFinal ==
  exit = "zero" => \A n \in Nodes : "rows" \in local[n]
===============================================================================
