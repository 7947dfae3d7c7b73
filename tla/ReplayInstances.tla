---------------------------- MODULE ReplayInstances ----------------------------
(***************************************************************************)
(* Parallel replicated replay: run_instances of src/replayer/instances.py, *)
(* called again with the same --l2-root once it has ended.                 *)
(*                                                                         *)
(* An instance is two processes: python -m replayer.main, which the        *)
(* orchestrator starts, polls and signals, and its own child, the LMCache  *)
(* replay that reads and writes the L2 directory of the instance.          *)
(***************************************************************************)
EXTENDS Naturals, FiniteSets

CONSTANTS
  Instances,      \* the instance ids of the plans
  KeepL2,         \* --keep-l2
  MaxRuns,        \* bound: calls of run_instances
  MaxInterrupts,  \* bound: Ctrl-C per call
  MaxFailures     \* bound: failing launches and instances

ASSUME InstancesAssumption ==
  /\ IsFiniteSet(Instances) /\ Instances # {}
  /\ KeepL2 \in BOOLEAN
  /\ MaxRuns \in Nat /\ MaxInterrupts \in Nat /\ MaxFailures \in Nat

VARIABLES
  pc,          \* where run_instances is
  todo,        \* the instances the loop at pc still has to do
  after,       \* what follows _terminate_instances: "record" or "raise"
  running,     \* the list of the same name
  results,     \* [Instances -> code], "none" where it has no entry
  summary,     \* [Instances -> code] of instances-summary.json
  exit,        \* how run_instances ends
  proc,        \* [Instances -> replayer.main]
  signal,      \* [Instances -> the signal it has received]
  child,       \* [Instances -> its LMCache replay]
  orphans,     \* instances whose replay outlived an earlier run
  l2,          \* [Instances -> content of the L2 directory]
  dirtyStart,  \* (history) a replay began on an L2 directory with data
  lost,        \* (history) started, but not in running when interrupted
  runs, interrupts, failures  \* (bounds)

processes == <<proc, signal, child, orphans, l2, dirtyStart>>
bounds == <<runs, interrupts, failures>>
vars == <<pc, todo, after, running, results, summary, exit, processes, lost,
          bounds>>

Codes == {"zero", "nonzero"}
None == [i \in Instances |-> "none"]

TypeOK ==
  /\ pc \in {"reset", "launch", "poll", "sleep", "terminate", "grace", "record",
             "summary", "ended"}
  /\ todo \in SUBSET Instances
  /\ after \in {"record", "raise"}
  /\ running \in SUBSET Instances
  /\ results \in [Instances -> Codes \cup {"none"}]
  /\ summary \in [Instances -> Codes \cup {"none"}]
  /\ exit \in {"none", "zero", "one", "raised"}
  /\ proc \in [Instances -> {"none", "running"} \cup Codes]
  /\ signal \in [Instances -> {"none", "INT", "TERM"}]
  /\ child \in [Instances -> {"none", "running", "ended"}]
  /\ orphans \in SUBSET Instances
  /\ l2 \in [Instances -> {"empty", "data"}]
  /\ dirtyStart \in BOOLEAN
  /\ lost \in SUBSET Instances
  /\ runs \in Nat /\ interrupts \in Nat /\ failures \in Nat

Goto(p, set) == pc' = p /\ todo' = set

Init ==
  /\ pc = "reset" /\ todo = Instances
  /\ after = "record" /\ running = {}
  /\ results = None /\ summary = None /\ exit = "none"
  /\ proc = None /\ signal = None /\ child = None
  /\ orphans = {} /\ lost = {} /\ dirtyStart = FALSE
  /\ l2 \in [Instances -> {"empty", "data"}]
  /\ runs = 1 /\ interrupts = 0 /\ failures = 0

Failure == failures' = failures + 1 /\ failures < MaxFailures

-----------------------------------------------------------------------------
(* run_instances.                                                          *)

(* Mutant: one directory is emptied for all.                               *)
Reset_One(i) ==
  /\ pc = "reset" /\ i \in todo
  /\ IF KeepL2 /\ l2[i] = "data"
       THEN Goto("ended", {}) /\ exit' = "raised" /\ UNCHANGED l2
       ELSE /\ l2' = [l2 EXCEPT ![i] = "empty"]
            /\ Goto("launch", Instances)
            /\ UNCHANGED exit
  /\ UNCHANGED <<after, running, results, summary, proc, signal, child, orphans,
                 dirtyStart, lost, bounds>>

(* Before anything is launched: every L2 directory is emptied, or must be  *)
(* empty already.                                                          *)
Reset(i) ==
  /\ pc = "reset" /\ i \in todo
  /\ IF KeepL2 /\ l2[i] = "data"
       THEN Goto("ended", {}) /\ exit' = "raised" /\ UNCHANGED l2
       ELSE /\ l2' = [l2 EXCEPT ![i] = "empty"]
            /\ IF todo = {i} THEN Goto("launch", Instances) ELSE Goto("reset", todo \ {i})
            /\ UNCHANGED exit
  /\ UNCHANGED <<after, running, results, summary, proc, signal, child, orphans,
                 dirtyStart, lost, bounds>>

(* The launch loop; a failure stops what runs, and raises.                 *)
Launch(i) ==
  /\ pc = "launch" /\ i \in todo
  /\ \/ /\ proc' = [proc EXCEPT ![i] = "running"]
        /\ running' = running \cup {i}
        /\ IF todo = {i} THEN Goto("poll", running') ELSE Goto("launch", todo \ {i})
        /\ UNCHANGED <<after, failures>>
     \/ /\ Failure
        /\ Goto("terminate", {}) /\ after' = "raise"
        /\ UNCHANGED <<proc, running>>
  /\ UNCHANGED <<results, summary, exit, signal, child, orphans, l2, dirtyStart,
                 lost, runs, interrupts>>

Exited(i) == proc[i] \in Codes

(* process.poll() of one instance of the list.                             *)
Poll(i) ==
  /\ pc = "poll" /\ i \in todo
  /\ results' = IF Exited(i) THEN [results EXCEPT ![i] = proc[i]] ELSE results
  /\ todo' = todo \ {i}
  /\ UNCHANGED <<pc, after, running, summary, exit, processes, lost, bounds>>

(* Mutant: an instance that fails does not stop the others.                *)
PollEnd_GoOn ==
  /\ pc = "poll" /\ todo = {}
  /\ LET finished == {i \in running : results[i] # "none"} IN
       /\ running' = running \ finished
       /\ Goto(IF running' = {} THEN "summary" ELSE "sleep", {})
       /\ UNCHANGED after
  /\ UNCHANGED <<results, summary, exit, processes, lost, bounds>>

(* The rest of the turn: a failed instance stops all the others.           *)
PollEnd ==
  /\ pc = "poll" /\ todo = {}
  /\ LET finished == {i \in running : results[i] # "none"} IN
       /\ running' = running \ finished
       /\ IF \E i \in finished : results[i] # "zero"
            THEN Goto("terminate", {}) /\ after' = "record"
            ELSE /\ Goto(IF running' = {} THEN "summary" ELSE "sleep", {})
                 /\ UNCHANGED after
  /\ UNCHANGED <<results, summary, exit, processes, lost, bounds>>

Sleep ==
  /\ pc = "sleep"
  /\ Goto("poll", running)
  /\ UNCHANGED <<after, running, results, summary, exit, processes, lost, bounds>>

(* _terminate_instances: SIGTERM to those that still run, ...              *)
Terminate ==
  /\ pc = "terminate"
  /\ signal' = [i \in Instances |->
                 IF i \in running /\ ~Exited(i) THEN "TERM" ELSE signal[i]]
  /\ Goto("grace", {})
  /\ UNCHANGED <<after, running, results, summary, exit, proc, child, orphans,
                 l2, dirtyStart, lost, bounds>>

(* Mutant: neither SIGKILL nor wait after the five seconds.                *)
Grace_NoKill ==
  /\ pc = "grace"
  /\ UNCHANGED proc
  /\ IF after = "record" THEN Goto("record", {}) /\ UNCHANGED exit
                         ELSE Goto("ended", {}) /\ exit' = "raised"
  /\ UNCHANGED <<after, running, results, summary, signal, child, orphans, l2,
                 dirtyStart, lost, bounds>>

(* ... five seconds for them to end, then SIGKILL and wait.                *)
Grace ==
  /\ pc = "grace"
  /\ proc' = [i \in Instances |->
               IF i \in running /\ ~Exited(i) THEN "nonzero" ELSE proc[i]]
  /\ IF after = "record" THEN Goto("record", {}) /\ UNCHANGED exit
                         ELSE Goto("ended", {}) /\ exit' = "raised"
  /\ UNCHANGED <<after, running, results, summary, signal, child, orphans, l2,
                 dirtyStart, lost, bounds>>

(* Mutant: an instance the orchestrator stopped is no failure.             *)
Record_StoppedIsFine ==
  /\ pc = "record"
  /\ results' = [i \in Instances |-> IF i \in running THEN "zero" ELSE results[i]]
  /\ running' = {}
  /\ Goto("summary", {})
  /\ UNCHANGED <<after, summary, exit, processes, lost, bounds>>

(* returncode or 1: a stopped instance is never a success.                 *)
Record ==
  /\ pc = "record"
  /\ results' = [i \in Instances |-> IF i \in running THEN "nonzero" ELSE results[i]]
  /\ running' = {}
  /\ Goto("summary", {})
  /\ UNCHANGED <<after, summary, exit, processes, lost, bounds>>

(* Mutant: only the instances still in the list are looked at.             *)
WriteSummary_OnlyRunning ==
  /\ pc = "summary"
  /\ summary' = [i \in Instances |-> IF results[i] = "zero" THEN "zero" ELSE "nonzero"]
  /\ exit' = IF \E i \in running : summary'[i] = "nonzero" THEN "one" ELSE "zero"
  /\ Goto("ended", {})
  /\ UNCHANGED <<after, running, results, processes, lost, bounds>>

(* results.get(plan.instance_id, 1), the summary and the exit code.        *)
WriteSummary ==
  /\ pc = "summary"
  /\ summary' = [i \in Instances |-> IF results[i] = "zero" THEN "zero" ELSE "nonzero"]
  /\ exit' = IF \E i \in Instances : summary'[i] = "nonzero" THEN "one" ELSE "zero"
  /\ Goto("ended", {})
  /\ UNCHANGED <<after, running, results, processes, lost, bounds>>

(* Ctrl-C reaches the orchestrator and every process of the instances.     *)
(* Between Popen and the append to running the new instance is lost.       *)
KeyboardInterrupt ==
  /\ interrupts < MaxInterrupts /\ interrupts' = interrupts + 1
  /\ signal' = [i \in Instances |->
                 IF ~Exited(i) /\ proc[i] = "running" /\ signal[i] = "none"
                   THEN "INT" ELSE signal[i]]
  /\ child' \in {c \in [Instances -> {"none", "running", "ended"}] :
                   \A i \in Instances :
                     c[i] # child[i] => child[i] = "running" /\ c[i] = "ended"}
  /\ \/ /\ pc \in {"launch", "poll", "sleep", "record"}
           \/ (pc \in {"terminate", "grace"} /\ after = "record")
        /\ Goto("terminate", {}) /\ after' = "raise"
        /\ UNCHANGED <<exit, proc, lost>>
     \/ \E i \in todo :
          /\ pc = "launch"
          /\ proc' = [proc EXCEPT ![i] = "running"]
          /\ lost' = lost \cup {i}
          /\ Goto("terminate", {}) /\ after' = "raise"
          /\ UNCHANGED exit
     \/ /\ pc \in {"reset", "summary"}
           \/ (pc \in {"terminate", "grace"} /\ after = "raise")
        /\ Goto("ended", {}) /\ exit' = "raised"
        /\ UNCHANGED <<after, proc, lost>>
  /\ UNCHANGED <<running, results, summary, orphans, l2, dirtyStart, runs,
                 failures>>

(* Another run with the same plans, once every replayer.main has ended.    *)
RunAgain ==
  /\ pc = "ended" /\ runs < MaxRuns
  /\ \A i \in Instances : proc[i] # "running"
  /\ runs' = runs + 1 /\ interrupts' = 0
  /\ Goto("reset", Instances)
  /\ after' = "record" /\ running' = {}
  /\ results' = None /\ summary' = None /\ exit' = "none"
  /\ proc' = None /\ signal' = None /\ child' = None
  /\ orphans' = orphans \cup {i \in Instances : child[i] = "running"}
  /\ lost' = {}
  /\ UNCHANGED <<l2, dirtyStart, failures>>

-----------------------------------------------------------------------------
(* The instances.                                                          *)

(* replayer.main starts the LMCache replay.                                *)
StartChild(i) ==
  /\ proc[i] = "running" /\ child[i] = "none" /\ signal[i] = "none"
  /\ child' = [child EXCEPT ![i] = "running"]
  /\ dirtyStart' = (dirtyStart \/ l2[i] = "data")
  /\ UNCHANGED <<pc, todo, after, running, results, summary, exit, proc, signal,
                 orphans, l2, lost, bounds>>

ChildWrites(i) ==
  /\ child[i] = "running" \/ i \in orphans
  /\ l2' = [l2 EXCEPT ![i] = "data"]
  /\ UNCHANGED <<pc, todo, after, running, results, summary, exit, proc, signal,
                 child, orphans, dirtyStart, lost, bounds>>

ChildEnds(i) ==
  /\ \/ child[i] = "running" /\ child' = [child EXCEPT ![i] = "ended"]
        /\ UNCHANGED orphans
     \/ i \in orphans /\ orphans' = orphans \ {i} /\ UNCHANGED child
  /\ UNCHANGED <<pc, todo, after, running, results, summary, exit, proc, signal,
                 l2, dirtyStart, lost, bounds>>

(* replayer.main returns when its child has ended.                         *)
InstanceExits(i) ==
  /\ proc[i] = "running" /\ child[i] = "ended"
  /\ \/ proc' = [proc EXCEPT ![i] = "zero"] /\ UNCHANGED failures
     \/ proc' = [proc EXCEPT ![i] = "nonzero"] /\ Failure
  /\ UNCHANGED <<pc, todo, after, running, results, summary, exit, signal, child,
                 orphans, l2, dirtyStart, lost, runs, interrupts>>

(* SIGTERM ends it at once, SIGINT by way of KeyboardInterrupt; neither    *)
(* waits for the child.                                                    *)
InstanceDies(i) ==
  /\ proc[i] = "running" /\ signal[i] # "none"
  /\ proc' = [proc EXCEPT ![i] = "nonzero"]
  /\ UNCHANGED <<pc, todo, after, running, results, summary, exit, signal, child,
                 orphans, l2, dirtyStart, lost, bounds>>

-----------------------------------------------------------------------------
Orchestrator ==
  \/ \E i \in Instances : Reset(i) \/ Launch(i) \/ Poll(i)
  \/ PollEnd \/ Sleep \/ Terminate \/ Grace \/ Record \/ WriteSummary

Instance(i) == StartChild(i) \/ ChildWrites(i) \/ ChildEnds(i)
                 \/ InstanceExits(i) \/ InstanceDies(i)

Next == Orchestrator \/ KeyboardInterrupt \/ RunAgain
          \/ \E i \in Instances : Instance(i)

Spec == Init /\ [][Next]_vars

(* The orchestrator runs, and so does an instance that was signalled or    *)
(* whose replay ended; a replay need not end by itself.                    *)
FairSpec ==
  /\ Spec /\ WF_vars(Orchestrator)
  /\ \A i \in Instances : WF_vars(InstanceExits(i) \/ InstanceDies(i))

-----------------------------------------------------------------------------
(* Properties.                                                             *)

(* Exit code 0 is only returned when every instance, none forgotten, ended *)
(* with 0 and its replay with it.                                          *)
ZeroMeansAll ==
  exit = "zero" => \A i \in Instances : proc[i] = "zero" /\ child[i] = "ended"

(* instances-summary.json never calls an instance successful that is not,  *)
(* also when instances end while the others are being stopped.             *)
SummaryIsHonest ==
  \A i \in Instances : summary[i] = "zero" => proc[i] = "zero"

(* However a run ends, by a failed launch, a failed instance or a Ctrl-C,   *)
(* no replayer.main it knows of still runs; only a Ctrl-C during the       *)
(* handling of an earlier exception can leave some.                        *)
NoneLeft ==
  pc = "ended" /\ (interrupts = 0 \/ (interrupts = 1 /\ failures = 0)) =>
    \A i \in Instances : proc[i] = "running" => i \in lost

(* One failing instance ends the run, although the replays of the others   *)
(* would go on for ever.                                                   *)
FailureEndsRun ==
  \A i \in Instances :
    (pc \in {"poll", "sleep"} /\ proc[i] = "nonzero") ~> (pc = "ended")

(* Whatever the L2 directories hold and in whatever order the instances    *)
(* start, no replay of a first run begins on data: each directory belongs  *)
(* to one instance, and all are emptied or refused before any is launched. *)
FirstRunIsCold == runs = 1 => ~dirtyStart

-----------------------------------------------------------------------------
(* What a document says and the code does not do (README, section 8).      *)

(* replayer.md:206: the L2 directory of an instance is removed and made    *)
(* again before the run. Does not hold in a later run.                     *)
ReplayStartsEmpty == ~dirtyStart
===============================================================================
