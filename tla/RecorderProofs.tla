---------------------------- MODULE RecorderProofs ----------------------------
(***************************************************************************)
(* Proofs about the recorder: RecorderLive, then RecordSweep.              *)
(*                                                                         *)
(* RecorderLive: its type invariant, the shutdown order and what a written *)
(* manifest says of the process groups, for any set of processes with      *)
(* workers, of unkillable leaders and of occupied ports, and any number of *)
(* interrupts.                                                             *)
(*                                                                         *)
(* RecordSweep: which settings reach a recording, and what the scripts may *)
(* remove and must leave, for any files, links, command lines and calls.   *)
(***************************************************************************)
EXTENDS RecorderLive, RecordSweep, FiniteSetTheorems, WellFoundedInduction, TLAPS


StopPoints == {"stop", "waitLeader", "waitGroup", "kill", "reap"}

(* The finally block is past p.                                            *)
Passed(p) ==
  \/ pc = "manifest"
  \/ pc \in StopPoints /\ \/ p = "workload" /\ cur \in Servers
                          \/ p = "vllm" /\ cur = "lmcache"

(* A group stop_process is through with.                                   *)
Settled(p) ==
  /\ leader[p] = "reaped"
  /\ ~CanAct(p)

(* Only the group being stopped and those before it have been signalled; a *)
(* held group was spawned.                                                 *)
TryInv ==
  /\ \A p \in Procs :
       termed[p] => \/ Passed(p)
                    \/ cur = p /\ pc \in StopPoints \ {"stop"}
                    \/ pc = "done"
  /\ \A p \in Procs : handle[p] => leader[p] # "none"

(* Inside stop_process.                                                    *)
StopInv ==
  /\ pc \in {"waitLeader", "waitGroup", "kill", "reap"} => handle[cur]
  /\ pc = "waitGroup" => leader[cur] = "reaped"
  /\ pc = "reap" => doomed[cur] \/ ~GroupExists(cur)

PassedInv ==
  \A p \in Procs : Passed(p) /\ handle[p] =>
                     Settled(p) /\ returnCodes[p] = exit[p]

OrderInv ==
  /\ termed["lmcache"] /\ handle["vllm"] => Settled("vllm")
  /\ lateStore => termed["lmcache"] /\ ~handle["vllm"]

ManifestInv ==
  /\ manifest.written => pc = "done"
  /\ ManifestFollowsStop

IInv == TypeOK /\ TryInv /\ StopInv /\ PassedInv /\ OrderInv /\ ManifestInv

(* A run of run_live starts in a well-typed state.                         *)
LEMMA TypeInit == Init => TypeOK
<1> SUFFICES ASSUME Init PROVE TypeOK OBVIOUS
<1>1. foreign \in SUBSET Servers
   BY ConstantsAssumption DEF Init
<1>2. manifest \in [written : BOOLEAN, error : BOOLEAN,
                   trace : {"absent", "stale", "open", "complete"},
                   codes : [Procs -> ExitStatus \cup {"None", "unset"}]]
   BY DEF Init, NoManifest
<1>3. interrupts \in 0..MaxInterrupts
   BY ConstantsAssumption DEF Init
<1>4. /\ lateStore \in BOOLEAN /\ completed \in BOOLEAN
      /\ error \in BOOLEAN /\ raised \in BOOLEAN
   BY DEF Init
<1>5. /\ handle \in [Procs -> BOOLEAN]
  /\ leader \in [Procs -> {"none", "running", "zombie", "reaped"}]
  /\ exit \in [Procs -> ExitStatus \cup {"None"}]
  /\ workers \in [Procs -> BOOLEAN]
  /\ termed \in [Procs -> BOOLEAN]
  /\ doomed \in [Procs -> BOOLEAN]
  /\ ready \in [Servers -> BOOLEAN]
  /\ returnCodes \in [Procs -> ExitStatus \cup {"None", "unset"}]
  BY DEF Init
<1> QED BY <1>1, <1>2, <1>3, <1>4, <1>5
  DEF Init, TypeOK, Procs, Servers, TryPoints

(* Every action of the recorder and of its children keeps the types.       *)
LEMMA TypeStep == TypeOK /\ [Next]_vars => TypeOK'
<1> USE ConstantsAssumption DEF TypeOK, Procs, Servers, TryPoints,
      FinallyPoints, ExitStatus, group, outcome
<1>1. ASSUME TypeOK, StartProcess PROVE TypeOK'
  BY <1>1 DEF StartProcess, Spawn
<1>2. ASSUME TypeOK, StartFails PROVE TypeOK'
  BY <1>2 DEF StartFails, Raise
<1>3. ASSUME TypeOK, PollServer PROVE TypeOK'
  <2>1. error' \in BOOLEAN
    BY <1>3, Zenon DEF PollServer, Raise
  <2> QED
    BY <1>3, <2>1 DEF PollServer, Raise, Reap
<1>4. ASSUME TypeOK, ProbeAnswered PROVE TypeOK'
  BY <1>4 DEF ProbeAnswered, WorkloadPoint
<1>5. ASSUME TypeOK, ProbeRefused PROVE TypeOK'
  BY <1>5 DEF ProbeRefused
<1>6. ASSUME TypeOK, StartupTimeout PROVE TypeOK'
  BY <1>6 DEF StartupTimeout, Raise
<1>7. ASSUME TypeOK, LoadWorkload PROVE TypeOK'
  <2>1. error' \in BOOLEAN
    BY <1>7, Zenon DEF LoadWorkload, Raise
  <2> QED
    BY <1>7, <2>1 DEF LoadWorkload, Raise
<1>8. ASSUME TypeOK, ReplayV3 PROVE TypeOK'
  <2>1. error' \in BOOLEAN /\ completed' \in BOOLEAN
    BY <1>8, Zenon DEF ReplayV3, Raise, Finish
  <2> QED
    BY <1>8, <2>1 DEF ReplayV3, Raise, Finish
<1>9. ASSUME TypeOK, WaitBench PROVE TypeOK'
  BY <1>9 DEF WaitBench, Reap
<1>10. ASSUME TypeOK, BenchDone PROVE TypeOK'
  <2>1. error' \in BOOLEAN
    BY <1>10, Zenon DEF BenchDone, Raise
  <2> QED
    BY <1>10, <2>1 DEF BenchDone, Raise
<1>11. ASSUME TypeOK, ReadBench PROVE TypeOK'
  <2>1. error' \in BOOLEAN /\ completed' \in BOOLEAN
    BY <1>11, Zenon DEF ReadBench, Raise, Finish
  <2> QED
    BY <1>11, <2>1 DEF ReadBench, Raise, Finish
<1>12. ASSUME TypeOK, StopSkip PROVE TypeOK'
  BY <1>12 DEF StopSkip, StopNext
<1>13. ASSUME TypeOK, StopTerminate PROVE TypeOK'
  BY <1>13 DEF StopTerminate, GroupExists
<1>14. ASSUME TypeOK, StopWaitLeader PROVE TypeOK'
  BY <1>14 DEF StopWaitLeader, Reap
<1>15. ASSUME TypeOK, StopGroupGone PROVE TypeOK'
  BY <1>15 DEF StopGroupGone, GroupExists, StopReturn, StopNext
<1>16. ASSUME TypeOK, StopGroupTimeout PROVE TypeOK'
  BY <1>16 DEF StopGroupTimeout, GroupExists
<1>17. ASSUME TypeOK, StopKill PROVE TypeOK'
  BY <1>17 DEF StopKill, GroupExists
<1>18. ASSUME TypeOK, StopReap PROVE TypeOK'
  BY <1>18 DEF StopReap, Reap, StopReturn, StopNext
<1>19. ASSUME TypeOK, StopReapTimeout PROVE TypeOK'
  BY <1>19 DEF StopReapTimeout, Abort
<1>20. ASSUME TypeOK, WriteManifest PROVE TypeOK'
  BY <1>20 DEF WriteManifest
<1>21. ASSUME TypeOK, WriteManifestFails PROVE TypeOK'
  BY <1>21 DEF WriteManifestFails, Abort
<1>22. ASSUME TypeOK, KeyboardInterrupt PROVE TypeOK'
  <2>1. error' \in BOOLEAN /\ raised' \in BOOLEAN
    BY <1>22, Zenon DEF KeyboardInterrupt, Raise, Abort
  <2> QED
    BY <1>22, <2>1 DEF KeyboardInterrupt, Raise, Spawn, Abort
<1>23. ASSUME TypeOK, RecorderDies PROVE TypeOK'
  BY <1>23 DEF RecorderDies, Abort
<1>24. ASSUME TypeOK, FlushTrace PROVE TypeOK'
  BY <1>24 DEF FlushTrace, Exit
<1>25. ASSUME TypeOK, VllmExits PROVE TypeOK'
  BY <1>25 DEF VllmExits, Exit
<1>26. ASSUME TypeOK, BenchFinishes PROVE TypeOK'
  BY <1>26 DEF BenchFinishes, Exit
<1>27. ASSUME TypeOK, StoreDuringFlush PROVE TypeOK'
  BY <1>27 DEF StoreDuringFlush, CanAct
<1>28. ASSUME TypeOK, NEW p \in Servers, ServerReady(p) PROVE TypeOK'
  BY <1>28 DEF ServerReady
<1>29. ASSUME TypeOK, NEW p \in Procs, Crash(p) PROVE TypeOK'
  BY <1>29 DEF Crash, Exit
<1>30. ASSUME TypeOK, NEW p \in Procs, WorkersExit(p) PROVE TypeOK'
  BY <1>30 DEF WorkersExit
<1>31. ASSUME TypeOK, NEW p \in Procs, KilledLeaderDies(p) PROVE TypeOK'
  BY <1>31 DEF KilledLeaderDies, Exit
<1>32. ASSUME TypeOK, UNCHANGED vars PROVE TypeOK'
  BY <1>32 DEF vars
<1> QED
  BY <1>1, <1>2, <1>3, <1>4, <1>5, <1>6, <1>7, <1>8, <1>9, <1>10, <1>11,
    <1>12, <1>13, <1>14, <1>15, <1>16, <1>17, <1>18, <1>19, <1>20, <1>21,
    <1>22, <1>23, <1>24, <1>25, <1>26, <1>27, <1>28, <1>29, <1>30, <1>31,
    <1>32
    DEF Next, Recorder, Children

(* The inductive step: one step per action of run_live, of stop_process    *)
(* and of the children.                                                    *)
LEMMA InvStep == IInv /\ [Next]_vars => IInv'
<1> USE DEF IInv, TryInv, StopInv, PassedInv, OrderInv, ManifestInv,
  ManifestFollowsStop, StopPoints, Passed, Settled, CanAct, GroupExists,
  TypeOK, Procs, Servers, TryPoints,
      FinallyPoints, ExitStatus, group, outcome
<1>1. ASSUME IInv, TypeOK', StartProcess PROVE IInv'
  BY <1>1 DEF StartProcess, Spawn
<1>2. ASSUME IInv, TypeOK', StartFails PROVE IInv'
  BY <1>2 DEF StartFails, Raise
<1>3. ASSUME IInv, TypeOK', PollServer PROVE IInv'
  BY <1>3 DEF PollServer, Raise, Reap
<1>4. ASSUME IInv, TypeOK', ProbeAnswered PROVE IInv'
  BY <1>4 DEF ProbeAnswered, WorkloadPoint
<1>5. ASSUME IInv, TypeOK', ProbeRefused PROVE IInv'
  BY <1>5 DEF ProbeRefused
<1>6. ASSUME IInv, TypeOK', StartupTimeout PROVE IInv'
  BY <1>6 DEF StartupTimeout, Raise
<1>7. ASSUME IInv, TypeOK', LoadWorkload PROVE IInv'
  BY <1>7 DEF LoadWorkload, Raise
<1>8. ASSUME IInv, TypeOK', ReplayV3 PROVE IInv'
  BY <1>8 DEF ReplayV3, Raise, Finish
<1>9. ASSUME IInv, TypeOK', WaitBench PROVE IInv'
  BY <1>9 DEF WaitBench, Reap
<1>10. ASSUME IInv, TypeOK', BenchDone PROVE IInv'
  BY <1>10 DEF BenchDone, Raise
<1>11. ASSUME IInv, TypeOK', ReadBench PROVE IInv'
  BY <1>11 DEF ReadBench, Raise, Finish
<1>12. ASSUME IInv, TypeOK', StopSkip PROVE IInv'
  BY <1>12 DEF StopSkip, StopNext
<1>13. ASSUME IInv, TypeOK', StopTerminate PROVE IInv'
  <2>1. TryInv' /\ StopInv' /\ ManifestInv'
    BY <1>13 DEF StopTerminate
  <2>2. PassedInv'
    BY <1>13 DEF StopTerminate
  <2>3. OrderInv'
    BY <1>13 DEF StopTerminate
  <2> QED
    BY <1>13, <2>1, <2>2, <2>3
<1>14. ASSUME IInv, TypeOK', StopWaitLeader PROVE IInv'
  BY <1>14 DEF StopWaitLeader, Reap
<1>15. ASSUME IInv, TypeOK', StopGroupGone PROVE IInv'
  BY <1>15 DEF StopGroupGone, GroupExists, StopReturn, StopNext
<1>16. ASSUME IInv, TypeOK', StopGroupTimeout PROVE IInv'
  BY <1>16 DEF StopGroupTimeout, GroupExists
<1>17. ASSUME IInv, TypeOK', StopKill PROVE IInv'
  BY <1>17 DEF StopKill, GroupExists
<1>18. ASSUME IInv, TypeOK', StopReap PROVE IInv'
  BY <1>18 DEF StopReap, Reap, StopReturn, StopNext
<1>19. ASSUME IInv, TypeOK', StopReapTimeout PROVE IInv'
  BY <1>19 DEF StopReapTimeout, Abort
<1>20. ASSUME IInv, TypeOK', WriteManifest PROVE IInv'
  BY <1>20 DEF WriteManifest
<1>21. ASSUME IInv, TypeOK', WriteManifestFails PROVE IInv'
  BY <1>21 DEF WriteManifestFails, Abort
<1>22. ASSUME IInv, TypeOK', KeyboardInterrupt PROVE IInv'
  BY <1>22 DEF KeyboardInterrupt, Raise, Spawn, Abort
<1>23. ASSUME IInv, TypeOK', RecorderDies PROVE IInv'
  BY <1>23 DEF RecorderDies, Abort
<1>24. ASSUME IInv, TypeOK', FlushTrace PROVE IInv'
  BY <1>24 DEF FlushTrace, Exit
<1>25. ASSUME IInv, TypeOK', VllmExits PROVE IInv'
  BY <1>25 DEF VllmExits, Exit
<1>26. ASSUME IInv, TypeOK', BenchFinishes PROVE IInv'
  BY <1>26 DEF BenchFinishes, Exit
<1>27. ASSUME IInv, TypeOK', StoreDuringFlush PROVE IInv'
  BY <1>27 DEF StoreDuringFlush, CanAct
<1>28. ASSUME IInv, TypeOK', NEW p \in Servers, ServerReady(p) PROVE IInv'
  BY <1>28 DEF ServerReady
<1>29. ASSUME IInv, TypeOK', NEW p \in Procs, Crash(p) PROVE IInv'
  BY <1>29 DEF Crash, Exit
<1>30. ASSUME IInv, TypeOK', NEW p \in Procs, WorkersExit(p) PROVE IInv'
  BY <1>30 DEF WorkersExit
<1>31. ASSUME IInv, TypeOK', NEW p \in Procs, KilledLeaderDies(p) PROVE IInv'
  BY <1>31 DEF KilledLeaderDies, Exit
<1>32. ASSUME IInv, TypeOK', UNCHANGED vars PROVE IInv'
  BY <1>32 DEF vars
<1> HIDE DEF IInv, TryInv, StopInv, PassedInv, OrderInv, ManifestInv,
  ManifestFollowsStop, StopPoints, Passed, Settled, CanAct, GroupExists,
  TypeOK
<1>33. IInv => TypeOK
  BY DEF IInv
<1> QED
  BY <1>1, <1>2, <1>3, <1>4, <1>5, <1>6, <1>7, <1>8, <1>9, <1>10, <1>11,
    <1>12, <1>13, <1>14, <1>15, <1>16, <1>17, <1>18, <1>19, <1>20, <1>21,
    <1>22, <1>23, <1>24, <1>25, <1>26, <1>27, <1>28, <1>29, <1>30, <1>31,
    <1>32, TypeStep, <1>33
    DEF Next, Recorder, Children

(* The type invariant.                                                     *)
THEOREM TypeCorrect == Spec => []TypeOK
<1>1. Init => TypeOK
  BY TypeInit
<1>2. TypeOK /\ [Next]_vars => TypeOK'
  BY TypeStep
<1> QED
  BY <1>1, <1>2, PTL DEF Spec

(* At the start of run_live no group exists and nothing is signalled.      *)
LEMMA InvInit == Init => IInv
<1> SUFFICES ASSUME Init
             PROVE  IInv
  OBVIOUS
<1>1. TypeOK
  BY TypeInit
<1>2. TryInv /\ StopInv /\ PassedInv /\ OrderInv /\ ManifestInv
  BY DEF Init, NoManifest, TryInv, StopInv, PassedInv, OrderInv, ManifestInv,
         ManifestFollowsStop, StopPoints, Passed, Procs, Servers
<1> QED
  BY <1>1, <1>2 DEF IInv

(* The inductive invariant holds throughout every run of run_live.         *)
LEMMA Inductive == Spec => []IInv
  BY InvInit, InvStep, PTL DEF Spec

(* live.py:459: a vLLM group run_live holds never stores into an LMCache   *)
(* that is flushing its recorder, whatever fails and whenever it is        *)
(* interrupted.                                                            *)
THEOREM ShutdownOrder == Spec => []NoStoreDuringFlush
<1>1. IInv => NoStoreDuringFlush
  BY DEF IInv, OrderInv, NoStoreDuringFlush
<1> QED
  BY <1>1, Inductive, PTL

(* When a manifest is written, every group run_live held is settled and    *)
(* the manifest shows the exit status of its leader.                       *)
THEOREM ManifestAfterStop == Spec => []ManifestFollowsStop
<1>1. IInv => ManifestFollowsStop
  BY DEF IInv, ManifestInv
<1> QED
  BY <1>1, Inductive, PTL

-----------------------------------------------------------------------------
(* What the manifest says of the trace, and what a normal return means.    *)

(* The processes are started in order, each of them once, and each handle  *)
(* the try block is past of is set.                                        *)
StartInv ==
  pc \in TryPoints =>
    /\ pc = "start" => leader[cur] = "none"
    /\ cur = "lmcache" => leader["vllm"] = "none"
    /\ cur # "workload" => leader["workload"] = "none"
    /\ pc \in {"load", "replay"} => leader["workload"] = "none"
    /\ pc \in {"load", "replay", "bench", "benchDone", "benchRead"} => cur = "workload"
    /\ pc \in {"poll", "probe"} => cur \in Servers /\ handle[cur]
    /\ cur # "lmcache" => handle["lmcache"]
    /\ cur = "workload" => handle["vllm"]

(* An exit status belongs to a leader that exited, and LMCache exits with  *)
(* 0 only after the end marker of its trace.                               *)
ExitInv ==
  /\ \A p \in Procs : leader[p] \in {"none", "running"} => exit[p] = "None"
  /\ exit["lmcache"] = "ok" => trace = "complete"

TraceInv == manifest.written /\ handle["lmcache"] => manifest.trace = trace

(* The workload ended well, and in the mooncake backend it is a process    *)
(* that the finally block does not touch again.                            *)
Recorded ==
  /\ completed
  /\ \A s \in Servers : handle[s]
  /\ backend = "mooncake" => ~handle["workload"] /\ returnCodes["workload"] = "ok"

ReturnInv ==
  /\ pc \in {"load", "replay"} => backend = "tensormesh"
  /\ pc = "benchRead" => ~handle["workload"] /\ returnCodes["workload"] = "ok"
  /\ pc \in FinallyPoints /\ ~error => Recorded
  /\ pc # "done" => ~raised
  /\ pc = "done" /\ ~raised =>
       /\ completed
       /\ manifest.written /\ ~manifest.error
       /\ \A s \in Servers : handle[s]
       /\ backend = "mooncake" => manifest.codes["workload"] = "ok"

RunInv == StartInv /\ ExitInv /\ TraceInv /\ ReturnInv

(* The recorder does not write what belongs to the children, ...           *)
LEMMA RecorderFacts ==
  ASSUME Recorder \/ KeyboardInterrupt \/ RecorderDies
  PROVE  UNCHANGED <<backend, exit, trace>>
BY DEF Recorder, KeyboardInterrupt, RecorderDies, StartProcess, StartFails,
  PollServer, ProbeAnswered, ProbeRefused, StartupTimeout, LoadWorkload,
  ReplayV3, WaitBench, BenchDone, ReadBench, StopSkip, StopTerminate,
  StopWaitLeader, StopGroupGone, StopGroupTimeout, StopKill, StopReap,
  StopReapTimeout, WriteManifest, WriteManifestFails, group, outcome

(* ... and a child changes nothing of run_live, only its own process while *)
(* that runs, and the trace only while LMCache runs.                       *)
LEMMA ChildrenFacts ==
  ASSUME TypeOK, Children
  PROVE  /\ UNCHANGED <<backend, pc, cur, handle, completed, error, returnCodes,
                        raised, manifest>>
         /\ \A p \in Procs : leader[p] # "running" =>
              leader'[p] = leader[p] /\ exit'[p] = exit[p]
         /\ leader["lmcache"] # "running" => trace' = trace
<1> USE DEF TypeOK, Servers, Procs, outcome, Exit
<1>1. CASE \E s \in Servers : ServerReady(s)
  BY <1>1 DEF ServerReady
<1>2. CASE \E p \in Procs : Crash(p) \/ WorkersExit(p) \/ KilledLeaderDies(p)
  BY <1>2 DEF Crash, WorkersExit, KilledLeaderDies
<1>3. CASE FlushTrace \/ VllmExits \/ BenchFinishes \/ StoreDuringFlush
  BY <1>3 DEF FlushTrace, VllmExits, BenchFinishes, StoreDuringFlush, group
<1> QED
  BY <1>1, <1>2, <1>3 DEF Children

(* A process is spawned once, in its turn.                                 *)
LEMMA StartStep ==
  ASSUME IInv, StartInv, ReturnInv, [Next]_vars
  PROVE  StartInv'
<1> USE DEF StartInv, TryPoints, Servers, Procs
<1>1. TypeOK
  BY DEF IInv
<1>2. CASE Children
  BY <1>1, <1>2, ChildrenFacts DEF TypeOK
<1>3. CASE StartProcess
  BY <1>1, <1>3 DEF StartProcess, Spawn, TypeOK
<1>4. CASE PollServer
  BY <1>1, <1>4 DEF PollServer, Raise, TypeOK
<1>5. CASE ProbeAnswered
  <2>1. pc = "probe" /\ UNCHANGED <<handle, leader>>
    BY <1>5 DEF ProbeAnswered, group
  <2>2. CASE cur = "lmcache" /\ pc' = "start" /\ cur' = "vllm"
    BY <2>1, <2>2
  <2>3. CASE cur = "vllm" /\ pc' \in {"load", "start"} /\ cur' = "workload"
    BY <2>1, <2>3
  <2>4. cur \in Servers
    BY <2>1
  <2> QED
    BY <1>5, <2>2, <2>3, <2>4 DEF ProbeAnswered, WorkloadPoint
<1>6. CASE ProbeRefused
  BY <1>6 DEF ProbeRefused, group
<1>7. CASE LoadWorkload
  BY <1>7 DEF LoadWorkload, Raise, group
<1>8. CASE WaitBench
  BY <1>1, <1>8 DEF WaitBench, Reap, TypeOK
<1>9. CASE BenchDone
  BY <1>1, <1>9 DEF BenchDone, Raise, group, TypeOK
<1>10. ASSUME pc' \notin TryPoints PROVE StartInv'
  BY <1>10
<1>11. CASE StartFails \/ StartupTimeout \/ ReplayV3 \/ ReadBench \/ KeyboardInterrupt
  <2>1. pc' \in {"stop", "done"}
    BY <1>11 DEF StartFails, StartupTimeout, ReplayV3, ReadBench,
      KeyboardInterrupt, Raise, Finish, Abort
  <2> QED
    BY <1>10, <2>1
<1>12. CASE StopSkip \/ StopTerminate \/ StopWaitLeader \/ StopGroupGone
              \/ StopGroupTimeout \/ StopKill \/ StopReap \/ StopReapTimeout
              \/ WriteManifest \/ WriteManifestFails \/ RecorderDies
  <2>1. pc' \in FinallyPoints \cup {"done"}
    BY <1>12 DEF StopSkip, StopTerminate, StopWaitLeader, StopGroupGone,
      StopGroupTimeout, StopKill, StopReap, StopReapTimeout, WriteManifest,
      WriteManifestFails, RecorderDies, StopNext, StopReturn, Abort, FinallyPoints
  <2> QED
    BY <1>10, <2>1 DEF FinallyPoints
<1>13. CASE UNCHANGED vars
  BY <1>13 DEF vars, group
<1> HIDE DEF StartInv
<1> QED
  BY <1>2, <1>3, <1>4, <1>5, <1>6, <1>7, <1>8, <1>9, <1>11, <1>12, <1>13
    DEF Next, Recorder

(* The recorder spawns a process that was not started, or reaps one.       *)
LEMMA LeaderFacts ==
  ASSUME TypeOK, StartInv, Recorder \/ KeyboardInterrupt \/ RecorderDies
  PROVE  \/ UNCHANGED leader
         \/ \E q \in Procs : Reap(q) \/ (Spawn(q) /\ leader[q] = "none")
<1>1. CASE UNCHANGED leader
  BY <1>1
<1>2. cur \in Procs /\ "workload" \in Procs
  BY DEF TypeOK, Procs
<1>3. CASE StartProcess \/ PollServer \/ WaitBench \/ StopWaitLeader \/ StopReap
  BY <1>2, <1>3 DEF StartProcess, PollServer, WaitBench, StopWaitLeader,
    StopReap, StartInv, TryPoints
<1>4. CASE KeyboardInterrupt
  BY <1>2, <1>4 DEF KeyboardInterrupt, StartInv, TryPoints
<1>5. CASE StartFails \/ ProbeAnswered \/ ProbeRefused \/ StartupTimeout
             \/ LoadWorkload \/ ReplayV3 \/ BenchDone \/ ReadBench
  BY <1>1, <1>5 DEF StartFails, ProbeAnswered, ProbeRefused, StartupTimeout,
    LoadWorkload, ReplayV3, BenchDone, ReadBench, group
<1>6. CASE StopSkip \/ StopTerminate \/ StopGroupGone \/ StopGroupTimeout
             \/ StopKill \/ StopReapTimeout \/ WriteManifest
             \/ WriteManifestFails \/ RecorderDies
  BY <1>1, <1>6 DEF StopSkip, StopTerminate, StopGroupGone, StopGroupTimeout,
    StopKill, StopReapTimeout, WriteManifest, WriteManifestFails,
    RecorderDies, group
<1> QED
  BY <1>3, <1>4, <1>5, <1>6 DEF Recorder

(* LMCache is started once, and exits with 0 with a complete trace.        *)
LEMMA ExitStep ==
  ASSUME IInv, StartInv, ExitInv, [Next]_vars
  PROVE  ExitInv'
<1> USE DEF ExitInv, Servers, Procs
<1>1. TypeOK
  BY DEF IInv
<1>2. CASE Recorder \/ KeyboardInterrupt \/ RecorderDies
  <2>1. UNCHANGED <<exit, trace>>
    BY <1>2, RecorderFacts
  <2>2. ASSUME NEW p \in Procs, leader'[p] \in {"none", "running"}
        PROVE  leader[p] \in {"none", "running"}
    <3>1. CASE UNCHANGED leader
      BY <2>2, <3>1
    <3>2. CASE \E q \in Procs : Reap(q) \/ (Spawn(q) /\ leader[q] = "none")
      BY <1>1, <2>2, <3>2 DEF Reap, Spawn, TypeOK
    <3>3. UNCHANGED leader \/ \E q \in Procs : Reap(q) \/ (Spawn(q) /\ leader[q] = "none")
      BY <1>1, <1>2, LeaderFacts
    <3> QED
      BY <3>1, <3>2, <3>3
  <2> QED
    BY <2>1, <2>2
<1>3. CASE Children
  <2> USE <1>1 DEF TypeOK, Exit
  <2>1. CASE \E s \in Servers : ServerReady(s)
    BY <2>1 DEF ServerReady
  <2>2. CASE \E p \in Procs : Crash(p) \/ WorkersExit(p) \/ KilledLeaderDies(p)
    BY <2>2 DEF Crash, WorkersExit, KilledLeaderDies
  <2>3. CASE FlushTrace \/ VllmExits \/ BenchFinishes \/ StoreDuringFlush
    BY <2>3 DEF FlushTrace, VllmExits, BenchFinishes, StoreDuringFlush, group
  <2> QED
    BY <1>3, <2>1, <2>2, <2>3 DEF Children
<1>4. CASE UNCHANGED vars
  BY <1>4 DEF vars, group
<1> HIDE DEF ExitInv
<1> QED
  BY <1>2, <1>3, <1>4 DEF Next

(* The manifest describes the trace as it stays.                           *)
LEMMA TraceStep ==
  ASSUME IInv, TraceInv, [Next]_vars
  PROVE  TraceInv'
<1> USE DEF TraceInv
<1>1. CASE Recorder \/ KeyboardInterrupt \/ RecorderDies
  <2>1. UNCHANGED trace
    BY <1>1, RecorderFacts
  <2>2. CASE WriteManifest
    BY <2>1, <2>2 DEF WriteManifest
  <2>3. CASE UNCHANGED <<manifest, handle>>
    BY <2>1, <2>3
  <2>4. manifest.written => pc = "done"
    BY DEF IInv, ManifestInv
  <2>5. UNCHANGED manifest \/ WriteManifest
    BY <1>1 DEF Recorder, KeyboardInterrupt, RecorderDies, StartProcess,
      StartFails, PollServer, ProbeAnswered, ProbeRefused, StartupTimeout,
      LoadWorkload, ReplayV3, WaitBench, BenchDone, ReadBench, StopSkip,
      StopTerminate, StopWaitLeader, StopGroupGone, StopGroupTimeout, StopKill,
      StopReap, StopReapTimeout, WriteManifestFails, outcome
  <2>6. UNCHANGED handle \/ pc # "done"
    BY <1>1 DEF Recorder, KeyboardInterrupt, RecorderDies, StartProcess,
      StartFails, PollServer, ProbeAnswered, ProbeRefused, StartupTimeout,
      LoadWorkload, ReplayV3, WaitBench, BenchDone, ReadBench, StopSkip,
      StopTerminate, StopWaitLeader, StopGroupGone, StopGroupTimeout, StopKill,
      StopReap, StopReapTimeout, WriteManifest, WriteManifestFails
  <2> QED
    BY <2>1, <2>2, <2>3, <2>4, <2>5, <2>6
<1>2. CASE Children
  <2>1. UNCHANGED <<manifest, handle>>
    BY <1>2, ChildrenFacts DEF IInv
  <2>2. manifest.written /\ handle["lmcache"] => leader["lmcache"] # "running"
    BY DEF IInv, ManifestInv, ManifestFollowsStop, Procs, Servers
  <2>3. manifest.written /\ handle["lmcache"] => trace' = trace
    BY <1>2, <2>2, ChildrenFacts DEF IInv
  <2> QED
    BY <2>1, <2>3
<1>3. CASE UNCHANGED vars
  BY <1>3 DEF vars, outcome
<1> HIDE DEF TraceInv
<1> QED
  BY <1>1, <1>2, <1>3 DEF Next

(* No exit of run_live without an error skips the workload or its check.   *)
LEMMA ReturnStep ==
  ASSUME IInv, StartInv, ReturnInv, [Next]_vars
  PROVE  ReturnInv'
<1> USE DEF ReturnInv, Recorded, FinallyPoints, Servers, Procs
<1>1. TypeOK
  BY DEF IInv
<1>2. CASE Children
  BY <1>1, <1>2, ChildrenFacts
<1>3. CASE StartProcess
  BY <1>1, <1>3 DEF StartProcess, outcome, TypeOK
<1>4. CASE StartFails \/ StartupTimeout
  BY <1>4 DEF StartFails, StartupTimeout, Raise
<1>5. CASE PollServer
  BY <1>5 DEF PollServer, Raise
<1>6. CASE ProbeAnswered
  BY <1>6 DEF ProbeAnswered, WorkloadPoint, outcome
<1>7. CASE ProbeRefused
  BY <1>7 DEF ProbeRefused, outcome
<1>8. CASE LoadWorkload
  BY <1>8 DEF LoadWorkload, Raise
<1>9. CASE ReplayV3
  BY <1>9 DEF ReplayV3, Raise, Finish, StartInv, TryPoints
<1>10. CASE WaitBench
  BY <1>10 DEF WaitBench
<1>11. CASE BenchDone
  BY <1>1, <1>11 DEF BenchDone, Raise, TypeOK
<1>12. CASE ReadBench
  BY <1>12 DEF ReadBench, Raise, Finish, StartInv, TryPoints
<1>13. CASE StopSkip \/ StopTerminate \/ StopWaitLeader \/ StopGroupTimeout \/ StopKill
  BY <1>13 DEF StopSkip, StopTerminate, StopWaitLeader, StopGroupTimeout,
    StopKill, StopNext, outcome
<1>14. CASE StopGroupGone \/ StopReap
  <2>1. handle[cur] /\ cur \in Procs
    BY <1>1, <1>14 DEF StopGroupGone, StopReap, IInv, StopInv, TypeOK
  <2> QED
    BY <1>1, <1>14, <2>1 DEF StopGroupGone, StopReap, StopReturn, StopNext, TypeOK
<1>15. CASE WriteManifest
  BY <1>15 DEF WriteManifest
<1>16. CASE StopReapTimeout \/ WriteManifestFails \/ RecorderDies
  BY <1>16 DEF StopReapTimeout, WriteManifestFails, RecorderDies, Abort
<1>17. CASE KeyboardInterrupt
  BY <1>17 DEF KeyboardInterrupt, Raise, Abort, TryPoints
<1>18. CASE UNCHANGED vars
  BY <1>18 DEF vars, outcome
<1> HIDE DEF ReturnInv
<1> QED
  BY <1>2, <1>3, <1>4, <1>5, <1>6, <1>7, <1>8, <1>9, <1>10, <1>11, <1>12,
    <1>13, <1>14, <1>15, <1>16, <1>17, <1>18
    DEF Next, Recorder

(* The order of the starts, the trace and the outcome, throughout a run.   *)
LEMMA RunInductive == Spec => [](IInv /\ RunInv)
<1>1. Init => IInv /\ RunInv
  BY InvInit DEF Init, RunInv, StartInv, ExitInv, TraceInv, ReturnInv, TryPoints,
    FinallyPoints, NoManifest, Servers, Procs
<1>2. IInv /\ RunInv /\ [Next]_vars => (IInv /\ RunInv)'
  BY InvStep, StartStep, ExitStep, TraceStep, ReturnStep DEF RunInv
<1> QED
  BY <1>1, <1>2, PTL DEF Spec

(* What manifest.json says of the trace is final, and return code 0 of     *)
(* LMCache means that the trace has its end marker.                        *)
THEOREM ManifestTrace == Spec => []ManifestTraceIsFinal
<1>1. IInv /\ RunInv => ManifestTraceIsFinal
  BY DEF IInv, RunInv, ManifestInv, ManifestFollowsStop, TraceInv, ExitInv,
    ManifestTraceIsFinal, Procs, Servers
<1> QED
  BY <1>1, RunInductive, PTL

(* run_live returns without an exception only when the run is recorded in  *)
(* full, whenever it is interrupted and whatever its children do.          *)
THEOREM ReturnIsRecorded == Spec => []ReturnMeansRecorded
<1>1. IInv /\ RunInv => ReturnMeansRecorded
  BY DEF IInv, RunInv, ManifestInv, ManifestFollowsStop, ReturnInv,
    ReturnMeansRecorded, Procs, Servers
<1> QED
  BY <1>1, RunInductive, PTL

-----------------------------------------------------------------------------
(* RecordSweep.                                                            *)

(* A set of naturals that is not empty has a least one.                    *)
LEMMA LeastOf ==
  ASSUME NEW T \in SUBSET Nat, T # {}
  PROVE  \E i \in T : \A j \in T : i <= j
<1>1. PICK x \in T : \A y \in T : ~(<<y, x>> \in OpToRel(<, Nat))
  BY NatLessThanWellFounded, WFMin
<1>2. \A y \in T : ~(y < x)
  BY <1>1 DEF OpToRel
<1> QED
  BY <1>2

-----------------------------------------------------------------------------
(* What a chain of files is.                                               *)

(* g gives the files above f, up to distance n.                            *)
IsUp(g, f, n) == g = [i \in 0 .. n |-> IF i = 0 THEN f ELSE contents[g[i - 1]].extends]

(* There are files above f up to every distance.                           *)
LEMMA UpExists ==
  ASSUME NEW f, NEW n \in Nat
  PROVE  \E g : IsUp(g, f, n)
<1> DEFINE T == {m \in Nat : ~\E g : IsUp(g, f, m)}
<1> SUFFICES ASSUME T # {} PROVE FALSE
  OBVIOUS
<1>1. PICK m \in T : \A j \in T : m <= j
  BY LeastOf
<1>2. m # 0
  <2>1. IsUp([i \in 0 .. 0 |-> f], f, 0)
    BY DEF IsUp
  <2> QED
    BY <2>1
<1>3. m \in Nat /\ m - 1 \in Nat /\ m - 1 \notin T
  BY <1>1, <1>2
<1>4. PICK g : IsUp(g, f, m - 1)
  BY <1>3
<1> DEFINE h == [i \in 0 .. m |-> IF i = m THEN contents[g[m - 1]].extends ELSE g[i]]
<1>5. IsUp(h, f, m)
  <2>1. ASSUME NEW i \in 0 .. m
        PROVE  h[i] = IF i = 0 THEN f ELSE contents[h[i - 1]].extends
    <3>1. CASE i = 0
      <4>1. h[i] = g[0]
        BY <1>2, <1>3, <3>1
      <4>2. g[0] = f
        BY <1>2, <1>3, <1>4 DEF IsUp
      <4> QED
        BY <4>1, <4>2, <3>1
    <3>2. CASE i # 0 /\ i # m
      <4>1. i \in 0 .. m - 1 /\ i - 1 \in 0 .. m - 1
        BY <1>3, <3>2
      <4>2. h[i] = g[i] /\ h[i - 1] = g[i - 1]
        BY <4>1, <1>3
      <4>3. g[i] = contents[g[i - 1]].extends
        BY <4>1, <3>2, <1>4 DEF IsUp
      <4> QED
        BY <4>2, <4>3, <3>2
    <3>3. CASE i = m
      <4>1. h[i] = contents[g[m - 1]].extends /\ h[i - 1] = g[m - 1]
        BY <3>3, <1>3, <1>2
      <4> QED
        BY <4>1, <3>3, <1>2
    <3> QED
      BY <3>1, <3>2, <3>3
  <2>2. h = [i \in 0 .. m |-> h[i]]
    OBVIOUS
  <2> HIDE DEF h
  <2>3. h = [i \in 0 .. m |-> IF i = 0 THEN f ELSE contents[h[i - 1]].extends]
    BY <2>1, <2>2
  <2> QED
    BY <2>3 DEF IsUp
<1> QED
  BY <1>1, <1>5

(* Two such functions agree as far as both go.                             *)
LEMMA UpUnique ==
  ASSUME NEW f, NEW m \in Nat, NEW n \in Nat, NEW g, NEW h, IsUp(g, f, m), IsUp(h, f, n)
  PROVE  \A i \in 0 .. m : i \in 0 .. n => g[i] = h[i]
<1> DEFINE T == {i \in Nat : i <= m /\ i <= n /\ g[i] # h[i]}
<1> SUFFICES ASSUME T # {} PROVE FALSE
  OBVIOUS
<1>1. PICK i \in T : \A j \in T : i <= j
  BY LeastOf
<1>2. i \in 0 .. m /\ i \in 0 .. n /\ g[i] # h[i]
  BY <1>1
<1>3. g[i] = IF i = 0 THEN f ELSE contents[g[i - 1]].extends
  BY <1>2 DEF IsUp
<1>4. h[i] = IF i = 0 THEN f ELSE contents[h[i - 1]].extends
  BY <1>2 DEF IsUp
<1>5. i # 0
  BY <1>2, <1>3, <1>4
<1>6. i - 1 \in Nat /\ i - 1 <= m /\ i - 1 <= n /\ i - 1 \notin T
  BY <1>1, <1>2, <1>5
<1>7. g[i - 1] = h[i - 1]
  BY <1>6
<1> QED
  BY <1>2, <1>3, <1>4, <1>5, <1>7

(* Above is the last value of one.                                         *)
LEMMA AboveUp ==
  ASSUME NEW f, NEW n \in Nat
  PROVE  \E g : IsUp(g, f, n) /\ Above(f, n) = g[n]
<1> DEFINE up == CHOOSE g : g = [i \in 0 .. n |-> IF i = 0 THEN f ELSE contents[g[i - 1]].extends]
<1>1. up = [i \in 0 .. n |-> IF i = 0 THEN f ELSE contents[up[i - 1]].extends]
  BY UpExists DEF IsUp
<1>2. Above(f, n) = up[n]
  BY DEF Above
<1> HIDE DEF up
<1> QED
  BY <1>1, <1>2 DEF IsUp

(* Distance 0 is the file itself, n + 1 what the file at n extends.        *)
LEMMA AboveSteps ==
  ASSUME NEW f
  PROVE  /\ Above(f, 0) = f
         /\ \A n \in Nat : Above(f, n + 1) = contents[Above(f, n)].extends
<1>1. Above(f, 0) = f
  BY AboveUp DEF IsUp
<1>2. ASSUME NEW n \in Nat
      PROVE  Above(f, n + 1) = contents[Above(f, n)].extends
  <2>1. PICK g : IsUp(g, f, n) /\ Above(f, n) = g[n]
    BY AboveUp
  <2>2. PICK h : IsUp(h, f, n + 1) /\ Above(f, n + 1) = h[n + 1]
    BY AboveUp
  <2>3. g[n] = h[n]
    BY <2>1, <2>2, UpUnique
  <2>4. h[n + 1] = contents[h[n]].extends
    BY <2>2 DEF IsUp
  <2> QED
    BY <2>1, <2>2, <2>3, <2>4
<1> QED
  BY <1>1, <1>2

(* What is above f is above the file f extends, one nearer.                *)
LEMMA AboveShift ==
  ASSUME NEW f
  PROVE  \A n \in Nat : Above(f, n + 1) = Above(contents[f].extends, n)
<1> DEFINE T == {n \in Nat : Above(f, n + 1) # Above(contents[f].extends, n)}
<1> SUFFICES ASSUME T # {} PROVE FALSE
  OBVIOUS
<1>1. PICK n \in T : \A j \in T : n <= j
  BY LeastOf
<1>2. n \in Nat /\ Above(f, n + 1) # Above(contents[f].extends, n)
  BY <1>1
<1>3. n # 0
  <2>1. Above(contents[f].extends, 0) = contents[f].extends
    BY AboveSteps
  <2>2. Above(f, 0) = f /\ Above(f, 0 + 1) = contents[Above(f, 0)].extends
    BY AboveSteps
  <2> QED
    BY <1>2, <2>1, <2>2
<1>4. n - 1 \in Nat /\ n - 1 \notin T
  BY <1>1, <1>3
<1>5. Above(f, n - 1 + 1) = Above(contents[f].extends, n - 1)
  BY <1>4
<1>6. Above(f, n + 1) = contents[Above(f, n)].extends
  BY <1>2, AboveSteps
<1>7. Above(contents[f].extends, n - 1 + 1) = contents[Above(contents[f].extends, n - 1)].extends
  BY <1>4, AboveSteps
<1>8. n - 1 + 1 = n
  BY <1>2
<1> QED
  BY <1>2, <1>5, <1>6, <1>7, <1>8

(* There are finitely many files.                                          *)
LEMMA CardinalityOfFiles == Cardinality(Files) \in Nat
BY ChainAssumption, FS_CardinalityType

(* The depth of a file is the distance of the one that extends none.       *)
LEMMA DepthIs ==
  ASSUME NEW f, NEW n, Chained(f, n)
  PROVE  n \in Nat /\ Depth(f) = n
<1>1. n \in Tops(f) /\ Tops(f) \subseteq Nat
  BY CardinalityOfFiles DEF Chained, Tops
<1>2. ASSUME NEW i \in Tops(f)
      PROVE  n <= i
  <2>1. n \in Nat /\ i \in Nat /\ contents[Above(f, i)].extends = None
    BY <1>1 DEF Tops
  <2>2. i \notin 0 .. n - 1
    BY <2>1 DEF Chained
  <2> QED
    BY <2>1, <2>2
<1>3. \A k \in Tops(f) : (\A i \in Tops(f) : k <= i) <=> k = n
  BY <1>1, <1>2
<1>4. Min(Tops(f)) = n
  BY <1>1, <1>3 DEF Min
<1> QED
  BY <1>1, <1>4 DEF Depth

(* A file that extends none is its own chain.                              *)
LEMMA ChainEnds ==
  ASSUME NEW f \in Files, contents[f] # None, contents[f].extends = None
  PROVE  Chained(f, 0)
<1>1. Above(f, 0) = f
  BY AboveSteps
<1>2. 0 \in 0 .. Cardinality(Files)
  BY CardinalityOfFiles
<1> QED
  BY <1>1, <1>2 DEF Chained

(* A file that extends the first of a chain makes it one longer.           *)
LEMMA ChainExtends ==
  ASSUME NEW f, NEW n, Chained(f, n), n + 1 <= Cardinality(Files),
         NEW g \in Files, contents[g] # None, contents[g].extends = f, f # None
  PROVE  Chained(g, n + 1)
<1>1. n \in Nat
  BY DepthIs
<1>2. Above(g, 0) = g
  BY AboveSteps
<1>3. \A i \in Nat : Above(g, i + 1) = Above(f, i)
  BY AboveShift
<1>4. \A i \in 0 .. n + 1 : i = 0 \/ (i - 1 \in 0 .. n /\ i = (i - 1) + 1)
  BY <1>1
<1>5. \A i \in 0 .. n + 1 : Above(g, i) \in Files /\ contents[Above(g, i)] # None
  BY <1>1, <1>2, <1>3, <1>4 DEF Chained
<1>6. contents[Above(g, n + 1)].extends = None
  BY <1>1, <1>3 DEF Chained
<1>7. ASSUME NEW i \in 0 .. n + 1 - 1
      PROVE  contents[Above(g, i)].extends # None
  <2>1. CASE i = 0
    BY <2>1, <1>2
  <2>2. CASE i # 0
    <3>1. i - 1 \in 0 .. n - 1 /\ i - 1 \in Nat /\ i = (i - 1) + 1
      BY <2>2, <1>1
    <3>2. Above(g, i) = Above(f, i - 1)
      BY <3>1, <1>3
    <3> QED
      BY <3>1, <3>2 DEF Chained
  <2> QED
    BY <2>1, <2>2
<1>8. n + 1 \in 0 .. Cardinality(Files)
  BY <1>1, CardinalityOfFiles
<1> QED
  BY <1>5, <1>6, <1>7, <1>8 DEF Chained

-----------------------------------------------------------------------------
(* What merging does.                                                      *)

(* m is what the file f and those above it say: NearestWins of any result. *)
Merges(f, m) ==
  /\ \A s \in DOMAIN m :
       IF m[s] = None
         THEN \E i \in 0 .. Depth(f) :
                /\ Says(f, i, s) /\ Section(f, i, s) = None
                /\ \A j \in 0 .. i - 1 : ~Says(f, j, s)
         ELSE \A k \in DOMAIN m[s] : \E i \in Nearest(f, s, k) : m[s][k] = Section(f, i, s)[k]
  /\ \A i \in 0 .. Depth(f) : \A s : Says(f, i, s) =>
       /\ s \in DOMAIN m
       /\ Section(f, i, s) # None => \A k \in DOMAIN Section(f, i, s) :
            i \in Nearest(f, s, k) => m[s] # None /\ k \in DOMAIN m[s]

(* The sections of m are mappings or null.                                 *)
Mappings(m) == \A s \in DOMAIN m : s \in DOMAIN Sections /\ m[s] \in Sections[s] \cup {None}

(* The settings of a file are mappings.                                    *)
LEMMA SettingsAreMappings ==
  ASSUME contents \in Contents, NEW f \in Files, contents[f] # None
  PROVE  Mappings(contents[f].settings)
<1>1. contents[f].settings \in Settings
  BY DEF Contents
<1> QED
  BY <1>1, ChainAssumption DEF Mappings

(* Merging mappings gives mappings.                                        *)
LEMMA MergeMappings ==
  ASSUME NEW m, NEW h, Mappings(m), Mappings(h)
  PROVE  Mappings(Merge(m, h))
<1>1. ASSUME NEW s \in DOMAIN Merge(m, h)
      PROVE  s \in DOMAIN Sections /\ Merge(m, h)[s] \in Sections[s] \cup {None}
  <2>1. s \in DOMAIN m \cup DOMAIN h
    BY DEF Merge
  <2>2. CASE s \notin DOMAIN h
    <3>1. Merge(m, h)[s] = m[s]
      BY <2>1, <2>2 DEF Merge
    <3> QED
      BY <2>1, <2>2, <3>1 DEF Mappings
  <2>3. CASE s \in DOMAIN h /\ s \in DOMAIN m /\ m[s] # None /\ h[s] # None
    <3>1. Merge(m, h)[s] = Over(h[s], m[s])
      BY <2>3 DEF Merge
    <3>2. s \in DOMAIN Sections /\ h[s] \in Sections[s] /\ m[s] \in Sections[s]
      BY <2>3 DEF Mappings
    <3>3. Over(h[s], m[s]) \in Sections[s]
      BY <3>2, ChainAssumption
    <3> QED
      BY <3>1, <3>2, <3>3
  <2>4. CASE s \in DOMAIN h /\ ~(s \in DOMAIN m /\ m[s] # None /\ h[s] # None)
    <3>1. Merge(m, h)[s] = h[s]
      BY <2>4 DEF Merge
    <3> QED
      BY <2>4, <3>1 DEF Mappings
  <2> QED
    BY <2>2, <2>3, <2>4
<1> QED
  BY <1>1 DEF Mappings

(* The last file of a chain is what its load returns.                      *)
LEMMA MergesEnd ==
  ASSUME NEW f, Chained(f, 0)
  PROVE  Merges(f, contents[f].settings)
<1>1. Depth(f) = 0 /\ Above(f, 0) = f
  BY DepthIs, AboveSteps
<1>2. 0 .. 0 = {0} /\ 0 .. 0 - 1 = {}
  OBVIOUS
<1> DEFINE m == contents[f].settings
<1>3. \A s : (Says(f, 0, s) <=> s \in DOMAIN m) /\ Section(f, 0, s) = m[s]
  BY <1>1 DEF Says, Section
<1>4. \A s \in DOMAIN m : m[s] # None => \A k \in DOMAIN m[s] : 0 \in Nearest(f, s, k)
  BY <1>1, <1>2, <1>3 DEF Nearest
<1>5. \A s \in DOMAIN m :
       IF m[s] = None
         THEN \E i \in 0 .. Depth(f) :
                /\ Says(f, i, s) /\ Section(f, i, s) = None
                /\ \A j \in 0 .. i - 1 : ~Says(f, j, s)
         ELSE \A k \in DOMAIN m[s] : \E i \in Nearest(f, s, k) : m[s][k] = Section(f, i, s)[k]
  BY <1>1, <1>2, <1>3, <1>4
<1>6. \A i \in 0 .. Depth(f) : \A s : Says(f, i, s) =>
       /\ s \in DOMAIN m
       /\ Section(f, i, s) # None => \A k \in DOMAIN Section(f, i, s) :
            i \in Nearest(f, s, k) => m[s] # None /\ k \in DOMAIN m[s]
  BY <1>1, <1>2, <1>3
<1> QED
  BY <1>5, <1>6 DEF Merges

(* The distances of a file that extends f are those of f, one further.     *)
LEMMA NearestShift ==
  ASSUME NEW f, NEW n, Chained(f, n), NEW g, Chained(g, n + 1), contents[g].extends = f
  PROVE  /\ \A s : Says(g, 0, s) <=> s \in DOMAIN contents[g].settings
         /\ \A s : Section(g, 0, s) = contents[g].settings[s]
         /\ \A i \in Nat : \A s : (Says(g, i + 1, s) <=> Says(f, i, s)) /\ Section(g, i + 1, s) = Section(f, i, s)
         /\ \A s, k : 0 \in Nearest(g, s, k) <=>
                        Says(g, 0, s) /\ Section(g, 0, s) # None /\ k \in DOMAIN Section(g, 0, s)
         /\ \A s, k : \A i \in Nat : i + 1 \in Nearest(g, s, k) <=>
              /\ i \in Nearest(f, s, k)
              /\ Says(g, 0, s) => Section(g, 0, s) # None /\ k \notin DOMAIN Section(g, 0, s)
<1>1. n \in Nat /\ Depth(f) = n /\ Depth(g) = n + 1
  BY DepthIs
<1>2. Above(g, 0) = g /\ \A i \in Nat : Above(g, i + 1) = Above(f, i)
  BY AboveSteps, AboveShift
<1>3. \A s : (Says(g, 0, s) <=> s \in DOMAIN contents[g].settings) /\ Section(g, 0, s) = contents[g].settings[s]
  BY <1>2 DEF Says, Section
<1>4. \A i \in Nat : \A s : (Says(g, i + 1, s) <=> Says(f, i, s)) /\ Section(g, i + 1, s) = Section(f, i, s)
  BY <1>2 DEF Says, Section
<1>5. ASSUME NEW s, NEW k
      PROVE  0 \in Nearest(g, s, k) <=>
               Says(g, 0, s) /\ Section(g, 0, s) # None /\ k \in DOMAIN Section(g, 0, s)
  <2>1. 0 \in 0 .. Depth(g) /\ 0 .. 0 - 1 = {}
    BY <1>1
  <2> QED
    BY <2>1 DEF Nearest
<1>6. ASSUME NEW s, NEW k, NEW i \in Nat
      PROVE  i + 1 \in Nearest(g, s, k) <=>
              /\ i \in Nearest(f, s, k)
              /\ Says(g, 0, s) => Section(g, 0, s) # None /\ k \notin DOMAIN Section(g, 0, s)
  <2> DEFINE Drops(h, j) == Says(h, j, s) => Section(h, j, s) # None /\ k \notin DOMAIN Section(h, j, s)
             Has(h, j) == Says(h, j, s) /\ Section(h, j, s) # None /\ k \in DOMAIN Section(h, j, s)
  <2>1. i + 1 \in 0 .. Depth(g) <=> i \in 0 .. Depth(f)
    BY <1>1
  <2>2. Has(g, i + 1) <=> Has(f, i)
    BY <1>4
  <2>3. \A j \in Nat : Drops(g, j + 1) <=> Drops(f, j)
    BY <1>4
  <2>4. (\A j \in 0 .. i + 1 - 1 : Drops(g, j)) <=> Drops(g, 0) /\ \A j \in 0 .. i - 1 : Drops(f, j)
    <3> HIDE DEF Drops
    <3>1. ASSUME \A j \in 0 .. i + 1 - 1 : Drops(g, j)
          PROVE  Drops(g, 0) /\ \A j \in 0 .. i - 1 : Drops(f, j)
      <4>1. 0 \in 0 .. i + 1 - 1 /\ \A j \in 0 .. i - 1 : j \in Nat /\ j + 1 \in 0 .. i + 1 - 1
        OBVIOUS
      <4> QED
        BY <3>1, <4>1, <2>3
    <3>2. ASSUME Drops(g, 0), \A j \in 0 .. i - 1 : Drops(f, j)
          PROVE  \A j \in 0 .. i + 1 - 1 : Drops(g, j)
      <4>1. ASSUME NEW j \in 0 .. i + 1 - 1, j # 0
            PROVE  Drops(g, j)
        <5>1. j - 1 \in Nat /\ j - 1 \in 0 .. i - 1 /\ j = (j - 1) + 1
          BY <4>1
        <5> QED
          BY <5>1, <3>2, <2>3
      <4> QED
        BY <4>1, <3>2
    <3> QED
      BY <3>1, <3>2
  <2>5. i + 1 \in Nearest(g, s, k) <=>
          /\ i + 1 \in 0 .. Depth(g) /\ Has(g, i + 1) /\ \A j \in 0 .. i + 1 - 1 : Drops(g, j)
    BY DEF Nearest
  <2>6. i \in Nearest(f, s, k) <=>
          /\ i \in 0 .. Depth(f) /\ Has(f, i) /\ \A j \in 0 .. i - 1 : Drops(f, j)
    BY DEF Nearest
  <2>7. Drops(g, 0) <=> (Says(g, 0, s) => Section(g, 0, s) # None /\ k \notin DOMAIN Section(g, 0, s))
    OBVIOUS
  <2> HIDE DEF Drops, Has
  <2> QED
    BY <2>1, <2>2, <2>4, <2>5, <2>6, <2>7
<1> QED
  BY <1>3, <1>4, <1>5, <1>6

(* Merging the settings of the file that extends f over what the chain of  *)
(* f says gives what its own chain says.                                   *)
LEMMA MergesExtend ==
  ASSUME NEW f, NEW n, Chained(f, n), NEW g, Chained(g, n + 1), contents[g].extends = f,
         NEW m, Mappings(m), Merges(f, m), Mappings(contents[g].settings)
  PROVE  Merges(g, Merge(m, contents[g].settings))
<1> DEFINE h == contents[g].settings
           r == Merge(m, h)
<1>1. n \in Nat /\ Depth(f) = n /\ Depth(g) = n + 1
  BY DepthIs
<1>2. \A s : (Says(g, 0, s) <=> s \in DOMAIN h) /\ Section(g, 0, s) = h[s]
  BY NearestShift
<1>3. \A i \in Nat : \A s : (Says(g, i + 1, s) <=> Says(f, i, s)) /\ Section(g, i + 1, s) = Section(f, i, s)
  BY NearestShift
<1>4. \A s, k : 0 \in Nearest(g, s, k) <=> s \in DOMAIN h /\ h[s] # None /\ k \in DOMAIN h[s]
  BY <1>2, NearestShift
<1>5. ASSUME NEW s, NEW k, NEW i \in Nat, NEW d, d = i + 1
      PROVE  d \in Nearest(g, s, k) <=>
               i \in Nearest(f, s, k) /\ (s \in DOMAIN h => h[s] # None /\ k \notin DOMAIN h[s])
  <2>1. i + 1 \in Nearest(g, s, k) <=>
          /\ i \in Nearest(f, s, k)
          /\ Says(g, 0, s) => Section(g, 0, s) # None /\ k \notin DOMAIN Section(g, 0, s)
    BY NearestShift
  <2> QED
    BY <2>1, <1>2, <1>5
<1>6. \A s, k : Nearest(f, s, k) \subseteq 0 .. n
  BY <1>1 DEF Nearest
<1>7. \A i, s : Says(f, i, s) <=> s \in DOMAIN contents[Above(f, i)].settings
  BY DEF Says
<1>8. \A i, s : Says(g, i, s) <=> s \in DOMAIN contents[Above(g, i)].settings
  BY DEF Says
<1>9. DOMAIN r = DOMAIN m \cup DOMAIN h
  BY DEF Merge
<1>10. \A s \in DOMAIN m : s \notin DOMAIN h => r[s] = m[s]
  BY DEF Merge
<1>11. \A s \in DOMAIN h :
         r[s] = IF s \in DOMAIN m /\ m[s] # None /\ h[s] # None THEN Over(h[s], m[s]) ELSE h[s]
  BY DEF Merge
<1>12. \A s \in DOMAIN h : s \in DOMAIN m /\ m[s] # None /\ h[s] # None => r[s] # None
  BY <1>11, ChainAssumption DEF Mappings
<1>13. \A s \in DOMAIN m :
         IF m[s] = None
         THEN \E i \in 0 .. n :
                /\ Says(f, i, s) /\ Section(f, i, s) = None
                /\ \A j \in 0 .. i - 1 : ~Says(f, j, s)
         ELSE \A k \in DOMAIN m[s] : \E i \in Nearest(f, s, k) : m[s][k] = Section(f, i, s)[k]
  BY <1>1 DEF Merges
<1>14. \A i \in 0 .. n : \A s : Says(f, i, s) =>
         /\ s \in DOMAIN m
         /\ Section(f, i, s) # None => \A k \in DOMAIN Section(f, i, s) :
              i \in Nearest(f, s, k) => m[s] # None /\ k \in DOMAIN m[s]
  BY <1>1, <1>7 DEF Merges
<1> HIDE DEF h, r
<1>15. ASSUME NEW s \in DOMAIN r, r[s] = None
       PROVE  \E i \in 0 .. n + 1 :
                /\ Says(g, i, s) /\ Section(g, i, s) = None
                /\ \A j \in 0 .. i - 1 : ~Says(g, j, s)
  <2>1. CASE s \in DOMAIN h
    <3>1. h[s] = None
      BY <2>1, <1>11, <1>12, <1>15
    <3>2. Says(g, 0, s) /\ Section(g, 0, s) = None /\ 0 .. 0 - 1 = {} /\ 0 \in 0 .. n + 1
      BY <2>1, <3>1, <1>1, <1>2
    <3> QED
      BY <3>2
  <2>2. CASE s \notin DOMAIN h
    <3>1. s \in DOMAIN m /\ m[s] = None
      BY <2>2, <1>9, <1>10, <1>15
    <3>2. PICK i \in 0 .. n : /\ Says(f, i, s) /\ Section(f, i, s) = None
                              /\ \A j \in 0 .. i - 1 : ~Says(f, j, s)
      BY <3>1, <1>13
    <3>3. i \in Nat /\ i + 1 \in 0 .. n + 1 /\ Says(g, i + 1, s) /\ Section(g, i + 1, s) = None
      BY <3>2, <1>1, <1>3
    <3>4. ASSUME NEW j \in 0 .. i + 1 - 1
          PROVE  ~Says(g, j, s)
      <4>1. CASE j = 0
        BY <4>1, <2>2, <1>2
      <4>2. CASE j # 0
        <5>1. j - 1 \in 0 .. i - 1 /\ j - 1 \in Nat /\ j = (j - 1) + 1
          BY <4>2, <3>3
        <5> QED
          BY <5>1, <3>2, <1>3
      <4> QED
        BY <4>1, <4>2
    <3> QED
      BY <3>3, <3>4
  <2> QED
    BY <2>1, <2>2
<1>16. ASSUME NEW s \in DOMAIN r, r[s] # None, NEW k \in DOMAIN r[s]
       PROVE  \E i \in Nearest(g, s, k) : r[s][k] = Section(g, i, s)[k]
  <2>1. CASE s \in DOMAIN h /\ h[s] # None /\ k \in DOMAIN h[s]
    <3>1. 0 \in Nearest(g, s, k) /\ Section(g, 0, s) = h[s]
      BY <2>1, <1>2, <1>4
    <3>2. r[s][k] = h[s][k]
      BY <2>1, <1>11 DEF Over
    <3> QED
      BY <3>1, <3>2
  <2>2. CASE ~(s \in DOMAIN h /\ h[s] # None /\ k \in DOMAIN h[s])
    <3>1. /\ s \in DOMAIN m /\ m[s] # None /\ k \in DOMAIN m[s] /\ r[s][k] = m[s][k]
          /\ s \in DOMAIN h => h[s] # None /\ k \notin DOMAIN h[s]
      <4>1. CASE s \notin DOMAIN h
        BY <4>1, <1>9, <1>10, <1>16
      <4>2. CASE s \in DOMAIN h
        <5>1. h[s] # None /\ k \notin DOMAIN h[s]
          BY <4>2, <2>2, <1>11, <1>16
        <5>2. s \in DOMAIN m /\ m[s] # None
          BY <4>2, <5>1, <1>11, <1>16
        <5>3. r[s] = Over(h[s], m[s])
          BY <4>2, <5>1, <5>2, <1>11
        <5>4. k \in DOMAIN m[s] \ DOMAIN h[s]
          BY <5>1, <5>3, <1>16 DEF Over
        <5>5. Over(h[s], m[s])[k] = m[s][k]
          BY <5>4 DEF Over
        <5> QED
          BY <4>2, <5>1, <5>2, <5>3, <5>4, <5>5
      <4> QED
        BY <4>1, <4>2
    <3>2. PICK i \in Nearest(f, s, k) : m[s][k] = Section(f, i, s)[k]
      BY <3>1, <1>13
    <3>3. i \in Nat
      BY <1>6, <1>1
    <3>4. i + 1 \in Nearest(g, s, k)
      BY <3>1, <3>3, <1>5
    <3>5. Section(g, i + 1, s) = Section(f, i, s)
      BY <3>3, <1>3
    <3> QED
      BY <3>1, <3>2, <3>4, <3>5
  <2> QED
    BY <2>1, <2>2
<1>17. ASSUME NEW i \in 0 .. n + 1, NEW s, Says(g, i, s)
       PROVE  /\ s \in DOMAIN r
              /\ Section(g, i, s) # None => \A k \in DOMAIN Section(g, i, s) :
                   i \in Nearest(g, s, k) => r[s] # None /\ k \in DOMAIN r[s]
  <2>1. CASE i = 0
    <3>1. s \in DOMAIN h /\ Section(g, i, s) = h[s]
      BY <2>1, <1>2, <1>17
    <3>2. h[s] # None => r[s] # None /\ DOMAIN h[s] \subseteq DOMAIN r[s]
      BY <3>1, <1>11, <1>12 DEF Over
    <3> QED
      BY <3>1, <3>2, <1>9
  <2>2. CASE i # 0
    <3> DEFINE d == i - 1
    <3>1. d \in 0 .. n /\ d \in Nat /\ i = d + 1
      BY <2>2, <1>1
    <3> HIDE DEF d
    <3>2. Says(f, d, s) /\ Section(g, i, s) = Section(f, d, s)
      BY <3>1, <1>3, <1>17
    <3>3. s \in DOMAIN m /\ s \in DOMAIN r
      BY <3>1, <3>2, <1>14, <1>9
    <3>4. ASSUME Section(g, i, s) # None, NEW k \in DOMAIN Section(g, i, s), i \in Nearest(g, s, k)
          PROVE  r[s] # None /\ k \in DOMAIN r[s]
      <4>1. d \in Nearest(f, s, k) /\ (s \in DOMAIN h => h[s] # None /\ k \notin DOMAIN h[s])
        BY <3>1, <3>4, <1>5
      <4>2. m[s] # None /\ k \in DOMAIN m[s]
        BY <3>1, <3>2, <3>4, <4>1, <1>14
      <4>3. CASE s \notin DOMAIN h
        BY <4>2, <4>3, <3>3, <1>10
      <4>4. CASE s \in DOMAIN h
        <5>1. r[s] = Over(h[s], m[s]) /\ r[s] # None
          BY <4>1, <4>2, <4>4, <3>3, <1>11, <1>12
        <5> QED
          BY <5>1, <4>2 DEF Over
      <4> QED
        BY <4>3, <4>4
    <3> QED
      BY <3>3, <3>4
  <2> QED
    BY <2>1, <2>2
<1>18. \A s \in DOMAIN r :
       IF r[s] = None
         THEN \E i \in 0 .. Depth(g) :
                /\ Says(g, i, s) /\ Section(g, i, s) = None
                /\ \A j \in 0 .. i - 1 : ~Says(g, j, s)
         ELSE \A k \in DOMAIN r[s] : \E i \in Nearest(g, s, k) : r[s][k] = Section(g, i, s)[k]
  BY <1>1, <1>15, <1>16
<1>19. \A i \in 0 .. Depth(g) : \A s : Says(g, i, s) =>
       /\ s \in DOMAIN r
       /\ Section(g, i, s) # None => \A k \in DOMAIN Section(g, i, s) :
            i \in Nearest(g, s, k) => r[s] # None /\ k \in DOMAIN r[s]
  BY <1>1, <1>8, <1>17
<1>20. Merges(g, r)
  BY <1>18, <1>19 DEF Merges
<1> QED
  BY <1>20 DEF r, h

(* What a load has behind it: the files that wait, each of which extends   *)
(* the next one; and what the calls that have returned say of the rest.    *)
Waiting ==
  \A i \in DOMAIN ancestry :
    /\ contents[ancestry[i]] # None /\ contents[ancestry[i]].extends # None
    /\ contents[ancestry[i]].extends = IF i = Len(ancestry) THEN file ELSE ancestry[i + 1]

(* What has returned is the merged chain of the file that was read last.   *)
Returned ==
  \E n \in Nat : /\ Chained(file, n) /\ Len(ancestry) + n + 1 <= Cardinality(Files)
                 /\ Merges(file, merged)

(* The file the load began with.                                           *)
Root == IF ancestry = <<>> THEN file ELSE ancestry[1]

(* The inductive invariant of load_config.                                 *)
LoadInv ==
  /\ NoFileTwice
  /\ load \in {"open", "return"} => Waiting
  /\ load \in {"return", "loaded"} => Returned /\ Mappings(merged)
  /\ load = "loaded" => ancestry = <<>>

(* A configuration does not change: it means afterwards what it meant      *)
(* before.                                                                 *)
LEMMA MeaningIsKept ==
  ASSUME contents' = contents, NEW n \in Nat, Chained(file', n), Merges(file', merged'),
         Len(ancestry') + n + 1 <= Cardinality(Files)
  PROVE  Returned'
<1>1. Chained(file, n)'
  BY DEF Chained, Above
<1>2. Merges(file, merged)'
  <2>1. Tops(file)' = Tops(file')
    <3>1. \A k : Above(file, k)' = Above(file', k)
      BY DEF Above
    <3> QED
      BY <3>1 DEF Tops
  <2>2. Depth(file)' = Depth(file')
    BY <2>1 DEF Depth
  <2>3. \A i, s : Says(file, i, s)' <=> Says(file', i, s)
    BY DEF Says, Above
  <2>4. \A i, s : Section(file, i, s)' = Section(file', i, s)
    BY DEF Section, Above
  <2>5. \A s, k : Nearest(file, s, k)' = Nearest(file', s, k)
    BY <2>2, <2>3, <2>4 DEF Nearest
  <2> QED
    BY <2>2, <2>3, <2>4, <2>5 DEF Merges
<1> QED
  BY <1>1, <1>2 DEF Returned

(* The files that wait and a further one are at most all the files.        *)
LEMMA WaitingFit ==
  ASSUME ChainTypeOK, NoFileTwice, file \notin Listed(ancestry)
  PROVE  Len(ancestry) + 1 <= Cardinality(Files)
<1> DEFINE n == Len(ancestry) + 1
           f == [i \in 1 .. n |-> IF i = n THEN file ELSE ancestry[i]]
<1>1. /\ Len(ancestry) \in Nat /\ DOMAIN ancestry = 1 .. Len(ancestry)
      /\ \A i \in DOMAIN ancestry : ancestry[i] \in Files
  BY DEF ChainTypeOK
<1>2. f \in [1 .. n -> Files]
  BY <1>1 DEF ChainTypeOK
<1>3. ASSUME NEW i \in 1 .. n, NEW j \in 1 .. n, f[i] = f[j]
      PROVE  i = j
  <2>1. CASE i # n /\ j # n
    <3>1. i \in DOMAIN ancestry /\ j \in DOMAIN ancestry /\ ancestry[i] = ancestry[j]
      BY <2>1, <1>1, <1>3
    <3> QED
      BY <3>1 DEF NoFileTwice
  <2>2. CASE i = n /\ j # n
    BY <2>2, <1>1, <1>3 DEF Listed
  <2>3. CASE i # n /\ j = n
    BY <2>3, <1>1, <1>3 DEF Listed
  <2> QED
    BY <2>1, <2>2, <2>3
<1>4. f \in Injection(1 .. n, Files)
  BY <1>2, <1>3 DEF Injection, IsInjective
<1>5. Cardinality(1 .. n) <= Cardinality(Files)
  BY <1>4, FS_Injection, ChainAssumption
<1>6. Cardinality(1 .. n) = n
  BY <1>1, FS_Interval
<1> QED
  BY <1>5, <1>6

(* load_config opens a file, of whose name it knows whether it has been    *)
(* seen: config.py, _load_raw_config.                                      *)
LEMMA OpenKeepsLoad ==
  ASSUME ChainTypeOK, LoadInv, Open
  PROVE  ChainTypeOK' /\ LoadInv' /\ Root' = Root
<1>1. /\ Len(ancestry) \in Nat /\ DOMAIN ancestry = 1 .. Len(ancestry)
      /\ \A i \in DOMAIN ancestry : ancestry[i] \in Files
      /\ contents \in Contents /\ file \in Files /\ ancestry \in Seq(Files) /\ load \in Loads
  BY DEF ChainTypeOK
<1>2. load = "open" /\ contents' = contents /\ NoFileTwice /\ Waiting
  BY DEF LoadInv, Open
<1>3. CASE load' = "refused" /\ UNCHANGED <<file, ancestry, merged>>
  BY <1>1, <1>2, <1>3 DEF ChainTypeOK, LoadInv, Root, Loads, NoFileTwice
<1>4. CASE /\ file \notin Listed(ancestry) /\ contents[file] # None /\ contents[file].extends = None
           /\ load' = "return" /\ merged' = contents[file].settings /\ UNCHANGED <<file, ancestry>>
  <2>1. Chained(file, 0)
    BY <1>1, <1>4, ChainEnds
  <2>2. Merges(file, merged')
    BY <1>4, <2>1, MergesEnd
  <2>3. Mappings(merged')
    BY <1>1, <1>4, SettingsAreMappings
  <2>4. Len(ancestry) + 1 <= Cardinality(Files)
    BY <1>2, <1>4, WaitingFit
  <2>5. Returned'
    <3>1. Chained(file', 0) /\ Merges(file', merged') /\ Len(ancestry') + 0 + 1 <= Cardinality(Files)
      BY <1>1, <1>4, <2>1, <2>2, <2>4
    <3> QED
      BY <1>2, <3>1, MeaningIsKept
  <2>6. ChainTypeOK' /\ Root' = Root
    BY <1>1, <1>2, <1>4 DEF ChainTypeOK, Loads, Root
  <2>7. Waiting' /\ NoFileTwice'
    BY <1>2, <1>4 DEF Waiting, NoFileTwice
  <2>8. Mappings(merged)'
    BY <2>3 DEF Mappings
  <2> QED
    BY <1>4, <2>5, <2>6, <2>7, <2>8 DEF LoadInv
<1>5. CASE /\ file \notin Listed(ancestry) /\ contents[file] # None
           /\ contents[file].extends \in Files /\ contents[file].extends # None
           /\ ancestry' = Append(ancestry, file) /\ file' = contents[file].extends
           /\ UNCHANGED <<load, merged>>
  <2>1. /\ Len(ancestry') = Len(ancestry) + 1 /\ DOMAIN ancestry' = 1 .. Len(ancestry) + 1
        /\ \A i \in DOMAIN ancestry : ancestry'[i] = ancestry[i]
        /\ ancestry'[Len(ancestry) + 1] = file
        /\ ancestry' \in Seq(Files) /\ ancestry' # <<>>
    BY <1>1, <1>5
  <2>2. ChainTypeOK' /\ Root' = Root
    <3>1. ancestry # <<>> => 1 \in DOMAIN ancestry
      BY <1>1
    <3>2. Len(ancestry) = 0 => ancestry = <<>>
      BY <1>1
    <3> QED
      BY <1>1, <1>2, <1>5, <2>1, <3>1, <3>2 DEF ChainTypeOK, Root
  <2>3. NoFileTwice'
    <3>1. ASSUME NEW i \in DOMAIN ancestry', NEW j \in DOMAIN ancestry', ancestry'[i] = ancestry'[j]
          PROVE  i = j
      <4>1. CASE i \in DOMAIN ancestry /\ j \in DOMAIN ancestry
        BY <4>1, <3>1, <2>1, <1>2 DEF NoFileTwice
      <4>2. CASE i \notin DOMAIN ancestry /\ j \notin DOMAIN ancestry
        BY <4>2, <2>1, <1>1
      <4>3. CASE i \in DOMAIN ancestry /\ j \notin DOMAIN ancestry
        <5>1. j = Len(ancestry) + 1 /\ ancestry[i] = file
          BY <4>3, <3>1, <2>1, <1>1
        <5> QED
          BY <5>1, <4>3, <1>5 DEF Listed
      <4>4. CASE i \notin DOMAIN ancestry /\ j \in DOMAIN ancestry
        <5>1. i = Len(ancestry) + 1 /\ ancestry[j] = file
          BY <4>4, <3>1, <2>1, <1>1
        <5> QED
          BY <5>1, <4>4, <1>5 DEF Listed
      <4> QED
        BY <4>1, <4>2, <4>3, <4>4
    <3> QED
      BY <3>1 DEF NoFileTwice
  <2>4. Waiting'
    <3>1. ASSUME NEW i \in DOMAIN ancestry'
          PROVE  /\ contents[ancestry'[i]] # None /\ contents[ancestry'[i]].extends # None
                 /\ contents[ancestry'[i]].extends = IF i = Len(ancestry') THEN file' ELSE ancestry'[i + 1]
      <4>1. CASE i = Len(ancestry) + 1
        BY <4>1, <2>1, <1>5
      <4>2. CASE i \in DOMAIN ancestry /\ i # Len(ancestry)
        <5>1. i + 1 \in DOMAIN ancestry
          BY <4>2, <1>1
        <5> QED
          BY <4>2, <5>1, <2>1, <1>1, <1>2 DEF Waiting
      <4>3. CASE i = Len(ancestry) /\ i \in DOMAIN ancestry
        BY <4>3, <2>1, <1>1, <1>2 DEF Waiting
      <4> QED
        BY <4>1, <4>2, <4>3, <2>1, <1>1
    <3> QED
      BY <3>1, <1>2 DEF Waiting
  <2> QED
    BY <1>2, <1>5, <2>2, <2>3, <2>4 DEF LoadInv
<1>6. contents[file] # None => contents[file].extends \in Files \cup {None, "bad"}
  BY <1>1 DEF Contents, Extendable
<1> QED
  BY <1>1, <1>2, <1>3, <1>4, <1>5, <1>6 DEF Open, Cycle

(* A call of _load_raw_config returns to the one of the extending file.    *)
LEMMA ReturnKeepsLoad ==
  ASSUME ChainTypeOK, LoadInv, Return
  PROVE  ChainTypeOK' /\ LoadInv' /\ Root' = Root
<1>1. /\ Len(ancestry) \in Nat /\ DOMAIN ancestry = 1 .. Len(ancestry)
      /\ \A i \in DOMAIN ancestry : ancestry[i] \in Files
      /\ contents \in Contents /\ file \in Files /\ ancestry \in Seq(Files) /\ load \in Loads
  BY DEF ChainTypeOK
<1>2. load = "return" /\ contents' = contents /\ NoFileTwice /\ Waiting /\ Mappings(merged) /\ Returned
  BY DEF LoadInv, Return
<1>3. PICK n \in Nat : /\ Chained(file, n) /\ Len(ancestry) + n + 1 <= Cardinality(Files)
                       /\ Merges(file, merged)
  BY <1>2 DEF Returned
<1>4. CASE ancestry = <<>> /\ load' = "loaded" /\ UNCHANGED <<file, ancestry, merged>>
  <2>1. Chained(file', n) /\ Merges(file', merged') /\ Len(ancestry') + n + 1 <= Cardinality(Files)
    BY <1>3, <1>4
  <2>2. Returned'
    BY <1>2, <2>1, MeaningIsKept
  <2>3. Mappings(merged)' /\ NoFileTwice' /\ Root' = Root /\ ChainTypeOK'
    BY <1>1, <1>2, <1>4 DEF Mappings, NoFileTwice, Root, ChainTypeOK, Loads
  <2> QED
    BY <1>4, <2>2, <2>3 DEF LoadInv
<1>5. CASE ancestry # <<>>
  <2> DEFINE caller == ancestry[Len(ancestry)]
             left == SubSeq(ancestry, 1, Len(ancestry) - 1)
  <2>1. /\ merged' = Merge(merged, contents[caller].settings) /\ file' = caller
        /\ ancestry' = left /\ load' = "return"
    BY <1>2, <1>5 DEF Return
  <2>2. /\ Len(ancestry) \in DOMAIN ancestry /\ caller \in Files /\ contents[caller] # None
        /\ contents[caller].extends = file /\ file # None
    BY <1>1, <1>2, <1>5 DEF Waiting
  <2>3. /\ left \in Seq(Files) /\ Len(left) = Len(ancestry) - 1 /\ DOMAIN left = 1 .. Len(ancestry) - 1
        /\ \A i \in DOMAIN left : i \in DOMAIN ancestry /\ left[i] = ancestry[i]
    BY <1>1, <2>2
  <2> HIDE DEF left
  <2>4. Chained(caller, n + 1)
    <3>1. n + 1 <= Cardinality(Files)
      BY <1>1, <1>3, CardinalityOfFiles
    <3> HIDE DEF caller
    <3> QED
      BY <1>3, <2>2, <3>1, ChainExtends
  <2>5. Mappings(contents[caller].settings)
    BY <1>1, <2>2, SettingsAreMappings
  <2> HIDE DEF caller
  <2>6. Merges(caller, merged') /\ Mappings(merged')
    BY <1>2, <1>3, <2>1, <2>2, <2>4, <2>5, MergesExtend, MergeMappings
  <2>7. Returned'
    <3>1. Chained(file', n + 1) /\ Merges(file', merged')
      BY <2>1, <2>4, <2>6
    <3>2. Len(ancestry') + (n + 1) + 1 <= Cardinality(Files) /\ n + 1 \in Nat
      BY <1>1, <1>3, <2>1, <2>3
    <3> QED
      BY <1>2, <3>1, <3>2, MeaningIsKept
  <2>8. Waiting' /\ NoFileTwice'
    <3>1. ASSUME NEW i \in DOMAIN ancestry'
          PROVE  /\ contents[ancestry'[i]] # None /\ contents[ancestry'[i]].extends # None
                 /\ contents[ancestry'[i]].extends = IF i = Len(ancestry') THEN file' ELSE ancestry'[i + 1]
      <4>1. i \in DOMAIN ancestry /\ i # Len(ancestry) /\ ancestry'[i] = ancestry[i]
        BY <2>1, <2>3, <1>1
      <4>2. contents[ancestry[i]] # None /\ contents[ancestry[i]].extends = ancestry[i + 1]
            /\ contents[ancestry[i]].extends # None
        BY <4>1, <1>2 DEF Waiting
      <4>3. CASE i = Len(ancestry')
        <5>1. i + 1 = Len(ancestry)
          BY <4>3, <2>1, <2>3, <1>1
        <5> QED
          BY <4>1, <4>2, <4>3, <5>1, <2>1 DEF caller
      <4>4. CASE i # Len(ancestry')
        <5>1. i + 1 \in DOMAIN left
          BY <4>4, <3>1, <2>1, <2>3, <1>1
        <5> QED
          BY <4>1, <4>2, <4>4, <5>1, <2>1, <2>3
      <4> QED
        BY <4>3, <4>4
    <3>2. NoFileTwice'
      BY <1>2, <2>1, <2>3 DEF NoFileTwice
    <3> QED
      BY <3>1, <3>2, <1>2 DEF Waiting
  <2>9. Root' = Root
    <3>1. CASE Len(ancestry) = 1
      <4>1. left = <<>> /\ caller = ancestry[1]
        BY <3>1, <2>3 DEF caller
      <4> QED
        BY <4>1, <1>5, <2>1 DEF Root
    <3>2. CASE Len(ancestry) # 1
      <4>1. left # <<>> /\ 1 \in DOMAIN left
        BY <3>2, <2>2, <2>3, <1>1
      <4> QED
        BY <4>1, <1>5, <2>1, <2>3 DEF Root
    <3> QED
      BY <3>1, <3>2
  <2>10. ChainTypeOK'
    BY <1>1, <1>2, <2>1, <2>2, <2>3 DEF ChainTypeOK, Loads
  <2> QED
    BY <2>1, <2>6, <2>7, <2>8, <2>9, <2>10 DEF LoadInv, Mappings
<1> QED
  BY <1>2, <1>4, <1>5 DEF Return

(* A load that begins, and what leaves the load alone.                     *)
LEMMA BeginsLoad ==
  ASSUME ChainTypeOK, NEW f \in Files, OpenConfig(f)
  PROVE  ChainTypeOK' /\ LoadInv' /\ Root' = f
<1>1. /\ load' = "open" /\ file' = f /\ ancestry' = <<>> /\ contents' = contents
      /\ DOMAIN ancestry' = {}
  BY DEF OpenConfig
<1>2. ChainTypeOK' /\ Root' = f
  BY <1>1 DEF ChainTypeOK, Loads, Root
<1>3. NoFileTwice' /\ Waiting'
  BY <1>1 DEF NoFileTwice, Waiting
<1> QED
  BY <1>1, <1>2, <1>3 DEF LoadInv

(* What leaves the files, and what has been read of them, as it is.        *)
LEMMA LoadIsKept ==
  ASSUME LoadInv, UNCHANGED chain
  PROVE  LoadInv' /\ Root' = Root /\ (ChainTypeOK => ChainTypeOK')
<1>1. UNCHANGED <<contents, load, file, ancestry, merged>>
  BY DEF chain
<1>2. Returned => Returned'
  <2> SUFFICES ASSUME Returned PROVE Returned'
    OBVIOUS
  <2>1. PICK n \in Nat : /\ Chained(file, n) /\ Len(ancestry) + n + 1 <= Cardinality(Files)
                         /\ Merges(file, merged)
    BY DEF Returned
  <2>2. Chained(file', n) /\ Merges(file', merged') /\ Len(ancestry') + n + 1 <= Cardinality(Files)
    BY <1>1, <2>1
  <2> QED
    BY <1>1, <2>2, MeaningIsKept
<1>3. (Waiting => Waiting') /\ (NoFileTwice => NoFileTwice') /\ (Mappings(merged) => Mappings(merged)')
  BY <1>1 DEF Waiting, NoFileTwice, Mappings
<1>4. Root' = Root /\ (ChainTypeOK => ChainTypeOK')
  BY <1>1 DEF Root, ChainTypeOK
<1> QED
  BY <1>1, <1>2, <1>3, <1>4 DEF LoadInv

(* The invariant says that the nearest file wins.                          *)
LEMMA LoadNearestWins ==
  ASSUME LoadInv
  PROVE  NearestWins
BY DEF LoadInv, Returned, Merges, NearestWins, Says

(* Paths.                                                                  *)

(* g gives the directories on the way along the first n of parts.          *)
IsWalk(g, from, parts, n) ==
  g = [i \in 0 .. n |-> IF i = 0 THEN from ELSE Follow(g[i - 1], parts[i])]

(* There is a walk along any names.                                        *)
LEMMA WalkExists ==
  ASSUME NEW from, NEW parts, NEW n \in Nat
  PROVE  \E g : IsWalk(g, from, parts, n)
<1> DEFINE T == {m \in Nat : ~\E g : IsWalk(g, from, parts, m)}
<1> SUFFICES ASSUME T # {} PROVE FALSE
  OBVIOUS
<1>1. PICK m \in T : \A j \in T : m <= j
  BY LeastOf
<1>2. m # 0
  <2>1. IsWalk([i \in 0 .. 0 |-> from], from, parts, 0)
    BY DEF IsWalk
  <2> QED
    BY <2>1
<1>3. m \in Nat /\ m - 1 \in Nat /\ m - 1 \notin T
  BY <1>1, <1>2
<1>4. PICK g : IsWalk(g, from, parts, m - 1)
  BY <1>3
<1> DEFINE h == [i \in 0 .. m |-> IF i = m THEN Follow(g[m - 1], parts[m]) ELSE g[i]]
<1>5. IsWalk(h, from, parts, m)
  <2>1. ASSUME NEW i \in 0 .. m
        PROVE  h[i] = IF i = 0 THEN from ELSE Follow(h[i - 1], parts[i])
    <3>1. CASE i = 0
      <4>1. h[i] = g[0]
        BY <1>2, <1>3, <3>1
      <4>2. g[0] = from
        BY <1>2, <1>3, <1>4 DEF IsWalk
      <4> QED
        BY <4>1, <4>2, <3>1
    <3>2. CASE i # 0 /\ i # m
      <4>1. i \in 0 .. m - 1 /\ i - 1 \in 0 .. m - 1
        BY <1>3, <3>2
      <4>2. h[i] = g[i] /\ h[i - 1] = g[i - 1]
        BY <4>1, <1>3
      <4>3. g[i] = Follow(g[i - 1], parts[i])
        BY <4>1, <3>2, <1>4 DEF IsWalk
      <4> QED
        BY <4>2, <4>3, <3>2
    <3>3. CASE i = m
      <4>1. h[i] = Follow(g[m - 1], parts[m]) /\ h[i - 1] = g[m - 1]
        BY <3>3, <1>3, <1>2
      <4> QED
        BY <4>1, <3>3, <1>2
    <3> QED
      BY <3>1, <3>2, <3>3
  <2>2. h = [i \in 0 .. m |-> h[i]]
    OBVIOUS
  <2> HIDE DEF h
  <2>3. h = [i \in 0 .. m |-> IF i = 0 THEN from ELSE Follow(h[i - 1], parts[i])]
    BY <2>1, <2>2
  <2> QED
    BY <2>3 DEF IsWalk
<1> QED
  BY <1>1, <1>5

(* Two walks from one directory are the same as far as their names are.    *)
LEMMA WalkUnique ==
  ASSUME NEW from, NEW p, NEW q, NEW m \in Nat, NEW n \in Nat, NEW g, NEW h,
         IsWalk(g, from, p, m), IsWalk(h, from, q, n), m <= n, \A i \in 1 .. m : p[i] = q[i]
  PROVE  \A i \in 0 .. m : g[i] = h[i]
<1> DEFINE T == {i \in Nat : i <= m /\ g[i] # h[i]}
<1> SUFFICES ASSUME T # {} PROVE FALSE
  OBVIOUS
<1>1. PICK i \in T : \A j \in T : i <= j
  BY LeastOf
<1>2. i \in Nat /\ i <= m /\ i \in 0 .. m /\ i \in 0 .. n /\ g[i] # h[i]
  BY <1>1
<1>3. g[i] = IF i = 0 THEN from ELSE Follow(g[i - 1], p[i])
  BY <1>2 DEF IsWalk
<1>4. h[i] = IF i = 0 THEN from ELSE Follow(h[i - 1], q[i])
  BY <1>2 DEF IsWalk
<1>5. i # 0
  BY <1>2, <1>3, <1>4
<1>6. i - 1 \in Nat /\ i - 1 <= m /\ i - 1 \notin T
  BY <1>1, <1>2, <1>5
<1>7. g[i - 1] = h[i - 1]
  BY <1>6
<1>8. p[i] = q[i]
  BY <1>2, <1>5
<1> QED
  BY <1>2, <1>3, <1>4, <1>5, <1>7, <1>8

(* Walk is where one ends.                                                 *)
LEMMA WalkOf ==
  ASSUME NEW from, NEW parts, Len(parts) \in Nat
  PROVE  \E g : IsWalk(g, from, parts, Len(parts)) /\ Walk(from, parts) = g[Len(parts)]
<1> DEFINE n == Len(parts)
           dir == CHOOSE g : g = [i \in 0 .. n |-> IF i = 0 THEN from ELSE Follow(g[i - 1], parts[i])]
<1>1. dir = [i \in 0 .. n |-> IF i = 0 THEN from ELSE Follow(dir[i - 1], parts[i])]
  BY WalkExists DEF IsWalk
<1>2. Walk(from, parts) = dir[n]
  BY DEF Walk
<1> HIDE DEF dir
<1> QED
  BY <1>1, <1>2 DEF IsWalk

(* One name leads from a path to a path, also through a link.              *)
LEMMA FollowType ==
  ASSUME NEW dir \in Paths, NEW x \in Names
  PROVE  Follow(dir, x) \in Paths
<1>1. Append(dir, x) \in Paths
  BY DEF Paths
<1>2. Front(dir) \in Paths
  <2>1. CASE Len(dir) = 0
    <3>1. SubSeq(dir, 1, Len(dir) - 1) = <<>>
      BY <2>1 DEF Paths
    <3> QED
      BY <3>1 DEF Front, Paths
  <2>2. CASE Len(dir) # 0
    <3>1. Len(dir) \in Nat /\ SubSeq(dir, 1, Len(dir) - 1) \in Seq(Names)
      BY <2>2 DEF Paths
    <3> QED
      BY <3>1 DEF Front, Paths
  <2> QED
    BY <2>1, <2>2
<1>3. \A l \in DOMAIN Links : Links[l] \in Paths
  BY RecorderMainAssumption
<1> QED
  BY <1>1, <1>2, <1>3 DEF Follow

(* A walk leads from a path to a path.                                     *)
LEMMA WalkType ==
  ASSUME NEW from \in Paths, NEW parts \in Paths
  PROVE  Walk(from, parts) \in Paths
<1> DEFINE n == Len(parts)
<1>1. n \in Nat /\ \A i \in 1 .. n : parts[i] \in Names
  BY DEF Paths
<1>2. PICK g : IsWalk(g, from, parts, n) /\ Walk(from, parts) = g[n]
  BY <1>1, WalkOf
<1> DEFINE T == {i \in Nat : i <= n /\ g[i] \notin Paths}
<1>3. T = {}
  <2> SUFFICES ASSUME T # {} PROVE FALSE
    OBVIOUS
  <2>1. PICK i \in T : \A j \in T : i <= j
    BY LeastOf
  <2>2. i \in Nat /\ i \in 0 .. n /\ g[i] \notin Paths
    BY <2>1, <1>1
  <2>3. g[i] = IF i = 0 THEN from ELSE Follow(g[i - 1], parts[i])
    BY <2>2, <1>2 DEF IsWalk
  <2>4. i # 0
    BY <2>2, <2>3
  <2>5. i - 1 \in Nat /\ i - 1 <= n /\ i - 1 \notin T /\ i \in 1 .. n
    BY <2>1, <2>2, <2>4, <1>1
  <2>6. g[i - 1] \in Paths /\ parts[i] \in Names
    BY <2>5, <1>1
  <2> QED
    BY <2>2, <2>3, <2>4, <2>6, FollowType
<1> QED
  BY <1>1, <1>2, <1>3

(* What a prefix is, name by name.                                         *)
LEMMA BelowNames ==
  ASSUME NEW p \in Paths, NEW dir \in Paths
  PROVE  Below(p, dir) <=> Len(dir) <= Len(p) /\ \A i \in 1 .. Len(dir) : p[i] = dir[i]
<1>1. Len(p) \in Nat /\ Len(dir) \in Nat
  BY DEF Paths
<1>2. SubSeq(dir, 1, Len(dir)) = dir
  BY DEF Paths
<1>3. CASE Len(dir) <= Len(p)
  <2> DEFINE s == SubSeq(p, 1, Len(dir))
  <2>1. s \in Seq(Names) /\ Len(s) = Len(dir) /\ \A i \in 1 .. Len(dir) : s[i] = p[i]
    BY <1>1, <1>3 DEF Paths
  <2> HIDE DEF s
  <2>2. dir = s <=> \A i \in 1 .. Len(dir) : p[i] = dir[i]
    BY <1>1, <2>1 DEF Paths
  <2> QED
    BY <1>2, <1>3, <2>2 DEF Below, IsPrefix, s
<1>4. CASE ~(Len(dir) <= Len(p))
  BY <1>4 DEF Below, IsPrefix
<1> QED
  BY <1>3, <1>4

(* What is below a path below d is below d.                                *)
LEMMA BelowTransitive ==
  ASSUME NEW p \in Paths, NEW q \in Paths, NEW r \in Paths, Below(p, q), Below(q, r)
  PROVE  Below(p, r)
<1>1. Len(p) \in Nat /\ Len(q) \in Nat /\ Len(r) \in Nat
  BY DEF Paths
<1>2. Len(q) <= Len(p) /\ Len(r) <= Len(q)
  BY BelowNames
<1>3. \A i \in 1 .. Len(r) : i \in 1 .. Len(q) /\ p[i] = q[i] /\ q[i] = r[i]
  BY <1>1, <1>2, BelowNames
<1> QED
  BY <1>1, <1>2, <1>3, BelowNames

(* A path is below itself, and one more name is below it.                  *)
LEMMA BelowItself ==
  ASSUME NEW p \in Paths, NEW x \in Names
  PROVE  Below(p, p) /\ Append(p, x) \in Paths /\ Below(Append(p, x), p)
<1>1. /\ Len(p) \in Nat /\ Append(p, x) \in Paths /\ Len(Append(p, x)) = Len(p) + 1
      /\ \A i \in 1 .. Len(p) : Append(p, x)[i] = p[i]
  BY DEF Paths
<1>2. Below(p, p)
  BY <1>1, BelowNames
<1>3. Below(Append(p, x), p)
  <2> DEFINE q == Append(p, x)
  <2>1. q \in Paths /\ Len(p) <= Len(q) /\ \A i \in 1 .. Len(p) : q[i] = p[i]
    BY <1>1
  <2> HIDE DEF q
  <2>2. Below(q, p)
    BY <2>1, BelowNames
  <2> QED
    BY <2>2 DEF q
<1> QED
  BY <1>1, <1>2, <1>3

(* A relative path that is not refused is below the mountpoint.            *)
LEMMA ResolveType ==
  ASSUME NEW p \in [from : {"root", "home", "relative"}, parts : Paths]
  PROVE  /\ Resolve(p) \in Paths \cup {None}
         /\ p.from = "relative" /\ Resolve(p) # None => Below(Resolve(p), Mountpoint)
<1>1. Mountpoint \in Paths /\ Home \in Paths /\ <<>> \in Paths
  BY RecorderMainAssumption DEF Paths
<1>2. p.from \in {"root", "home", "relative"} /\ p.parts \in Paths
  OBVIOUS
<1>3. \A from \in Paths : Walk(from, p.parts) \in Paths
  BY <1>2, WalkType
<1>4. CASE p.from = "root"
  BY <1>1, <1>3, <1>4 DEF Resolve
<1>5. CASE p.from = "home"
  BY <1>1, <1>3, <1>5 DEF Resolve
<1>6. CASE p.from = "relative"
  BY <1>1, <1>3, <1>6 DEF Resolve
<1> QED
  BY <1>2, <1>4, <1>5, <1>6

(* The plan.                                                               *)

(* What one of the dataclasses has.                                        *)
Complete(c) ==
  \A s \in DOMAIN Fields : s \in DOMAIN c /\ Fields[s] \subseteq DOMAIN c[s] /\ Typed(c[s])

(* Overriding fields keeps their types.                                    *)
LEMMA TypedOver ==
  ASSUME NEW a, NEW b, Typed(a), Typed(b)
  PROVE  Typed(Over(a, b))
<1>1. \A k \in DOMAIN Over(a, b) :
        (k \in DOMAIN a /\ Over(a, b)[k] = a[k]) \/ (k \in DOMAIN b /\ Over(a, b)[k] = b[k])
  BY DEF Over
<1> QED
  BY <1>1 DEF Typed

(* The defaults make every configuration complete.                         *)
LEMMA ConfiguredIsComplete ==
  ASSUME Mappings(merged), ~Malformed
  PROVE  Complete(Configured)
<1> SUFFICES ASSUME NEW s \in DOMAIN Fields
             PROVE  /\ s \in DOMAIN Configured /\ Fields[s] \subseteq DOMAIN Configured[s]
                    /\ Typed(Configured[s])
  BY DEF Complete
<1>1. /\ s \in DOMAIN Defaults /\ Fields[s] \subseteq DOMAIN Defaults[s] /\ Typed(Defaults[s])
      /\ \A m \in Sections[s] : Typed(m)
  BY RecorderMainAssumption
<1>2. s \in DOMAIN Configured
  BY <1>1 DEF Configured
<1>3. CASE s \notin DOMAIN merged
  <2>1. Configured[s] = Defaults[s]
    BY <1>1, <1>3 DEF Configured
  <2> QED
    BY <2>1, <1>1, <1>2
<1>4. CASE s \in DOMAIN merged
  <2>1. Configured[s] = Over(merged[s], Defaults[s])
    BY <1>1, <1>4 DEF Configured
  <2>2. merged[s] \in Sections[s]
    BY <1>1, <1>4 DEF Mappings, Malformed
  <2>3. Typed(Over(merged[s], Defaults[s]))
    BY <1>1, <2>2, TypedOver
  <2>4. DOMAIN Defaults[s] \subseteq DOMAIN Over(merged[s], Defaults[s])
    BY DEF Over
  <2> QED
    BY <1>1, <1>2, <2>1, <2>3, <2>4
<1> QED
  BY <1>3, <1>4

(* The fields that the later steps use.                                    *)
LEMMA CompleteFields ==
  ASSUME NEW c, Complete(c)
  PROVE  /\ c.l2.subpath \in Written /\ c.l2.reset \in BOOLEAN
         /\ c.mooncake.path \in Written /\ c.mooncake.trace \in Traces
<1>1. /\ {"l2", "mooncake"} \subseteq DOMAIN Fields
      /\ {"subpath", "reset"} \subseteq Fields["l2"] /\ {"path", "trace"} \subseteq Fields["mooncake"]
  BY DEF Fields
<1>2. Typed(c.l2) /\ Typed(c.mooncake) /\ {"subpath", "reset"} \subseteq DOMAIN c.l2
      /\ {"path", "trace"} \subseteq DOMAIN c.mooncake
  BY <1>1 DEF Complete
<1> QED
  BY <1>2 DEF Typed

(* The options change the trace and its path, and nothing else.            *)
LEMMA TracedIs ==
  ASSUME NEW c, Complete(c), NEW o
  PROVE  LET t == Traced(c, o) IN
         /\ t.model = c.model /\ t.l2 = c.l2 /\ t.workload = c.workload
         /\ t.mooncake.trace = IF o.trace = None THEN c.mooncake.trace ELSE o.trace
         /\ t.mooncake.path = IF o.trace = None \/ o.path = None THEN c.mooncake.path ELSE o.path
         /\ t.mooncake.number = c.mooncake.number
<1>1. /\ {"model", "l2", "workload", "mooncake"} \subseteq DOMAIN Fields
      /\ {"path", "trace", "number"} \subseteq Fields["mooncake"]
  BY DEF Fields
<1>2. {"model", "l2", "workload", "mooncake"} \subseteq DOMAIN c
      /\ {"path", "trace", "number"} \subseteq DOMAIN c.mooncake
  BY <1>1 DEF Complete
<1>3. CASE o.trace = None
  BY <1>3 DEF Traced
<1>4. CASE o.trace # None
  <2> DEFINE t == Traced(c, o)
  <2>1. t = [c EXCEPT !.mooncake.trace = o.trace,
                      !.mooncake.path = IF o.path = None THEN @ ELSE o.path]
    BY <1>4 DEF Traced
  <2>2. t.model = c.model /\ t.l2 = c.l2 /\ t.workload = c.workload
    BY <2>1, <1>2
  <2>3. t.mooncake = [c.mooncake EXCEPT !.trace = o.trace,
                        !.path = IF o.path = None THEN c.mooncake.path ELSE o.path]
    BY <2>1, <1>2
  <2> HIDE DEF t
  <2>4. /\ t.mooncake.trace = o.trace
        /\ t.mooncake.path = IF o.path = None THEN c.mooncake.path ELSE o.path
        /\ t.mooncake.number = c.mooncake.number
    BY <2>3, <1>2
  <2> QED
    BY <1>4, <2>2, <2>4 DEF t
<1> QED
  BY <1>3, <1>4

(* The L2 path and the path of the trace, where they are not refused.      *)
LEMMA PathsOfPlan ==
  ASSUME NEW c, Complete(c), NEW o, CommandLine(o)
  PROVE  LET t == Traced(c, o) IN
         /\ L2Path(t, o) \in Paths \cup {None} /\ TracePath(t) \in Paths \cup {None}
         /\ (/\ IF o.l2Path = None THEN Valid(c) ELSE \A u \in Traces : o.l2Path[u].from = "relative"
             /\ L2Path(t, o) # None)
            => Below(L2Path(t, o), Mountpoint)
<1> DEFINE t == Traced(c, o)
           from == IF o.l2Path = None THEN c.l2.subpath ELSE o.l2Path
<1>1. /\ c.l2.subpath \in Written /\ c.mooncake.path \in Written /\ c.mooncake.trace \in Traces
      /\ o.trace \in Traces \cup {None}
      /\ o.path \in Written \cup {None} /\ o.l2Path \in Written \cup {None}
  BY CompleteFields DEF CommandLine
<1>2. t.mooncake.trace \in Traces /\ t.mooncake.path \in Written /\ t.l2 = c.l2
  BY <1>1, TracedIs
<1>3. from \in Written /\ L2Path(t, o) = Resolve(from[t.mooncake.trace])
  BY <1>1, <1>2 DEF L2Path
<1>4. TracePath(t) = Resolve(t.mooncake.path[t.mooncake.trace])
  BY DEF TracePath
<1> HIDE DEF t, from
<1>5. /\ from[t.mooncake.trace] \in [from : {"root", "home", "relative"}, parts : Paths]
      /\ t.mooncake.path[t.mooncake.trace] \in [from : {"root", "home", "relative"}, parts : Paths]
  BY <1>2, <1>3 DEF Written
<1>6. L2Path(t, o) \in Paths \cup {None} /\ TracePath(t) \in Paths \cup {None}
  BY <1>3, <1>4, <1>5, ResolveType
<1>7. ASSUME IF o.l2Path = None THEN Valid(c) ELSE \A u \in Traces : o.l2Path[u].from = "relative",
             L2Path(t, o) # None
      PROVE  Below(L2Path(t, o), Mountpoint)
  <2>1. from[t.mooncake.trace].from = "relative"
    BY <1>2, <1>7 DEF Valid, from
  <2> QED
    BY <2>1, <1>3, <1>5, <1>7, ResolveType
<1> QED
  BY <1>6, <1>7 DEF t

(* What a recording gets.                                                  *)

(* The configuration under the options.                                    *)
Chosen == Traced(Configured, options)

(* The plan is the one of the configuration and the options, which fit.    *)
Current ==
  /\ load = "loaded" /\ ~Malformed /\ Valid(Configured)
  /\ L2Path(Chosen, options) # None /\ TracePath(Chosen) # None
  /\ plan = Planned(Chosen, options)

(* Where there is a plan it is current; only a recording that is no dry    *)
(* run goes further.                                                       *)
PlanInv ==
  /\ plan # None => Current
  /\ main \in {"prepare", "reset", "record"} => Current /\ ~options.dry

(* The plan stays the current one while nothing of it changes.             *)
LEMMA CurrentIsKept ==
  ASSUME UNCHANGED <<chain, options, plan>>, Current
  PROVE  Current'
<1>1. UNCHANGED <<load, merged, options, plan>>
  BY DEF chain
<1>2. Configured' = Configured /\ Malformed' = Malformed
  BY <1>1 DEF Configured, Malformed
<1>3. Chosen' = Chosen
  BY <1>1, <1>2 DEF Chosen
<1> QED
  BY <1>1, <1>2, <1>3 DEF Current

(* The types of a current plan.                                            *)
LEMMA CurrentPlan ==
  ASSUME Current, Mappings(merged), CommandLine(options)
  PROVE  /\ plan.l2 \in Paths /\ plan.mooncake \in Paths \cup {None} /\ plan.reset \in BOOLEAN
         /\ (options.l2Path = None \/ \A t \in Traces : options.l2Path[t].from = "relative")
            => Below(plan.l2, Mountpoint)
<1> DEFINE c == Configured
           o == options
           t == Traced(c, o)
<1>1. Complete(c) /\ Valid(c)
  BY ConfiguredIsComplete DEF Current
<1>2. plan = Planned(t, o) /\ L2Path(t, o) # None /\ TracePath(t) # None
  BY DEF Current, Chosen
<1> HIDE DEF c
<1>3. /\ L2Path(t, o) \in Paths \cup {None} /\ TracePath(t) \in Paths \cup {None}
      /\ (/\ IF o.l2Path = None THEN Valid(c) ELSE \A u \in Traces : o.l2Path[u].from = "relative"
          /\ L2Path(t, o) # None)
         => Below(L2Path(t, o), Mountpoint)
  BY <1>1, PathsOfPlan
<1>4. t.l2 = c.l2 /\ c.l2.reset \in BOOLEAN
  BY <1>1, TracedIs, CompleteFields
<1> HIDE DEF t
<1>5. /\ plan.l2 = L2Path(t, o) /\ plan.reset = t.l2.reset
      /\ plan.mooncake = IF t.workload.backend = "mooncake" THEN TracePath(t) ELSE None
  BY <1>2 DEF Planned
<1> QED
  BY <1>1, <1>2, <1>3, <1>4, <1>5

(* The nearest file is one only.                                           *)
LEMMA NearestIsOne ==
  ASSUME NEW f, NEW s, NEW k, NEW i \in Nearest(f, s, k), NEW j \in Nearest(f, s, k),
         Depth(f) \in Nat
  PROVE  i = j
<1>1. i \in Nat /\ j \in Nat
  BY DEF Nearest
<1>2. ASSUME NEW a \in Nearest(f, s, k), NEW b \in Nearest(f, s, k), a < b
      PROVE  FALSE
  <2>1. a \in 0 .. b - 1
    BY <1>2 DEF Nearest
  <2> QED
    BY <1>2, <2>1 DEF Nearest
<1> QED
  BY <1>1, <1>2

(* Merging and defaults together give what a key means.                    *)
LEMMA ConfiguredMeans ==
  ASSUME Returned, ~Malformed, NEW s \in DOMAIN Fields, NEW k \in Fields[s]
  PROVE  Configured[s][k] = Value(s, k)
<1>1. PICK n \in Nat : Chained(file, n) /\ Merges(file, merged)
  BY DEF Returned
<1>2. Depth(file) \in Nat
  BY <1>1, DepthIs
<1>3. s \in DOMAIN Defaults /\ k \in DOMAIN Defaults[s]
  BY RecorderMainAssumption
<1>4. \A i \in Nearest(file, s, k) :
        /\ i \in 0 .. Depth(file) /\ Says(file, i, s) /\ Section(file, i, s) # None
        /\ k \in DOMAIN Section(file, i, s)
  BY DEF Nearest
<1>5. \A i \in Nearest(file, s, k) : s \in DOMAIN merged /\ k \in DOMAIN merged[s]
  BY <1>1, <1>4 DEF Merges
<1>6. CASE s \in DOMAIN merged /\ k \in DOMAIN merged[s]
  <2>1. merged[s] # None
    BY <1>3, <1>6 DEF Malformed
  <2>2. PICK i \in Nearest(file, s, k) : merged[s][k] = Section(file, i, s)[k]
    BY <1>1, <1>6, <2>1 DEF Merges
  <2>3. Min(Nearest(file, s, k)) = i
    <3>1. \A j \in Nearest(file, s, k) : j = i
      BY <1>2, <2>2, NearestIsOne
    <3>2. \A j \in Nearest(file, s, k) : (\A l \in Nearest(file, s, k) : j <= l) <=> j = i
      BY <2>2, <3>1, <1>4
    <3> QED
      BY <2>2, <3>2 DEF Min
  <2>4. Value(s, k) = merged[s][k]
    BY <2>2, <2>3 DEF Value, Means
  <2>5. Configured[s] = Over(merged[s], Defaults[s])
    BY <1>3, <1>6 DEF Configured
  <2> QED
    BY <1>6, <2>4, <2>5 DEF Over
<1>7. CASE ~(s \in DOMAIN merged /\ k \in DOMAIN merged[s])
  <2>1. Nearest(file, s, k) = {}
    BY <1>5, <1>7
  <2>2. Value(s, k) = Defaults[s][k]
    BY <2>1 DEF Value, Means
  <2>3. CASE s \notin DOMAIN merged
    BY <1>3, <2>2, <2>3 DEF Configured
  <2>4. CASE s \in DOMAIN merged
    <3>1. Configured[s] = Over(merged[s], Defaults[s])
      BY <1>3, <2>4 DEF Configured
    <3>2. k \in DOMAIN Defaults[s] \ DOMAIN merged[s]
      BY <1>3, <1>7, <2>4
    <3> QED
      BY <2>2, <3>1, <3>2 DEF Over
  <2> QED
    BY <2>3, <2>4
<1> QED
  BY <1>6, <1>7

(* A plan has the settings that the nearest files and the options give.    *)
LEMMA PlanUsesSettings ==
  ASSUME LoadInv, PlanInv
  PROVE  SettingsAreUsed
<1> SUFFICES ASSUME plan # None PROVE SettingsAreUsed
  BY DEF SettingsAreUsed
<1> DEFINE c == Configured
           t == Traced(c, options)
<1>1. /\ load = "loaded" /\ ~Malformed /\ Valid(c) /\ TracePath(t) # None
      /\ plan = Planned(t, options)
  BY DEF PlanInv, Current, Chosen
<1>2. Returned /\ Mappings(merged)
  BY <1>1 DEF LoadInv
<1>3. \A s \in DOMAIN Fields : \A k \in Fields[s] : c[s][k] = Value(s, k)
  BY <1>1, <1>2, ConfiguredMeans
<1>4. Complete(c)
  BY <1>1, <1>2, ConfiguredIsComplete
<1>5. /\ {"model", "workload", "mooncake"} \subseteq DOMAIN Fields
      /\ {"gpu", "kv"} \subseteq Fields["model"]
      /\ "number" \in Fields["workload"] /\ "number" \in Fields["mooncake"]
  BY DEF Fields
<1>6. /\ c.model.gpu = Value("model", "gpu") /\ c.model.kv = Value("model", "kv")
      /\ c.workload.number = Value("workload", "number")
      /\ c.mooncake.number = Value("mooncake", "number")
  BY <1>3, <1>5
<1> HIDE DEF c
<1>7. t.model = c.model /\ t.workload = c.workload /\ t.mooncake.number = c.mooncake.number
  BY <1>4, TracedIs
<1>8. ~(c.model.gpu # None /\ c.model.kv # None)
  BY <1>1 DEF Valid
<1> HIDE DEF t
<1>9. /\ plan.mooncake = IF t.workload.backend = "mooncake" THEN TracePath(t) ELSE None
      /\ plan.limits = IF t.model.kv # None THEN <<"kv", t.model.kv>>
                       ELSE IF t.model.gpu # None THEN <<"gpu", t.model.gpu>> ELSE <<>>
      /\ plan.number = Number(t, options)
  BY <1>1 DEF Planned
<1>10. \A k \in {"gpu", "kv"} :
         Value("model", k) # None => plan.limits = <<k, Value("model", k)>>
  BY <1>6, <1>7, <1>8, <1>9
<1>11. plan.number = IF options.percent # None THEN None
                     ELSE Value(IF plan.mooncake # None THEN "mooncake" ELSE "workload", "number")
  BY <1>1, <1>6, <1>7, <1>9 DEF Number
<1> QED
  BY <1>10, <1>11 DEF SettingsAreUsed

(* The steps of recorder.main.                                             *)

(* The inductive invariant of recorder.main: what is read, what is         *)
(* planned, and whose configuration it is.                                 *)
MainInv ==
  /\ MainTypeOK /\ LoadInv /\ PlanInv
  /\ load \in {"open", "return", "loaded"} => Root = options.config

(* The types of what is on a disk.                                         *)
DiskOK(d) == \A e \in d : e.at \in Paths /\ e.kind \in Kinds /\ e.run \in 0 .. MaxRuns

(* A step of the recorder, or of a script, that changes none of what the   *)
(* recorder has read.                                                      *)
LEMMA MainIsKept ==
  ASSUME MainInv, UNCHANGED <<chain, options, plan, runs>>, main' \in Steps,
         main' \in {"prepare", "reset", "record"} => main \in {"prepare", "reset", "record"},
         main' = "plan" => main = "plan",
         status' \in {"none", "zero", "nonzero"}, failures' \in 0 .. MaxFailures, DiskOK(disk')
  PROVE  MainInv'
<1>1. LoadInv' /\ Root' = Root /\ ChainTypeOK'
  BY LoadIsKept DEF MainInv, MainTypeOK
<1>2. load' = load /\ options' = options /\ plan' = plan /\ runs' = runs
  BY DEF chain
<1>3. MainTypeOK'
  BY <1>1, <1>2 DEF MainInv, MainTypeOK, DiskOK
<1>4. PlanInv'
  BY <1>2, CurrentIsKept DEF MainInv, PlanInv
<1> QED
  BY <1>1, <1>2, <1>3, <1>4 DEF MainInv

(* The number of failures stays within its bound.                          *)
LEMMA FailuresType ==
  ASSUME failures \in 0 .. MaxFailures, Failure
  PROVE  failures' \in 0 .. MaxFailures
BY RecorderMainAssumption DEF Failure

(* recorder.main starts with a command line.                               *)
LEMMA StartKeepsMain ==
  ASSUME MainInv, NEW o, CommandLine(o), Start(o)
  PROVE  MainInv'
<1>1. /\ main' = "load" /\ options' = o /\ plan' = None /\ status' = "none" /\ runs' = runs + 1
      /\ runs < MaxRuns /\ UNCHANGED <<disk, failures>> /\ OpenConfig(o.config)
  BY DEF Start
<1>2. ChainTypeOK' /\ LoadInv' /\ Root' = o.config
  BY <1>1, BeginsLoad DEF MainInv, MainTypeOK, CommandLine
<1>3. runs' \in 0 .. MaxRuns
  BY <1>1, RecorderMainAssumption DEF MainInv, MainTypeOK
<1>4. MainTypeOK'
  BY <1>1, <1>2, <1>3 DEF MainInv, MainTypeOK, Steps
<1>5. PlanInv'
  BY <1>1 DEF PlanInv
<1> QED
  BY <1>1, <1>2, <1>4, <1>5 DEF MainInv

(* It loads its configuration.                                             *)
LEMMA LoadingKeepsMain ==
  ASSUME MainInv, Loading
  PROVE  MainInv'
<1>1. /\ main = "load" /\ Load /\ UNCHANGED <<options, plan, disk, runs, failures>>
      /\ IF load' = "refused" THEN Exits("nonzero")
         ELSE IF load' = "loaded" THEN main' = "plan" /\ UNCHANGED status
         ELSE UNCHANGED <<main, status>>
  BY DEF Loading
<1>2. ChainTypeOK' /\ LoadInv' /\ Root' = Root
  BY <1>1, OpenKeepsLoad, ReturnKeepsLoad DEF Load, MainInv, MainTypeOK
<1>3. load \in {"open", "return"}
  BY <1>1 DEF Load, Open, Return
<1>4. main' \in {"idle", "load", "plan"} /\ (main' = "plan" => load' = "loaded")
      /\ status' \in {"none", "zero", "nonzero"}
  BY <1>1 DEF Exits, MainInv, MainTypeOK
<1>5. MainTypeOK'
  BY <1>1, <1>2, <1>4 DEF MainInv, MainTypeOK, Steps
<1>6. plan' = None
  BY <1>1, <1>3 DEF MainInv, PlanInv, Current
<1>7. PlanInv'
  BY <1>4, <1>6 DEF PlanInv
<1> QED
  BY <1>1, <1>2, <1>3, <1>5, <1>7 DEF MainInv

(* It makes its plan.                                                      *)
LEMMA PlanKeepsMain ==
  ASSUME MainInv, Plan
  PROVE  MainInv'
<1>1. /\ main = "plan" /\ UNCHANGED <<chain, options, disk, runs, failures>>
      /\ load = "loaded" /\ load' = "loaded" /\ options' = options
  BY DEF Plan, MainInv, MainTypeOK, chain
<1>2. LoadInv' /\ Root' = Root /\ ChainTypeOK'
  BY <1>1, LoadIsKept DEF MainInv, MainTypeOK
<1>3. Configured' = Configured /\ Malformed' = Malformed /\ Chosen' = Chosen
  BY <1>1 DEF Configured, Malformed, chain, Chosen
<1>4. CASE UNCHANGED plan /\ Exits("nonzero")
  <2>1. MainTypeOK'
    BY <1>1, <1>2, <1>4 DEF MainInv, MainTypeOK, Exits, Steps
  <2>2. PlanInv'
    BY <1>1, <1>4, CurrentIsKept DEF MainInv, PlanInv, Exits
  <2> QED
    BY <1>1, <1>2, <2>1, <2>2 DEF MainInv
<1>5. CASE /\ ~Malformed /\ Valid(Configured)
           /\ L2Path(Chosen, options) # None /\ TracePath(Chosen) # None
           /\ plan' = Planned(Chosen, options)
           /\ IF options.dry THEN Exits("zero") ELSE main' = "prepare" /\ UNCHANGED status
  <2>1. /\ main' \in {"idle", "prepare"} /\ (main' = "prepare" => ~options.dry)
        /\ status' \in {"none", "zero", "nonzero"}
    BY <1>5 DEF Exits, MainInv, MainTypeOK
  <2>2. Current'
    BY <1>1, <1>3, <1>5 DEF Current
  <2>3. PlanInv'
    BY <1>1, <2>1, <2>2 DEF PlanInv
  <2>4. MainTypeOK'
    BY <1>1, <1>2, <2>1 DEF MainInv, MainTypeOK, Steps
  <2> QED
    BY <1>1, <1>2, <2>3, <2>4 DEF MainInv
<1> QED
  BY <1>4, <1>5 DEF Plan, Chosen

(* What a run writes is at a path.                                         *)
LEMMA WritesAtPaths ==
  ASSUME MainInv, main \in {"prepare", "reset", "record"}
  PROVE  /\ plan.l2 \in Paths /\ plan.mooncake \in Paths \cup {None} /\ options.output \in Paths
         /\ Append(plan.l2, "kv") \in Paths /\ Append(options.output, "trace") \in Paths
         /\ ~options.dry /\ runs \in 0 .. MaxRuns
         /\ (options.l2Path = None \/ \A t \in Traces : options.l2Path[t].from = "relative")
            => Below(plan.l2, Mountpoint)
<1>1. Current /\ Mappings(merged) /\ CommandLine(options) /\ ~options.dry /\ runs \in 0 .. MaxRuns
  BY DEF MainInv, PlanInv, LoadInv, MainTypeOK
<1>2. /\ plan.l2 \in Paths /\ plan.mooncake \in Paths \cup {None}
      /\ (options.l2Path = None \/ \A t \in Traces : options.l2Path[t].from = "relative")
         => Below(plan.l2, Mountpoint)
  BY <1>1, CurrentPlan
<1>3. options.output \in Paths /\ "kv" \in Names /\ "trace" \in Names
  BY <1>1, RecorderMainAssumption DEF CommandLine
<1> QED
  BY <1>1, <1>2, <1>3, BelowItself

(* It prepares the workload and its output directory.                      *)
LEMMA PrepareKeepsMain ==
  ASSUME MainInv, Prepare
  PROVE  MainInv'
<1>1. /\ main = "prepare" /\ UNCHANGED <<chain, options, plan, runs>>
      /\ \/ main' = "reset" /\ UNCHANGED <<status, failures>>
         \/ Failure /\ Exits("nonzero")
  BY DEF Prepare
<1>2. /\ plan.mooncake \in Paths \cup {None} /\ options.output \in Paths /\ runs \in 0 .. MaxRuns
      /\ 0 \in 0 .. MaxRuns
  BY <1>1, WritesAtPaths, RecorderMainAssumption
<1>3. \A e \in disk' : \/ e \in disk \/ e = Directory(options.output)
                       \/ plan.mooncake # None /\ e = Entry(plan.mooncake, "mooncake")
  BY DEF Prepare
<1>4. DiskOK(disk')
  BY <1>2, <1>3 DEF DiskOK, MainInv, MainTypeOK, Directory, Entry, Kinds
<1>5. failures' \in 0 .. MaxFailures /\ status' \in {"none", "zero", "nonzero"}
      /\ main' \in {"reset", "idle"}
  BY <1>1, FailuresType DEF MainInv, MainTypeOK, Exits
<1>6. main' \in Steps /\ main' # "plan"
  BY <1>5 DEF Steps
<1> QED
  BY <1>1, <1>4, <1>5, <1>6, MainIsKept

(* An emptied directory leaves a disk.                                     *)
LEMMA EmptiedOK ==
  ASSUME DiskOK(disk), NEW dir \in Paths
  PROVE  DiskOK(Emptied(dir))
BY RecorderMainAssumption DEF DiskOK, Emptied, Directory, Kinds

(* It resets the L2 path.                                                  *)
LEMMA ResetKeepsMain ==
  ASSUME MainInv, Reset
  PROVE  MainInv'
<1>1. /\ main = "reset" /\ UNCHANGED <<chain, options, plan, runs, failures>>
      /\ main' \in {"record", "idle"} /\ status' \in {"none", "zero", "nonzero"}
      /\ disk' = disk \/ disk' = Emptied(plan.l2)
  BY DEF Reset, Exits, MainInv, MainTypeOK
<1>2. plan.l2 \in Paths
  BY <1>1, WritesAtPaths
<1>3. DiskOK(disk')
  BY <1>1, <1>2, EmptiedOK DEF MainInv, MainTypeOK, DiskOK
<1>4. failures' \in 0 .. MaxFailures /\ main' \in Steps /\ main' # "plan"
  BY <1>1 DEF MainInv, MainTypeOK, Steps
<1> QED
  BY <1>1, <1>3, <1>4, MainIsKept

(* It records.                                                             *)
LEMMA RecordKeepsMain ==
  ASSUME MainInv, Record
  PROVE  MainInv'
<1>1. /\ main = "record" /\ UNCHANGED <<chain, options, plan, runs>>
      /\ \/ Exits("zero") /\ UNCHANGED failures
         \/ Failure /\ Exits("nonzero")
  BY DEF Record
<1>2. /\ plan.l2 \in Paths /\ Append(plan.l2, "kv") \in Paths
      /\ Append(options.output, "trace") \in Paths /\ runs \in 0 .. MaxRuns /\ 0 \in 0 .. MaxRuns
  BY <1>1, WritesAtPaths, RecorderMainAssumption
<1>3. \A e \in disk' : \/ e \in disk \/ e = Directory(plan.l2)
                       \/ e = Entry(Append(plan.l2, "kv"), "blocks")
                       \/ e = Entry(Append(options.output, "trace"), "trace")
  BY DEF Record
<1>4. DiskOK(disk')
  <2> SUFFICES ASSUME NEW e \in disk'
               PROVE  e.at \in Paths /\ e.kind \in Kinds /\ e.run \in 0 .. MaxRuns
    BY DEF DiskOK
  <2>1. CASE e \in disk
    BY <2>1 DEF MainInv, MainTypeOK
  <2>2. CASE e = Directory(plan.l2)
    BY <1>2, <2>2 DEF Directory, Kinds
  <2>3. CASE e = Entry(Append(plan.l2, "kv"), "blocks")
    BY <1>2, <2>3 DEF Entry, Kinds
  <2>4. CASE e = Entry(Append(options.output, "trace"), "trace")
    BY <1>2, <2>4 DEF Entry, Kinds
  <2> QED
    BY <1>3, <2>1, <2>2, <2>3, <2>4
<1>5. failures' \in 0 .. MaxFailures /\ status' \in {"none", "zero", "nonzero"} /\ main' = "idle"
  BY <1>1, FailuresType DEF MainInv, MainTypeOK, Exits
<1>6. main' \in Steps
  BY <1>5 DEF Steps
<1> QED
  BY <1>1, <1>4, <1>5, <1>6, MainIsKept

(* Anything of it fails.                                                   *)
LEMMA FailsKeepsMain ==
  ASSUME MainInv, Fails
  PROVE  MainInv'
<1>1. /\ UNCHANGED <<chain, options, plan, disk, runs>> /\ main' = "idle" /\ status' = "nonzero"
      /\ Failure
  BY DEF Fails, Exits
<1>2. failures' \in 0 .. MaxFailures /\ main' \in Steps /\ DiskOK(disk')
  BY <1>1, FailuresType DEF MainInv, MainTypeOK, Steps, DiskOK
<1> QED
  BY <1>1, <1>2, MainIsKept

(* Each of its steps.                                                      *)
LEMMA MainStepKeepsMain ==
  ASSUME MainInv, MainStep \/ Fails
  PROVE  MainInv' /\ main # "idle" /\ UNCHANGED <<options, runs>>
<1>1. MainInv'
  BY LoadingKeepsMain, PlanKeepsMain, PrepareKeepsMain, ResetKeepsMain, RecordKeepsMain,
     FailsKeepsMain DEF MainStep
<1>2. main # "idle" /\ UNCHANGED <<options, runs>>
  BY DEF MainStep, Loading, Plan, Prepare, Reset, Record, Fails
<1> QED
  BY <1>1, <1>2

(* A step of nobody.                                                       *)
LEMMA MainStutters ==
  ASSUME MainInv, UNCHANGED mainVars
  PROVE  MainInv'
<1>1. UNCHANGED <<chain, main, options, plan, status, disk, runs, failures>>
  BY DEF mainVars
<1>2. main' \in Steps /\ status' \in {"none", "zero", "nonzero"} /\ failures' \in 0 .. MaxFailures
      /\ DiskOK(disk')
  BY <1>1 DEF MainInv, MainTypeOK, DiskOK
<1> QED
  BY <1>1, <1>2, MainIsKept

(* Before the first run.                                                   *)
LEMMA MainInitially ==
  ASSUME MainInit
  PROVE  MainInv
<1>1. /\ contents \in Contents /\ load = "idle" /\ ancestry = <<>> /\ merged = <<>>
      /\ file = (CHOOSE f \in Files : TRUE) /\ options = (CHOOSE o \in Options : TRUE)
      /\ main = "idle" /\ plan = None /\ status = "none" /\ disk \in Disk /\ runs = 0 /\ failures = 0
  BY DEF MainInit
<1>2. file \in Files
  BY <1>1, ChainAssumption
<1>3. CommandLine(options)
  BY <1>1, RecorderMainAssumption
<1>4. ChainTypeOK
  BY <1>1, <1>2 DEF ChainTypeOK, Loads
<1>5. DiskOK(disk)
  BY <1>1, RecorderMainAssumption DEF DiskOK
<1>6. MainTypeOK
  BY <1>1, <1>3, <1>4, <1>5, RecorderMainAssumption DEF MainTypeOK, DiskOK, Steps
<1>7. LoadInv
  BY <1>1 DEF LoadInv, NoFileTwice
<1>8. PlanInv
  BY <1>1 DEF PlanInv
<1> QED
  BY <1>1, <1>6, <1>7, <1>8 DEF MainInv

(* The cases of a call.                                                    *)

(* What a quotient and a remainder are in.                                 *)
LEMMA Quotient ==
  ASSUME NEW x \in Nat, NEW d \in Nat \ {0}
  PROVE  /\ x \div d \in Nat /\ (x \div d) * d <= x
         /\ x % d \in 0 .. d - 1
OBVIOUS

(* Products keep the order.                                                *)
LEMMA Product ==
  ASSUME NEW a \in Nat, NEW b \in Nat, NEW d \in Nat \ {0}
  PROVE  /\ a * d \in Nat /\ b * d \in Nat
         /\ a * d < b * d => a < b
OBVIOUS

(* The numbers of a call.                                                  *)
LEMMA CallType ==
  ASSUME call \in Calls
  PROVE  /\ Len(call.workloads) \in Nat \ {0} /\ Len(call.speedups) \in Nat \ {0}
         /\ Cases \in Nat
         /\ \A i \in 1 .. Len(call.workloads) : call.workloads[i] \in DOMAIN L2Name
         /\ \A i \in 1 .. Len(call.speedups) : call.speedups[i] \in Names
         /\ call.keep \in BOOLEAN /\ call.dry \in BOOLEAN
<1>1. /\ call.workloads \in Seq(DOMAIN L2Name) \ {<<>>} /\ call.speedups \in Seq(Names) \ {<<>>}
      /\ call.keep \in BOOLEAN /\ call.dry \in BOOLEAN
  BY RecordSweepAssumption
<1>2. Len(call.workloads) \in Nat \ {0} /\ Len(call.speedups) \in Nat \ {0}
  BY <1>1
<1>3. Cases \in Nat
  BY <1>2, Product DEF Cases
<1> QED
  BY <1>1, <1>2, <1>3

(* Every number of a case is one of a workload and a speedup.              *)
LEMMA CaseType ==
  ASSUME call \in Calls, NEW i \in 1 .. Cases
  PROVE  /\ Workload(i) \in DOMAIN L2Name /\ Speedup(i) \in Names /\ L2Name[Workload(i)] \in Names
         /\ CommandLine(Case(i))
<1> DEFINE w == Len(call.workloads)
           d == Len(call.speedups)
           q == (i - 1) \div d
           r == (i - 1) % d
<1>0. w \in Nat \ {0} /\ d \in Nat \ {0} /\ Cases \in Nat
  BY CallType
<1>1. w \in Nat \ {0} /\ d \in Nat \ {0} /\ Cases = w * d /\ Cases \in Nat /\ i - 1 \in Nat /\ i - 1 < Cases
  <2>1. Cases = w * d
    BY DEF Cases
  <2> HIDE DEF w, d
  <2>2. i - 1 \in Nat /\ i - 1 < Cases
    BY <1>0
  <2> QED
    BY <1>0, <2>1, <2>2
<1>2. q \in Nat /\ q * d <= i - 1 /\ r \in 0 .. d - 1
  BY <1>1, Quotient
<1> HIDE DEF w, d, q, r
<1>3. q * d < w * d
  <2>1. q * d \in Nat /\ w * d \in Nat
    BY <1>1, <1>2, Product
  <2> QED
    BY <1>1, <1>2, <2>1
<1>4. q < w
  BY <1>1, <1>2, <1>3, Product
<1>5. q + 1 \in 1 .. w /\ r + 1 \in 1 .. d
  BY <1>1, <1>2, <1>4
<1>6. Workload(i) \in DOMAIN L2Name /\ Speedup(i) \in Names
  BY <1>5, CallType DEF Workload, Speedup, w, d, q, r
<1>7. L2Name[Workload(i)] \in Names /\ ConfigOf[Workload(i)] \in Files /\ Workload(i) \in Names
  BY <1>6, RecordSweepAssumption
<1>8. OutputRoot \o <<Workload(i), Speedup(i)>> \in Paths
  BY <1>6, <1>7, RecordSweepAssumption DEF Paths
<1>9. CommandLine(Case(i))
  BY <1>6, <1>7, <1>8, CallType DEF CommandLine, Case
<1> QED
  BY <1>6, <1>7, <1>9

(* The records of l2_usage.jsonl.                                          *)
Records ==
  [run : Nat, code : {"none", "zero", "nonzero"}, status : {"ok", "failed", "missing"},
   blocks : SUBSET Nat]

(* The recording at hand is the one of the case, and numbered by it; only  *)
(* one that is measured is cleaned.                                        *)
SweepInv ==
  /\ usage \in Seq(Records)
  /\ at \in {"main", "measure", "clean"} =>
       case \in 1 .. Cases /\ options = Case(case) /\ runs = base + case
  /\ at = "next" => main = "idle" /\ runs = base + case - 1
  /\ at \in {"measure", "clean"} => main = "idle" /\ Measured
  /\ at = "clean" => ~call.keep

(* The types of the script.                                                *)
SweepTypeOK ==
  /\ at \in {"idle", "next", "main", "measure", "clean"} /\ call \in Calls
  /\ case \in 1 .. Cases + 1
  /\ \A u \in Listed(usage) : u.run \in 1 .. runs /\ u.status \in {"ok", "failed", "missing"}
  /\ ended \in {"none", "zero", "nonzero", "broken"} /\ base \in 0 .. runs /\ calls \in 0 .. MaxCalls

(* The inductive invariant of the recorder and its scripts.                *)
RecordInv == MainInv /\ SweepTypeOK /\ SweepInv

(* The inductive invariant gives the types.                                *)
LEMMA RecordTypes == RecordInv => RecordTypeOK
BY DEF RecordInv, MainInv, RecordTypeOK, SweepTypeOK, Cases

(* What the script's part of the state is when only the recorder moves.    *)
LEMMA SweepIsKept ==
  ASSUME SweepTypeOK, SweepInv, runs \in Nat, runs' \in Nat, runs <= runs',
         UNCHANGED sweepVars, at # "idle" => UNCHANGED <<options, runs>>,
         at \in {"next", "measure", "clean"} => UNCHANGED main
  PROVE  SweepTypeOK' /\ SweepInv'
<1>1. UNCHANGED <<at, call, case, usage, ended, base, calls>>
  BY DEF sweepVars
<1>2. Cases' = Cases /\ Case(case)' = Case(case) /\ Measured' = (call.script = "speeds" /\ ~call.dry)
  BY <1>1 DEF Cases, Case, Workload, Speedup, Measured
<1>3. SweepTypeOK'
  BY <1>1, <1>2 DEF SweepTypeOK, Listed
<1>4. SweepInv'
  BY <1>1, <1>2 DEF SweepInv, SweepTypeOK, Measured
<1> QED
  BY <1>3, <1>4

(* The end of a case.                                                      *)
LEMMA AfterCaseIs ==
  ASSUME SweepTypeOK, call' = call, case \in 1 .. Cases, runs = base + case,
         NEW s \in {"none", "zero", "nonzero"}, AfterCase(s)
  PROVE  /\ at' \in {"next", "idle"} /\ case' \in 1 .. Cases + 1 /\ Cases' = Cases
         /\ ended' \in {"none", "zero", "nonzero", "broken"}
         /\ at' = "next" => runs = base + case' - 1
<1>1. Cases' = Cases /\ Cases \in Nat
  BY CallType DEF Cases, SweepTypeOK
<1>2. CASE s = "zero"
  <2>1. at' = "next" /\ case' = case + 1 /\ ended' = ended
    BY <1>2 DEF AfterCase
  <2>2. case + 1 \in 1 .. Cases + 1 /\ base \in Nat
    BY <1>1 DEF SweepTypeOK
  <2> QED
    BY <1>1, <2>1, <2>2 DEF SweepTypeOK
<1>3. CASE s # "zero"
  BY <1>1, <1>3 DEF AfterCase, Ends, SweepTypeOK
<1> QED
  BY <1>2, <1>3

(* Each action of a script.                                                *)
LEMMA CallKeeps ==
  ASSUME RecordInv, NEW c \in Calls, Call(c)
  PROVE  RecordInv'
<1>1. /\ at = "idle" /\ main = "idle" /\ calls < MaxCalls
      /\ at' = "next" /\ call' = c /\ case' = 1 /\ usage' = usage /\ ended' = "none"
      /\ base' = runs /\ calls' = calls + 1 /\ UNCHANGED mainVars
  BY DEF Call
<1>2. MainInv' /\ main' = main /\ runs' = runs
  BY <1>1, MainStutters DEF RecordInv, mainVars
<1>3. runs \in Nat /\ calls \in 0 .. MaxCalls /\ MaxCalls \in Nat
  BY RecordSweepAssumption DEF RecordInv, MainInv, SweepTypeOK, MainTypeOK
<1>4. Cases' \in Nat
  <2>1. /\ Len(c.workloads) \in Nat \ {0} /\ Len(c.speedups) \in Nat \ {0}
    BY RecordSweepAssumption
  <2>2. Cases' = Len(c.workloads) * Len(c.speedups)
    BY <1>1 DEF Cases
  <2> QED
    BY <2>1, <2>2, Product
<1>5. /\ Listed(usage)' = Listed(usage) /\ usage' \in Seq(Records)
      /\ \A u \in Listed(usage) : u.run \in 1 .. runs /\ u.status \in {"ok", "failed", "missing"}
  BY <1>1 DEF Listed, RecordInv, SweepInv, SweepTypeOK
<1>6. SweepTypeOK'
  <2>0. ASSUME NEW n \in Nat PROVE 1 \in 1 .. n + 1
    OBVIOUS
  <2>1. case' \in 1 .. Cases' + 1
    BY <1>1, <1>4, <2>0
  <2>2. base' \in 0 .. runs' /\ calls' \in 0 .. MaxCalls
    BY <1>1, <1>2, <1>3
  <2> QED
    BY <1>1, <1>2, <1>5, <2>1, <2>2 DEF SweepTypeOK
<1>7. SweepInv'
  <2>1. main' = "idle" /\ runs' = base' + case' - 1
    BY <1>1, <1>2, <1>3
  <2> QED
    BY <1>1, <1>5, <2>1 DEF SweepInv
<1> QED
  BY <1>2, <1>6, <1>7 DEF RecordInv

(* The next case, or the end of the script.                                *)
LEMMA NextCaseKeeps ==
  ASSUME RecordInv, NextCase
  PROVE  RecordInv'
<1>1. /\ at = "next" /\ UNCHANGED <<call, case, usage, base, calls>>
      /\ SweepTypeOK /\ runs = base + case - 1 /\ usage \in Seq(Records) /\ runs \in Nat /\ base \in Nat
  BY DEF NextCase, RecordInv, MainInv, SweepInv, MainTypeOK, SweepTypeOK
<1>2. Cases' = Cases /\ Cases \in Nat /\ Listed(usage)' = Listed(usage)
  BY <1>1, CallType DEF Cases, SweepTypeOK, Listed
<1>3. CASE case > Cases
  <2>1. Ends("zero") /\ UNCHANGED mainVars
    BY <1>3 DEF NextCase
  <2>2. MainInv' /\ runs' = runs
    BY <2>1, MainStutters DEF RecordInv, mainVars
  <2>3. SweepTypeOK' /\ SweepInv'
    BY <1>1, <1>2, <2>1, <2>2 DEF SweepTypeOK, SweepInv, Ends
  <2> QED
    BY <2>2, <2>3 DEF RecordInv
<1>4. CASE ~(case > Cases)
  <2>1. Start(Case(case)) /\ at' = "main" /\ UNCHANGED ended
    BY <1>4 DEF NextCase
  <2>2. case \in 1 .. Cases
    BY <1>1, <1>2, <1>4 DEF SweepTypeOK
  <2>3. CommandLine(Case(case))
    BY <1>1, <2>2, CaseType DEF SweepTypeOK
  <2>4. MainInv'
    BY <2>1, <2>3, StartKeepsMain DEF RecordInv
  <2>5. runs' = runs + 1 /\ options' = Case(case)
    BY <2>1 DEF Start
  <2>6. Case(case)' = Case(case)
    BY <1>1 DEF Case, Workload, Speedup
  <2>7. SweepTypeOK'
    BY <1>1, <1>2, <2>1, <2>5 DEF SweepTypeOK
  <2>8. SweepInv'
    BY <1>1, <1>2, <2>1, <2>2, <2>5, <2>6 DEF SweepInv
  <2> QED
    BY <2>4, <2>7, <2>8 DEF RecordInv
<1> QED
  BY <1>3, <1>4

(* A case ends.                                                            *)
LEMMA CaseEndsKeeps ==
  ASSUME RecordInv, CaseEnds
  PROVE  RecordInv'
<1>1. /\ at = "main" /\ main = "idle" /\ UNCHANGED <<mainVars, call, usage, base, calls>>
      /\ IF Measured THEN at' = "measure" /\ UNCHANGED <<case, ended>> ELSE AfterCase(status)
  BY DEF CaseEnds
<1>2. MainInv' /\ UNCHANGED <<main, options, runs>>
  BY <1>1, MainStutters DEF RecordInv, mainVars
<1>3. /\ SweepTypeOK /\ case \in 1 .. Cases /\ options = Case(case) /\ runs = base + case
      /\ usage \in Seq(Records) /\ status \in {"none", "zero", "nonzero"}
  BY <1>1 DEF RecordInv, SweepInv, MainInv, MainTypeOK
<1>4. Listed(usage)' = Listed(usage)
  BY <1>1 DEF Listed
<1>5. CASE Measured
  <2>1. UNCHANGED <<call, case, usage, base, calls, ended>> /\ at' = "measure"
    BY <1>1, <1>5
  <2>2. Cases' = Cases /\ Case(case)' = Case(case) /\ Measured'
    BY <1>5, <2>1 DEF Cases, Case, Workload, Speedup, Measured
  <2>3. SweepTypeOK'
    BY <1>2, <1>3, <1>4, <2>1, <2>2 DEF SweepTypeOK
  <2>4. SweepInv'
    BY <1>1, <1>2, <1>3, <2>1, <2>2 DEF SweepInv
  <2> QED
    BY <1>2, <2>3, <2>4 DEF RecordInv
<1>6. CASE ~Measured
  <2>1. /\ at' \in {"next", "idle"} /\ case' \in 1 .. Cases + 1 /\ Cases' = Cases
        /\ ended' \in {"none", "zero", "nonzero", "broken"}
        /\ at' = "next" => runs = base + case' - 1
    BY <1>1, <1>3, <1>6, AfterCaseIs
  <2>2. SweepTypeOK'
    BY <1>1, <1>2, <1>3, <1>4, <2>1 DEF SweepTypeOK
  <2>3. SweepInv'
    BY <1>1, <1>2, <1>3, <2>1 DEF SweepInv
  <2> QED
    BY <1>2, <2>2, <2>3 DEF RecordInv
<1> QED
  BY <1>5, <1>6

(* The record that a measurement adds.                                     *)
LEMMA ListedAppend ==
  ASSUME NEW S, NEW u \in Seq(S), NEW r \in S
  PROVE  Append(u, r) \in Seq(S) /\ Listed(Append(u, r)) = Listed(u) \cup {r}
<1>1. /\ Append(u, r) \in Seq(S) /\ Len(u) \in Nat /\ DOMAIN u = 1 .. Len(u)
      /\ DOMAIN Append(u, r) = 1 .. Len(u) + 1
      /\ \A i \in 1 .. Len(u) : Append(u, r)[i] = u[i]
      /\ Append(u, r)[Len(u) + 1] = r
  OBVIOUS
<1>2. ASSUME NEW x \in Listed(Append(u, r))
      PROVE  x \in Listed(u) \cup {r}
  <2>1. PICK i \in 1 .. Len(u) + 1 : x = Append(u, r)[i]
    BY <1>1 DEF Listed
  <2>2. CASE i = Len(u) + 1
    BY <1>1, <2>1, <2>2
  <2>3. CASE i # Len(u) + 1
    BY <1>1, <2>1, <2>3 DEF Listed
  <2> QED
    BY <2>2, <2>3
<1>3. ASSUME NEW x \in Listed(u)
      PROVE  x \in Listed(Append(u, r))
  <2>1. PICK i \in 1 .. Len(u) : x = u[i]
    BY <1>1 DEF Listed
  <2>2. i \in DOMAIN Append(u, r) /\ x = Append(u, r)[i]
    BY <1>1, <2>1
  <2> QED
    BY <2>2 DEF Listed
<1>4. r \in Listed(Append(u, r))
  <2>1. Len(u) + 1 \in DOMAIN Append(u, r)
    BY <1>1
  <2> QED
    BY <1>1, <2>1 DEF Listed
<1> QED
  BY <1>1, <1>2, <1>3, <1>4

(* record_case_l2_usage.                                                   *)
LEMMA MeasureKeeps ==
  ASSUME RecordInv, Measure
  PROVE  RecordInv'
<1>1. /\ at = "measure"
      /\ UNCHANGED <<chain, main, options, plan, status, disk, runs, call, base, calls>>
  BY DEF Measure
<1>2. /\ SweepTypeOK /\ case \in 1 .. Cases /\ options = Case(case) /\ runs = base + case
      /\ main = "idle" /\ Measured /\ usage \in Seq(Records)
      /\ status \in {"none", "zero", "nonzero"} /\ failures \in 0 .. MaxFailures
      /\ DiskOK(disk) /\ runs \in Nat
  BY <1>1 DEF RecordInv, SweepInv, MainInv, MainTypeOK, DiskOK
<1>3. Cases' = Cases /\ Cases \in Nat /\ Case(case) = options
  BY <1>1, <1>2, CallType DEF Cases, SweepTypeOK
<1>4. failures' \in 0 .. MaxFailures
  BY <1>2, FailuresType DEF Measure
<1>5. MainInv'
  BY <1>1, <1>2, <1>4, MainIsKept DEF RecordInv, Steps, DiskOK
<1>6. CASE Failure /\ Ends("broken") /\ UNCHANGED <<case, usage>>
  <2>1. SweepTypeOK' /\ SweepInv'
    BY <1>1, <1>2, <1>3, <1>6 DEF SweepTypeOK, SweepInv, Ends, Listed
  <2> QED
    BY <1>5, <2>1 DEF RecordInv
<1>7. ASSUME NEW s \in {"ok", "failed"},
             usage' = Append(usage,
               [run |-> runs, code |-> status,
                status |-> IF ~\E e \in disk : e.at = Walk(<<>>, CaseL2) THEN "missing" ELSE s,
                blocks |-> {e.run : e \in {d \in disk : d.kind = "blocks" /\ Below(d.at, Walk(<<>>, CaseL2))}}]),
             IF call.keep THEN AfterCase(status)
             ELSE at' = "clean" /\ UNCHANGED <<case, ended>>
      PROVE  RecordInv'
  <2> DEFINE r == [run |-> runs, code |-> status,
                status |-> IF ~\E e \in disk : e.at = Walk(<<>>, CaseL2) THEN "missing" ELSE s,
                blocks |-> {e.run : e \in {d \in disk : d.kind = "blocks" /\ Below(d.at, Walk(<<>>, CaseL2))}}]
  <2>1. r \in Records /\ r.run = runs /\ r.status \in {"ok", "failed", "missing"}
    <3>1. r.blocks \in SUBSET Nat
      BY <1>2 DEF DiskOK
    <3> QED
      BY <1>2, <3>1 DEF Records
  <2>2. usage' = Append(usage, r)
    BY <1>7
  <2> HIDE DEF r
  <2>3. usage' \in Seq(Records) /\ Listed(usage') = Listed(usage) \cup {r}
    BY <1>2, <2>1, <2>2, ListedAppend
  <2>4. \A u \in Listed(usage)' : u.run \in 1 .. runs' /\ u.status \in {"ok", "failed", "missing"}
    <3>1. runs \in 1 .. runs
      BY <1>2 DEF SweepTypeOK
    <3>2. Listed(usage)' = Listed(usage')
      BY DEF Listed
    <3> QED
      BY <1>1, <1>2, <2>1, <2>3, <3>1, <3>2 DEF SweepTypeOK
  <2>5. CASE call.keep
    <3>1. /\ at' \in {"next", "idle"} /\ case' \in 1 .. Cases + 1
          /\ ended' \in {"none", "zero", "nonzero", "broken"}
          /\ at' = "next" => runs = base + case' - 1
      BY <1>1, <1>2, <1>7, <2>5, AfterCaseIs
    <3>2. SweepTypeOK'
      BY <1>1, <1>2, <1>3, <2>4, <3>1 DEF SweepTypeOK
    <3>3. SweepInv'
      BY <1>1, <1>2, <2>3, <3>1 DEF SweepInv
    <3> QED
      BY <1>5, <3>2, <3>3 DEF RecordInv
  <2>6. CASE ~call.keep
    <3>1. at' = "clean" /\ UNCHANGED <<case, ended>>
      BY <1>7, <2>6
    <3>2. Case(case)' = Case(case) /\ Measured'
      BY <1>1, <1>2, <3>1 DEF Case, Workload, Speedup, Measured
    <3>3. SweepTypeOK'
      BY <1>1, <1>2, <1>3, <2>4, <3>1 DEF SweepTypeOK
    <3>4. SweepInv'
      BY <1>1, <1>2, <1>3, <2>3, <2>6, <3>1, <3>2 DEF SweepInv
    <3> QED
      BY <1>5, <3>3, <3>4 DEF RecordInv
  <2> QED
    BY <2>5, <2>6
<1> QED
  BY <1>6, <1>7 DEF Measure

(* clean_case_l2, which empties a directory below the mountpoint.          *)
LEMMA CleanKeeps ==
  ASSUME RecordInv, Clean
  PROVE  RecordInv' /\ CaseL2 \in Paths /\ Below(CaseL2, Mountpoint)
<1>1. /\ at = "clean"
      /\ UNCHANGED <<chain, main, options, plan, status, runs, failures, call, usage, base, calls>>
      /\ (Ends("broken") /\ UNCHANGED <<case, disk>>) \/ (disk' = Emptied(CaseL2) /\ AfterCase(status))
  BY DEF Clean
<1>2. /\ SweepTypeOK /\ case \in 1 .. Cases /\ options = Case(case) /\ runs = base + case
      /\ main = "idle" /\ Measured /\ usage \in Seq(Records)
      /\ status \in {"none", "zero", "nonzero"} /\ failures \in 0 .. MaxFailures
      /\ DiskOK(disk) /\ runs \in Nat
  BY <1>1 DEF RecordInv, SweepInv, MainInv, MainTypeOK, DiskOK
<1>3. Cases' = Cases /\ Cases \in Nat /\ Listed(usage)' = Listed(usage)
  BY <1>1, <1>2, CallType DEF Cases, SweepTypeOK, Listed
<1>4. CaseL2 \in Paths /\ Below(CaseL2, Mountpoint)
  <2>1. Mountpoint \in Paths /\ L2Name[Workload(case)] \in Names /\ "lmcache-trace" \in Names
    BY <1>2, CaseType, RecorderMainAssumption DEF SweepTypeOK
  <2> DEFINE m == Mountpoint
             x == L2Name[Workload(case)]
             l == m \o <<"lmcache-trace", x>>
  <2> HIDE DEF m, x
  <2>2. m \in Seq(Names) /\ <<"lmcache-trace", x>> \in Seq(Names)
    BY <2>1 DEF Paths, m, x
  <2>3. l \in Seq(Names) /\ Len(m) <= Len(l) /\ \A i \in 1 .. Len(m) : l[i] = m[i]
    BY <2>2
  <2>4. l \in Paths /\ m \in Paths
    BY <2>2, <2>3 DEF Paths
  <2>5. CaseL2 = l
    BY DEF CaseL2, m, x
  <2> HIDE DEF l
  <2>6. Below(l, m)
    BY <2>3, <2>4, BelowNames
  <2> QED
    BY <2>4, <2>5, <2>6 DEF m
<1>5. DiskOK(disk')
  BY <1>1, <1>2, <1>4, EmptiedOK DEF DiskOK
<1>6. MainInv'
  BY <1>1, <1>2, <1>5, MainIsKept DEF RecordInv, Steps
<1>7. /\ at' \in {"next", "idle"} /\ case' \in 1 .. Cases + 1
      /\ ended' \in {"none", "zero", "nonzero", "broken"}
      /\ at' = "next" => runs = base + case' - 1
  <2>1. CASE Ends("broken") /\ UNCHANGED <<case, disk>>
    BY <1>2, <1>3, <2>1 DEF Ends
  <2>2. CASE AfterCase(status)
    BY <1>1, <1>2, <2>2, AfterCaseIs
  <2> QED
    BY <1>1, <2>1, <2>2
<1>8. SweepTypeOK'
  BY <1>1, <1>2, <1>3, <1>7 DEF SweepTypeOK
<1>9. SweepInv'
  BY <1>1, <1>2, <1>7 DEF SweepInv
<1> QED
  BY <1>4, <1>6, <1>8, <1>9 DEF RecordInv

(* Ctrl-C.                                                                 *)
LEMMA InterruptedKeeps ==
  ASSUME RecordInv, Interrupted
  PROVE  RecordInv'
<1>1. /\ UNCHANGED <<chain, options, plan, disk, runs, call, case, usage, base, calls>>
      /\ Failure /\ at' = "idle" /\ ended' = "broken" /\ main' = "idle"
      /\ status' = IF main = "idle" THEN status ELSE "nonzero"
  BY DEF Interrupted, Ends
<1>2. failures' \in 0 .. MaxFailures /\ main' \in Steps /\ DiskOK(disk')
      /\ status' \in {"none", "zero", "nonzero"}
  BY <1>1, FailuresType DEF RecordInv, MainInv, MainTypeOK, Steps, DiskOK
<1>3. MainInv'
  BY <1>1, <1>2, MainIsKept DEF RecordInv
<1>4. Cases' = Cases /\ Listed(usage)' = Listed(usage)
  BY <1>1 DEF Cases, Listed
<1>5. SweepTypeOK' /\ SweepInv'
  BY <1>1, <1>4 DEF RecordInv, SweepTypeOK, SweepInv
<1> QED
  BY <1>3, <1>5 DEF RecordInv

(* recorder.main alone.                                                    *)
LEMMA RunKeeps ==
  ASSUME RecordInv, NEW o \in Options, Run(o)
  PROVE  RecordInv'
<1>1. at = "idle" /\ Start(o) /\ UNCHANGED sweepVars /\ runs' = runs + 1
  BY DEF Run, Start
<1>2. MainInv'
  BY <1>1, StartKeepsMain, RecorderMainAssumption DEF RecordInv
<1>3. runs \in Nat /\ runs' \in Nat /\ runs <= runs'
  BY <1>1 DEF RecordInv, MainInv, MainTypeOK
<1>4. SweepTypeOK' /\ SweepInv'
  BY <1>1, <1>3, SweepIsKept DEF RecordInv
<1> QED
  BY <1>2, <1>4 DEF RecordInv

(* A step of the recorder.                                                 *)
LEMMA MainStepKeeps ==
  ASSUME RecordInv, MainStep \/ Fails, UNCHANGED sweepVars
  PROVE  RecordInv'
<1>1. MainInv' /\ main # "idle" /\ UNCHANGED <<options, runs>>
  BY MainStepKeepsMain DEF RecordInv
<1>2. at \notin {"next", "measure", "clean"} /\ runs \in Nat /\ runs <= runs
  BY <1>1 DEF RecordInv, SweepInv, MainInv, MainTypeOK
<1>3. SweepTypeOK' /\ SweepInv'
  BY <1>1, <1>2, SweepIsKept DEF RecordInv
<1> QED
  BY <1>1, <1>3 DEF RecordInv

(* A step that changes nothing.                                            *)
LEMMA RecordStutters ==
  ASSUME RecordInv, UNCHANGED recordVars
  PROVE  RecordInv'
<1>1. UNCHANGED mainVars /\ UNCHANGED sweepVars /\ UNCHANGED <<main, options, runs>>
  BY DEF recordVars, mainVars
<1>2. MainInv'
  BY <1>1, MainStutters DEF RecordInv
<1>3. runs \in Nat /\ runs <= runs
  BY DEF RecordInv, MainInv, MainTypeOK
<1>4. SweepTypeOK' /\ SweepInv'
  BY <1>1, <1>3, SweepIsKept DEF RecordInv
<1> QED
  BY <1>2, <1>4 DEF RecordInv

(* Before the first call.                                                  *)
LEMMA RecordInitially ==
  ASSUME RecordInit
  PROVE  RecordInv
<1>1. /\ MainInit /\ at = "idle" /\ call = (CHOOSE c \in Calls : TRUE) /\ case = 1 /\ usage = <<>>
      /\ ended = "none" /\ base = 0 /\ calls = 0
  BY DEF RecordInit
<1>2. MainInv /\ runs = 0
  BY <1>1, MainInitially DEF MainInit
<1>3. call \in Calls
  BY <1>1, RecordSweepAssumption
<1>4. Cases \in Nat /\ MaxCalls \in Nat
  BY <1>3, CallType, RecordSweepAssumption
<1>5. Listed(usage) = {} /\ usage \in Seq(Records)
  BY <1>1 DEF Listed
<1>6. ASSUME NEW n \in Nat PROVE 1 \in 1 .. n + 1
  OBVIOUS
<1>7. case \in 1 .. Cases + 1
  BY <1>1, <1>4, <1>6
<1>8. SweepTypeOK /\ SweepInv
  BY <1>1, <1>2, <1>3, <1>4, <1>5, <1>7 DEF SweepTypeOK, SweepInv
<1> QED
  BY <1>2, <1>8 DEF RecordInv

(* Every step keeps the invariant: one lemma for each action.              *)
LEMMA RecordInductive ==
  ASSUME RecordInv, [RecordNext]_recordVars
  PROVE  RecordInv'
BY CallKeeps, NextCaseKeeps, CaseEndsKeeps, MeasureKeeps, CleanKeeps, InterruptedKeeps, RunKeeps,
   MainStepKeeps, RecordStutters DEF RecordNext

(* What the recorder has read, planned and written, and where its script   *)
(* is, belong together in every state: the types, the load, the plan and   *)
(* the case.                                                               *)
THEOREM RecordInvariant == RecordSpec => []RecordInv
<1>1. RecordInit => RecordInv
  BY RecordInitially
<1>2. RecordInv /\ [RecordNext]_recordVars => RecordInv'
  BY RecordInductive
<1> QED
  BY <1>1, <1>2, PTL DEF RecordSpec

(* The settings of a plan are those of the nearest file of the extends     *)
(* chain that says them, then of the defaults, under the options           *)
(* (config.py, _merge and load_config; main.py, main), for any files and   *)
(* command lines; no file is loaded twice in one chain.                    *)
THEOREM SettingsHold == RecordSpec => []SettingsInv
<1>1. RecordInv => SettingsInv
  <2> SUFFICES ASSUME RecordInv PROVE SettingsInv
    OBVIOUS
  <2>1. LoadInv /\ PlanInv
    BY DEF RecordInv, MainInv
  <2>2. NearestWins /\ SettingsAreUsed /\ NoFileTwice
    BY <2>1, LoadNearestWins, PlanUsesSettings DEF LoadInv
  <2> QED
    BY <2>2, RecordTypes DEF SettingsInv
<1> QED
  BY <1>1, RecordInvariant, PTL

(* What a recording, or a script after it, may remove.                     *)

(* Which steps remove anything, and where.                                 *)
LEMMA RemovedWhere ==
  ASSUME RecordInv, [RecordNext]_recordVars, NEW e \in Removed
  PROVE  \/ /\ main = "reset" /\ ~ResetRefused(plan.l2) /\ Below(e.at, plan.l2)
            /\ disk' = Emptied(plan.l2) /\ UNCHANGED <<options, sweepVars>>
         \/ /\ Clean /\ Below(e.at, CaseL2) /\ e.at # CaseL2 /\ UNCHANGED options
<1>1. e \in disk /\ \A d \in disk' : d.at # e.at
  BY DEF Removed
<1>2. disk' # disk
  BY <1>1
<1>3. CASE Prepare
  <2>1. e \in disk'
    BY <1>1, <1>3 DEF Prepare
  <2> QED
    BY <1>1, <2>1
<1>4. CASE Record
  <2>1. e \in disk' \/ e.at = Append(options.output, "trace")
    BY <1>1, <1>4 DEF Record
  <2>2. Entry(Append(options.output, "trace"), "trace") \in disk'
    BY <1>4 DEF Record
  <2>3. Entry(Append(options.output, "trace"), "trace").at = Append(options.output, "trace")
    BY DEF Entry
  <2> QED
    BY <1>1, <2>1, <2>2, <2>3
<1>5. CASE Reset /\ UNCHANGED sweepVars
  <2>1. disk' = Emptied(plan.l2) /\ ~ResetRefused(plan.l2) /\ main = "reset" /\ UNCHANGED options
    BY <1>2, <1>5 DEF Reset
  <2>2. Below(e.at, plan.l2)
    BY <1>1, <2>1 DEF Emptied
  <2> QED
    BY <1>5, <2>1, <2>2
<1>6. CASE Clean
  <2>1. disk' = Emptied(CaseL2) /\ UNCHANGED options
    BY <1>2, <1>6 DEF Clean
  <2>2. Below(e.at, CaseL2) /\ Directory(CaseL2) \in disk' /\ Directory(CaseL2).at = CaseL2
    BY <1>1, <2>1 DEF Emptied, Directory
  <2> QED
    BY <1>1, <1>6, <2>1, <2>2
<1>7. ~UNCHANGED recordVars
  BY <1>2 DEF recordVars, mainVars
<1>8. \A o \in Options : ~Run(o)
  BY <1>2 DEF Run, Start
<1>9. \A c \in Calls : ~Call(c)
  BY <1>2 DEF Call, mainVars
<1>10. ~NextCase /\ ~CaseEnds /\ ~Measure /\ ~Interrupted /\ ~Fails
  BY <1>2 DEF NextCase, CaseEnds, Measure, Interrupted, Fails, mainVars, Start
<1>11. ~Loading /\ ~Plan
  BY <1>2 DEF Loading, Plan
<1>12. (Reset /\ UNCHANGED sweepVars) \/ Prepare \/ Record \/ Clean
  BY <1>7, <1>8, <1>9, <1>10, <1>11 DEF RecordNext, MainStep
<1> QED
  BY <1>3, <1>4, <1>5, <1>6, <1>12

(* The three parts of RemovesSafely, as relations of two states.           *)
RemovesBelow ==
  \A e \in Removed :
    (options.l2Path = None \/ \A t \in Traces : options.l2Path[t].from = "relative") =>
      Below(e.at, Mountpoint)

(* What is removed is below the mountpoint.                                *)
LEMMA RemovedBelow ==
  ASSUME RecordInv, [RecordNext]_recordVars
  PROVE  RemovesBelow
<1> SUFFICES ASSUME NEW e \in Removed,
                    options.l2Path = None \/ \A t \in Traces : options.l2Path[t].from = "relative"
             PROVE  Below(e.at, Mountpoint)
  BY DEF RemovesBelow
<1>1. e.at \in Paths /\ Mountpoint \in Paths
  BY RecorderMainAssumption DEF Removed, RecordInv, MainInv, MainTypeOK
<1>2. CASE main = "reset" /\ Below(e.at, plan.l2)
  <2>1. plan.l2 \in Paths /\ Below(plan.l2, Mountpoint)
    BY <1>2, WritesAtPaths DEF RecordInv
  <2> QED
    BY <1>1, <1>2, <2>1, BelowTransitive
<1>3. CASE Clean /\ Below(e.at, CaseL2)
  <2>1. CaseL2 \in Paths /\ Below(CaseL2, Mountpoint)
    BY <1>3, CleanKeeps
  <2> QED
    BY <1>1, <1>3, <2>1, BelowTransitive
<1> QED
  BY <1>2, <1>3, RemovedWhere

Protects ==
  \A e \in Removed : ~(e.kind = "directory" /\ e.at \in {Cwd, Home, options.output})

(* The path of a case is below the directory of the scripts.               *)
LEMMA CaseBelow ==
  ASSUME call \in Calls, case \in 1 .. Cases
  PROVE  /\ Append(Mountpoint, "lmcache-trace") \in Paths
         /\ CaseL2 \in Paths
         /\ Below(CaseL2, Append(Mountpoint, "lmcache-trace"))
<1> DEFINE m == Append(Mountpoint, "lmcache-trace")
           x == L2Name[Workload(case)]
           l == Append(m, x)
<1>1. Mountpoint \in Paths /\ x \in Names /\ "lmcache-trace" \in Names
  BY CaseType, RecorderMainAssumption
<1>2. m \in Paths
  BY <1>1, BelowItself
<1>3. l \in Paths /\ Below(l, m)
  <2> HIDE DEF m, x
  <2> QED
    BY <1>1, <1>2, BelowItself
<1>4. CaseL2 = l
  <2> HIDE DEF x
  <2>1. CaseL2 = Mountpoint \o <<"lmcache-trace", x>>
    BY DEF CaseL2, x
  <2>2. Mountpoint \in Seq(Names)
    BY <1>1 DEF Paths
  <2> QED
    BY <1>1, <2>1, <2>2
<1> QED
  BY <1>2, <1>3, <1>4

(* No protected directory is removed: reset_l2_storage refuses it, and     *)
(* clean_case_l2 has none below its path.                                  *)
LEMMA RemovedUnprotected ==
  ASSUME Apart, RecordInv, [RecordNext]_recordVars
  PROVE  Protects
<1> SUFFICES ASSUME NEW e \in Removed, e.at \in {Cwd, Home, options.output}
             PROVE  FALSE
  BY DEF Protects
<1>1. e.at \in Paths
  BY DEF Removed, RecordInv, MainInv, MainTypeOK
<1>2. CASE ~ResetRefused(plan.l2) /\ Below(e.at, plan.l2)
  BY <1>2 DEF ResetRefused
<1>3. CASE Clean /\ Below(e.at, CaseL2)
  <2> DEFINE m == Append(Mountpoint, "lmcache-trace")
  <2>1. call \in Calls /\ case \in 1 .. Cases /\ options = Case(case)
    BY <1>3 DEF Clean, RecordInv, SweepInv, SweepTypeOK
  <2>2. m \in Paths /\ CaseL2 \in Paths /\ Below(CaseL2, m)
    BY <2>1, CaseBelow
  <2> HIDE DEF m
  <2>3. Below(e.at, m)
    BY <1>1, <1>3, <2>2, BelowTransitive
  <2>4. Workload(case) \in DOMAIN L2Name /\ Speedup(case) \in Names
    BY <2>1, CaseType
  <2>5. options.output = OutputRoot \o <<Workload(case), Speedup(case)>>
    BY <2>1 DEF Case
  <2>6. ~Below(Cwd, m) /\ ~Below(Home, m) /\ ~Below(options.output, m)
    BY <2>4, <2>5 DEF Apart, OutputsApart, m
  <2> QED
    BY <2>3, <2>6
<1> QED
  BY <1>2, <1>3, RemovedWhere

DryKeeps == options.dry /\ options' = options => disk' = disk

(* A dry run leaves the disk.                                              *)
LEMMA DryRunKeeps ==
  ASSUME RecordInv, [RecordNext]_recordVars
  PROVE  DryKeeps
<1> SUFFICES ASSUME options.dry, disk' # disk PROVE FALSE
  BY DEF DryKeeps
<1>1. ~UNCHANGED recordVars
  BY DEF recordVars, mainVars
<1>2. \A o \in Options : ~Run(o)
  BY DEF Run, Start
<1>3. \A c \in Calls : ~Call(c)
  BY DEF Call, mainVars
<1>4. ~NextCase /\ ~CaseEnds /\ ~Measure /\ ~Interrupted /\ ~Fails
  BY DEF NextCase, CaseEnds, Measure, Interrupted, Fails, mainVars, Start
<1>5. ~Loading /\ ~Plan
  BY DEF Loading, Plan
<1>6. main \in {"prepare", "reset", "record"} => ~options.dry
  BY DEF RecordInv, MainInv, PlanInv
<1>7. Prepare \/ Reset \/ Record \/ Clean
  BY <1>1, <1>2, <1>3, <1>4, <1>5 DEF RecordNext, MainStep
<1>8. CASE Prepare \/ Reset \/ Record
  BY <1>6, <1>8 DEF Prepare, Reset, Record
<1>9. CASE Clean
  <2>1. options = Case(case) /\ Measured
    BY <1>9 DEF Clean, RecordInv, SweepInv
  <2> QED
    BY <2>1 DEF Case, Measured
<1> QED
  BY <1>7, <1>8, <1>9

(* What a recording or a script removes is below the mountpoint, unless    *)
(* --l2-path names an absolute path, and never the current directory, the  *)
(* home or the output of the recording; a dry run changes nothing of the   *)
(* disk (live.py, reset_l2_storage; record_speed_sweep.sh, clean_case_l2). *)
(* clean_case_l2 protects no directory itself: that none of the three is   *)
(* where the scripts keep their blocks is Apart.                           *)
THEOREM RemovalHolds ==
  ASSUME Apart
  PROVE  RecordSpec => RemovesSafely
<1>1. RecordInv /\ [RecordNext]_recordVars => [RemovesBelow]_mainVars
  BY RemovedBelow
<1>2. RecordInv /\ [RecordNext]_recordVars => [Protects]_mainVars
  BY RemovedUnprotected
<1>3. RecordInv /\ [RecordNext]_recordVars => [DryKeeps]_mainVars
  BY DryRunKeeps
<1>4. RecordSpec => [][RemovesBelow]_mainVars
  BY <1>1, RecordInvariant, PTL DEF RecordSpec
<1>5. RecordSpec => [][Protects]_mainVars
  BY <1>2, RecordInvariant, PTL DEF RecordSpec
<1>6. RecordSpec => [][DryKeeps]_mainVars
  BY <1>3, RecordInvariant, PTL DEF RecordSpec
<1> QED
  BY <1>4, <1>5, <1>6, PTL DEF RemovesSafely, RemovesBelowMountpoint, RemovesBelow, KeepsProtected,
     Protects, DryRunKeepsDisk, DryKeeps

(* What the files mean does not change.                                    *)
LEMMA MeansIsKept ==
  ASSUME contents' = contents
  PROVE  /\ \A f, s, k : Means(f, s, k)' = Means(f, s, k)
         /\ \A f : Loadable(f)' <=> Loadable(f)
<1>1. \A f, k : Above(f, k)' = Above(f, k)
  BY DEF Above
<1>2. \A f : Tops(f)' = Tops(f)
  BY <1>1 DEF Tops
<1>3. \A f : Depth(f)' = Depth(f)
  BY <1>2 DEF Depth
<1>4. \A f, i, s : Says(f, i, s)' <=> Says(f, i, s)
  BY <1>1 DEF Says
<1>5. \A f, i, s : Section(f, i, s)' = Section(f, i, s)
  BY <1>1 DEF Section
<1>6. \A f, s, k : Nearest(f, s, k)' = Nearest(f, s, k)
  BY <1>3, <1>4, <1>5 DEF Nearest
<1>7. \A f, s, k : Means(f, s, k)' = Means(f, s, k)
  BY <1>5, <1>6 DEF Means
<1>8. \A f, n : Chained(f, n)' <=> Chained(f, n)
  BY <1>1 DEF Chained
<1>9. \A f : Loadable(f)' <=> Loadable(f)
  BY <1>8 DEF Loadable
<1> QED
  BY <1>7, <1>9

(* So what is agreed on stays agreed.                                      *)
LEMMA AgreedIsKept ==
  ASSUME Agreed, contents' = contents
  PROVE  Agreed'
<1>1. \A f, s, k : Means(f, s, k)' = Means(f, s, k)
  BY MeansIsKept
<1>2. \A f : Loadable(f)' <=> Loadable(f)
  BY MeansIsKept
<1>3. \A o : TraceMeant(o)' = TraceMeant(o)
  BY <1>1 DEF TraceMeant
<1>4. \A o : L2Meant(o)' = L2Meant(o)
  BY <1>1, <1>3 DEF L2Meant
<1>5. \A o : DownloadMeant(o)' = DownloadMeant(o)
  BY <1>1, <1>3 DEF DownloadMeant
<1>6. \A o : WorkloadMeant(o)' = WorkloadMeant(o)
  BY <1>1, <1>3 DEF WorkloadMeant
<1>7. \A o : DownloadsApart(o)' <=> DownloadsApart(o)
  BY <1>5 DEF DownloadsApart
<1>8. ScriptsAgree'
  BY <1>1, <1>2, <1>4, <1>6, <1>7 DEF Agreed, ScriptsAgree
<1>9. OthersApart'
  BY <1>2, <1>4, <1>6, <1>7 DEF Agreed, OthersApart
<1> QED
  BY <1>8, <1>9 DEF Agreed

(* No step writes a configuration.                                         *)
LEMMA ContentsStay ==
  ASSUME [RecordNext]_recordVars
  PROVE  contents' = contents
<1>1. UNCHANGED chain => contents' = contents
  BY DEF chain
<1>2. \A o : Start(o) => contents' = contents
  BY DEF Start, OpenConfig
<1>3. UNCHANGED mainVars => contents' = contents
  BY <1>1 DEF mainVars
<1>4. Loading => contents' = contents
  BY DEF Loading, Load, Open, Return
<1>5. Plan \/ Prepare \/ Reset \/ Record \/ Fails => contents' = contents
  BY <1>1 DEF Plan, Prepare, Reset, Record, Fails
<1>6. Measure \/ Clean \/ Interrupted \/ CaseEnds => contents' = contents
  BY <1>1, <1>3 DEF Measure, Clean, Interrupted, CaseEnds
<1>7. NextCase => contents' = contents
  BY <1>2, <1>3 DEF NextCase
<1>8. (\E o \in Options : Run(o)) \/ (\E c \in Calls : Call(c)) => contents' = contents
  BY <1>2, <1>3 DEF Run, Call
<1>9. UNCHANGED recordVars => contents' = contents
  BY <1>3 DEF recordVars
<1> QED
  BY <1>4, <1>5, <1>6, <1>7, <1>8, <1>9 DEF RecordNext, MainStep

(* The plan is what the nearest files and the options say.                 *)
LEMMA PlanMeant ==
  ASSUME MainInv, Current
  PROVE  /\ Loadable(options.config)
         /\ plan.l2 = L2Meant(options) /\ L2Meant(options) # None
         /\ plan.reset = Means(options.config, "l2", "reset")
         /\ plan.workload = WorkloadMeant(options)
         /\ plan.mooncake # None => plan.mooncake = DownloadMeant(options)
<1> DEFINE c == Configured
           o == options
           t == Traced(c, o)
<1>1. /\ load = "loaded" /\ ~Malformed /\ Returned /\ Mappings(merged) /\ ancestry = <<>>
      /\ CommandLine(o) /\ Root = o.config /\ plan = Planned(t, o) /\ L2Path(t, o) # None
  BY DEF Current, MainInv, LoadInv, MainTypeOK, Chosen
<1>2. file = o.config
  BY <1>1 DEF Root
<1>3. Loadable(o.config)
  <2>1. PICK n \in Nat : Chained(file, n)
    BY <1>1 DEF Returned
  <2> QED
    BY <1>2, <2>1 DEF Loadable, Chained
<1>4. \A s \in DOMAIN Fields : \A k \in Fields[s] : c[s][k] = Means(o.config, s, k)
  BY <1>1, <1>2, ConfiguredMeans DEF Value
<1>5. Complete(c)
  BY <1>1, ConfiguredIsComplete
<1>6. /\ {"l2", "workload", "mooncake"} \subseteq DOMAIN Fields
      /\ {"subpath", "reset"} \subseteq Fields["l2"]
      /\ {"backend", "source"} \subseteq Fields["workload"]
      /\ {"trace", "path"} \subseteq Fields["mooncake"]
  BY DEF Fields
<1>7. /\ c.l2.subpath = Means(o.config, "l2", "subpath") /\ c.l2.reset = Means(o.config, "l2", "reset")
      /\ c.workload.backend = Means(o.config, "workload", "backend")
      /\ c.workload.source = Means(o.config, "workload", "source")
      /\ c.mooncake.trace = Means(o.config, "mooncake", "trace")
      /\ c.mooncake.path = Means(o.config, "mooncake", "path")
  BY <1>4, <1>6
<1> HIDE DEF c
<1>8. /\ t.l2 = c.l2 /\ t.workload = c.workload
      /\ t.mooncake.trace = IF o.trace = None THEN c.mooncake.trace ELSE o.trace
      /\ t.mooncake.path = IF o.trace = None \/ o.path = None THEN c.mooncake.path ELSE o.path
  BY <1>5, TracedIs
<1> HIDE DEF t
<1>9. /\ plan.l2 = L2Path(t, o) /\ plan.reset = t.l2.reset
      /\ plan.workload = IF t.workload.backend = "mooncake" THEN t.mooncake.trace ELSE t.workload.source
      /\ plan.mooncake = IF t.workload.backend = "mooncake" THEN TracePath(t) ELSE None
  BY <1>1 DEF Planned
<1>10. t.mooncake.trace = TraceMeant(o)
  BY <1>7, <1>8 DEF TraceMeant
<1>11. L2Path(t, o) = L2Meant(o)
  BY <1>7, <1>8, <1>10 DEF L2Path, L2Meant
<1>12. TracePath(t) = DownloadMeant(o)
  BY <1>7, <1>8, <1>10 DEF TracePath, DownloadMeant
<1>13. plan.workload = WorkloadMeant(o)
  BY <1>7, <1>8, <1>9, <1>10 DEF WorkloadMeant
<1> QED
  BY <1>1, <1>3, <1>7, <1>8, <1>9, <1>11, <1>12, <1>13

(* The inductive invariant of the cases.                                   *)

(* A case is under way.                                                    *)
AtCase == at \in {"main", "measure", "clean"}

(* The case has been recorded.                                             *)
CaseRecorded == AtCase /\ main = "idle" /\ status = "zero" /\ ~call.dry

(* The sweep measures, and keeps no blocks.                                *)
Cleans == call.script = "speeds" /\ ~call.keep /\ ~call.dry

(* The blocks on the disk.                                                 *)
Blocks == {e \in disk : e.kind = "blocks"}

(* Case i has its trace, of this call.                                     *)
TraceThere(i) ==
  \E e \in disk : e.kind = "trace" /\ e.run > base /\ e.at = Append(Case(i).output, "trace")

(* The directories of the workloads hold what is theirs; what is on the    *)
(* disk is of a run that has been.                                         *)
DiskInv == Owned(disk) /\ \A e \in disk : e.run <= runs

(* Runs are numbered on, also those without a script after one.            *)
RunsInv ==
  /\ main # "idle" => runs > base
  /\ at # "idle" => ended = "none"
  /\ at = "idle" /\ main # "idle" => options \in Options
  /\ at = "idle" /\ ended \in {"zero", "nonzero"} =>
       /\ runs >= base + AtMost(case, Cases)
       /\ main # "idle" => runs > base + AtMost(case, Cases)

(* Where the blocks of a call are.                                         *)
BlocksInv ==
  /\ at = "main" /\ main = "record" => \A e \in Blocks : ~Below(e.at, CaseL2)
  /\ CaseRecorded => /\ \E e \in Blocks : Below(e.at, CaseL2)
                 /\ \A e \in Blocks : Below(e.at, CaseL2) => e.run = runs
  /\ AtCase => \A e \in Blocks : e.run = base + case => Below(e.at, CaseL2)
  /\ at # "idle" /\ Cleans => \A e \in Blocks : ~(base < e.run /\ e.run < base + case)
  /\ NoBlocksLeft

(* There is a usage record of each of the n recordings after b.            *)
UsageOf(s, b, n) == \A i \in 1 .. n : \E u \in Listed(s) : u.run = b + i

(* What there is for each case that is over.                               *)
TracesInv ==
  /\ at # "idle" /\ ~call.dry => \A i \in 1 .. case - 1 : TraceThere(i)
  /\ CaseRecorded => TraceThere(case)
  /\ at # "idle" /\ call.script = "speeds" /\ ~call.dry =>
       UsageOf(usage, base, IF at = "clean" THEN case ELSE case - 1)
  /\ ZeroIsRecorded /\ UsageIsOfRun

(* All four of them.                                                       *)
CasesIInv == DiskInv /\ RunsInv /\ BlocksInv /\ TracesInv

(* The directories of the workloads.                                       *)
LEMMA BelowStep ==
  ASSUME NEW p \in Paths, NEW d \in Paths, NEW x \in Names, NEW y \in Names,
         Below(Append(p, x), Append(d, y))
  PROVE  Below(p, d) /\ (Len(p) = Len(d) => x = y)
<1> DEFINE px == Append(p, x)
           dy == Append(d, y)
<1>1. /\ px \in Paths /\ dy \in Paths /\ Len(px) = Len(p) + 1 /\ Len(dy) = Len(d) + 1
      /\ Len(p) \in Nat /\ Len(d) \in Nat
      /\ px[Len(p) + 1] = x /\ dy[Len(d) + 1] = y
  BY DEF Paths
<1>2. \A i \in 1 .. Len(p) : px[i] = p[i]
  BY DEF Paths
<1>3. \A i \in 1 .. Len(d) : dy[i] = d[i]
  BY DEF Paths
<1> HIDE DEF px, dy
<1>4. Len(dy) <= Len(px) /\ \A i \in 1 .. Len(dy) : px[i] = dy[i]
  <2>1. Below(px, dy)
    BY DEF px, dy
  <2> QED
    BY <1>1, <2>1, BelowNames
<1>5. Len(d) <= Len(p) /\ \A i \in 1 .. Len(d) : p[i] = d[i]
  <2>1. Len(d) <= Len(p)
    BY <1>1, <1>4
  <2>2. ASSUME NEW i \in 1 .. Len(d) PROVE p[i] = d[i]
    <3>1. i \in 1 .. Len(dy) /\ i \in 1 .. Len(p)
      BY <1>1, <2>1
    <3> QED
      BY <3>1, <1>2, <1>3, <1>4
  <2> QED
    BY <2>1, <2>2
<1>6. Len(p) = Len(d) => x = y
  <2>1. Len(d) + 1 \in 1 .. Len(dy)
    BY <1>1
  <2> QED
    BY <2>1, <1>1, <1>4
<1> QED
  BY <1>5, <1>6, BelowNames

(* They are paths below the mountpoint.                                    *)
LEMMA L2OfType ==
  ASSUME NEW w \in DOMAIN L2Name
  PROVE  /\ Append(Mountpoint, "lmcache-trace") \in Paths /\ L2Name[w] \in Names
         /\ L2Of(w) \in Paths /\ Below(L2Of(w), Mountpoint)
         /\ Append(L2Of(w), "kv") \in Paths /\ Below(Append(L2Of(w), "kv"), L2Of(w))
         /\ "kv" \in Names /\ "trace" \in Names
<1> DEFINE m == Append(Mountpoint, "lmcache-trace")
<1>1. Mountpoint \in Paths /\ {"lmcache-trace", "kv", "trace"} \subseteq Names
  BY RecorderMainAssumption
<1>2. m \in Paths /\ Below(m, Mountpoint)
  BY <1>1, BelowItself
<1>3. L2Name[w] \in Names
  BY RecordSweepAssumption
<1>4. L2Of(w) = Append(m, L2Name[w])
  BY DEF L2Of
<1> HIDE DEF m
<1>5. L2Of(w) \in Paths /\ Below(L2Of(w), m)
  BY <1>2, <1>3, <1>4, BelowItself
<1>6. Below(L2Of(w), Mountpoint)
  BY <1>1, <1>2, <1>5, BelowTransitive
<1> QED
  BY <1>1, <1>2, <1>3, <1>5, <1>6, BelowItself DEF m

(* They are apart from each other.                                         *)
LEMMA L2OfDiffers ==
  ASSUME Agreed, NEW v \in DOMAIN L2Name, NEW w \in DOMAIN L2Name,
         Below(Append(L2Of(v), "kv"), L2Of(w))
  PROVE  v = w
<1> DEFINE m == Append(Mountpoint, "lmcache-trace")
<1>1. m \in Paths /\ L2Name[v] \in Names /\ L2Name[w] \in Names /\ L2Of(v) \in Paths
      /\ L2Of(v) = Append(m, L2Name[v]) /\ L2Of(w) = Append(m, L2Name[w]) /\ "kv" \in Names
  BY L2OfType DEF L2Of
<1>2. L2Name[v] = L2Name[w]
  <2> HIDE DEF m
  <2>1. Len(m) \in Nat
    BY <1>1 DEF Paths
  <2> DEFINE p == Append(m, L2Name[v])
             d == Append(m, L2Name[w])
             n == Len(m) + 1
  <2>2. p \in Paths /\ d \in Paths /\ Len(p) = n /\ Len(d) = n /\ p[n] = L2Name[v] /\ d[n] = L2Name[w]
    BY <1>1, <2>1 DEF Paths
  <2>3. p = L2Of(v) /\ d = L2Of(w) /\ n \in Nat \ {0}
    BY <1>1, <2>1
  <2> HIDE DEF p, d, n
  <2>4. Append(p, "kv") \in Paths /\ Append(p, "kv")[n] = p[n]
    BY <1>1, <2>2, <2>3 DEF Paths
  <2>5. Append(p, "kv")[n] = d[n]
    <3>1. Below(Append(p, "kv"), d)
      BY <2>3
    <3>2. n \in 1 .. Len(d)
      BY <2>2, <2>3
    <3> QED
      BY <2>2, <2>4, <3>1, <3>2, BelowNames
  <2> QED
    BY <2>2, <2>4, <2>5
<1> QED
  BY <1>2 DEF Agreed

(* The path of a case is the directory of its workload.                    *)
LEMMA CaseL2Is ==
  ASSUME call \in Calls, case \in 1 .. Cases
  PROVE  CaseL2 = L2Of(Workload(case)) /\ Workload(case) \in DOMAIN L2Name /\ CaseL2 \in Paths
<1> DEFINE x == L2Name[Workload(case)]
<1>1. Workload(case) \in DOMAIN L2Name /\ x \in Names
  BY CaseType
<1>2. Mountpoint \in Seq(Names) /\ "lmcache-trace" \in Names
  BY RecorderMainAssumption DEF Paths
<1>3. Append(Append(Mountpoint, "lmcache-trace"), x) = Mountpoint \o <<"lmcache-trace", x>>
  <2> HIDE DEF x
  <2> QED
    BY <1>1, <1>2
<1>4. CaseL2 = L2Of(Workload(case))
  BY <1>3 DEF CaseL2, L2Of
<1> QED
  BY <1>1, <1>4, L2OfType

(* The traces of the cases are not below them.                             *)
LEMMA CaseTraceApart ==
  ASSUME Agreed, call \in Calls, NEW i \in 1 .. Cases, NEW w \in DOMAIN L2Name
  PROVE  /\ ~Below(Append(Case(i).output, "trace"), L2Of(w))
         /\ Append(Case(i).output, "trace") \in Paths
         /\ \E v \in DOMAIN L2Name : \E x \in Names : Case(i).output = OutputRoot \o <<v, x>>
<1> DEFINE p == Case(i).output
           m == Append(Mountpoint, "lmcache-trace")
<1>1. p = OutputRoot \o <<Workload(i), Speedup(i)>>
  BY DEF Case
<1>2. Workload(i) \in DOMAIN L2Name /\ Speedup(i) \in Names /\ p \in Paths
  BY CaseType DEF CommandLine
<1>3. ~Below(p, m)
  BY <1>1, <1>2 DEF Agreed, OutputsApart
<1>4. m \in Paths /\ L2Name[w] \in Names /\ L2Of(w) = Append(m, L2Name[w]) /\ "trace" \in Names
  BY L2OfType DEF L2Of
<1> HIDE DEF p, m
<1>5. ~Below(Append(p, "trace"), L2Of(w))
  BY <1>2, <1>3, <1>4, BelowStep
<1>6. Append(p, "trace") \in Paths
  BY <1>2, <1>4, BelowItself
<1> QED
  BY <1>1, <1>2, <1>5, <1>6 DEF p

(* What a recording of a script writes, and where.                         *)
LEMMA InScript ==
  ASSUME RecordInv, Agreed, at = "main", main \in {"prepare", "reset", "record"}
  PROVE  /\ call \in Calls /\ case \in 1 .. Cases /\ options = Case(case) /\ ~call.dry
         /\ Workload(case) \in DOMAIN L2Name /\ CaseL2 = L2Of(Workload(case))
         /\ plan.l2 = CaseL2 /\ plan.reset = TRUE /\ plan.workload = Workload(case)
         /\ plan.mooncake # None => \A w \in DOMAIN L2Name : ~Below(plan.mooncake, L2Of(w))
<1> DEFINE w == Workload(case)
           o == CaseLine(w)
<1>1. call \in Calls /\ case \in 1 .. Cases /\ options = Case(case) /\ MainInv /\ Current /\ ~options.dry
  BY DEF RecordInv, SweepInv, SweepTypeOK, MainInv, PlanInv
<1>2. w \in DOMAIN L2Name /\ CaseL2 = L2Of(w)
  BY <1>1, CaseL2Is
<1>3. /\ options.config = ConfigOf[w] /\ options.trace = o.trace /\ options.path = None
      /\ options.l2Path = None /\ options.dry = call.dry
      /\ o.config = ConfigOf[w] /\ o.path = None /\ o.l2Path = None
  BY <1>1 DEF Case, CaseLine
<1> HIDE DEF w
<1>4. /\ Loadable(options.config) /\ plan.l2 = L2Meant(options)
      /\ plan.reset = Means(options.config, "l2", "reset") /\ plan.workload = WorkloadMeant(options)
      /\ plan.mooncake # None => plan.mooncake = DownloadMeant(options)
  BY <1>1, PlanMeant
<1>5. TraceMeant(options) = TraceMeant(o)
  BY <1>3 DEF TraceMeant
<1>6. L2Meant(options) = L2Meant(o) /\ WorkloadMeant(options) = WorkloadMeant(o)
  BY <1>3, <1>5 DEF L2Meant, WorkloadMeant
<1>7. DownloadMeant(options) = DownloadMeant(o)
  BY <1>3, <1>5 DEF DownloadMeant
<1> HIDE DEF o
<1>8. /\ L2Meant(o) = L2Of(w) /\ WorkloadMeant(o) = w
      /\ Means(ConfigOf[w], "l2", "reset") = TRUE /\ DownloadsApart(o)
  BY <1>2, <1>3, <1>4 DEF Agreed, ScriptsAgree, o
<1>9. plan.mooncake # None => \A v \in DOMAIN L2Name : ~Below(plan.mooncake, L2Of(v))
  BY <1>4, <1>7, <1>8 DEF DownloadsApart
<1> QED
  BY <1>1, <1>2, <1>3, <1>4, <1>6, <1>8, <1>9 DEF w

(* And a recording without one.                                            *)
LEMMA Alone ==
  ASSUME RecordInv, Agreed, options \in Options, main \in {"prepare", "reset", "record"}
  PROVE  /\ plan.mooncake # None => \A w \in DOMAIN L2Name : ~Below(plan.mooncake, L2Of(w))
         /\ \A w \in DOMAIN L2Name :
              /\ Below(Append(plan.l2, "kv"), L2Of(w)) => plan.workload = w
              /\ ~Below(Append(options.output, "trace"), L2Of(w))
              /\ \A x \in Names :
                   Below(Append(OutputRoot \o <<w, x>>, "trace"), plan.l2) =>
                     \E p \in {Cwd, Home, options.output} : Below(p, plan.l2)
<1>1. MainInv /\ Current
  BY DEF RecordInv, MainInv, PlanInv
<1>2. /\ Loadable(options.config) /\ plan.l2 = L2Meant(options) /\ L2Meant(options) # None
      /\ plan.workload = WorkloadMeant(options)
      /\ plan.mooncake # None => plan.mooncake = DownloadMeant(options)
  BY <1>1, PlanMeant
<1>3. DownloadsApart(options)
  BY <1>2 DEF Agreed, OthersApart
<1>4. \A w \in DOMAIN L2Name :
         /\ Below(Append(L2Meant(options), "kv"), L2Of(w)) => WorkloadMeant(options) = w
         /\ ~Below(Append(options.output, "trace"), L2Of(w))
         /\ \A x \in Names :
              Below(Append(OutputRoot \o <<w, x>>, "trace"), L2Meant(options)) =>
                \E p \in {Cwd, Home, options.output} : Below(p, L2Meant(options))
  BY <1>2 DEF Agreed, OthersApart
<1> QED
  BY <1>2, <1>3, <1>4 DEF DownloadsApart

(* Neither writes anything else below the directories of the workloads.    *)
LEMMA WritesApart ==
  ASSUME RecordInv, Agreed, RunsInv, main \in {"prepare", "reset", "record"}
  PROVE  /\ at \in {"idle", "main"}
         /\ plan.mooncake # None => \A w \in DOMAIN L2Name : ~Below(plan.mooncake, L2Of(w))
         /\ \A w \in DOMAIN L2Name :
              /\ Below(Append(plan.l2, "kv"), L2Of(w)) => plan.workload = w
              /\ ~Below(Append(options.output, "trace"), L2Of(w))
<1>1. at \in {"idle", "main"}
  BY DEF RecordInv, SweepInv, SweepTypeOK
<1>2. CASE at = "idle"
  BY <1>2, Alone DEF RunsInv
<1>3. CASE at = "main"
  <2>1. /\ call \in Calls /\ case \in 1 .. Cases /\ options = Case(case)
        /\ Workload(case) \in DOMAIN L2Name /\ CaseL2 = L2Of(Workload(case))
        /\ plan.l2 = CaseL2 /\ plan.workload = Workload(case)
        /\ plan.mooncake # None => \A w \in DOMAIN L2Name : ~Below(plan.mooncake, L2Of(w))
    BY <1>3, InScript
  <2>2. \A w \in DOMAIN L2Name : ~Below(Append(options.output, "trace"), L2Of(w))
    BY <2>1, CaseTraceApart
  <2>3. \A w \in DOMAIN L2Name :
          Below(Append(plan.l2, "kv"), L2Of(w)) => plan.workload = w
    BY <2>1, L2OfDiffers
  <2> QED
    BY <1>1, <2>1, <2>2, <2>3
<1> QED
  BY <1>1, <1>2, <1>3

(* Which steps leave the disk as it is.                                    *)
LEMMA DiskStays ==
  ASSUME [RecordNext]_recordVars
  PROVE  \/ disk' = disk
         \/ (Prepare \/ Reset \/ Record) /\ UNCHANGED sweepVars
         \/ Clean /\ disk' = Emptied(CaseL2) /\ AfterCase(status)
<1>1. (\A o \in Options : Run(o) => disk' = disk) /\ (\A c \in Calls : Call(c) => disk' = disk)
  BY DEF Run, Start, Call, mainVars
<1>2. NextCase \/ CaseEnds \/ Measure \/ Interrupted \/ Fails => disk' = disk
  BY DEF NextCase, CaseEnds, Measure, Interrupted, Fails, mainVars, Start
<1>3. Loading \/ Plan => disk' = disk
  BY DEF Loading, Plan
<1>4. Clean => disk' = disk \/ (disk' = Emptied(CaseL2) /\ AfterCase(status))
  BY DEF Clean
<1>5. UNCHANGED recordVars => disk' = disk
  BY DEF recordVars, mainVars
<1> QED
  BY <1>1, <1>2, <1>3, <1>4, <1>5 DEF RecordNext, MainStep

(* Runs are counted on.                                                    *)
LEMMA RunsGrow ==
  ASSUME RecordInv, [RecordNext]_recordVars
  PROVE  runs \in Nat /\ runs' \in Nat /\ runs <= runs'
<1>1. runs \in Nat
  BY DEF RecordInv, MainInv, MainTypeOK
<1>2. runs' = runs \/ runs' = runs + 1
  <2>1. UNCHANGED mainVars => runs' = runs
    BY DEF mainVars
  <2>2. \A o : Start(o) => runs' = runs + 1
    BY DEF Start
  <2>3. (\A o \in Options : Run(o) => runs' = runs + 1) /\ (\A c \in Calls : Call(c) => runs' = runs)
    BY <2>1, <2>2 DEF Run, Call
  <2>4. NextCase => runs' = runs \/ runs' = runs + 1
    BY <2>1, <2>2 DEF NextCase
  <2>5. CaseEnds \/ Measure \/ Clean \/ Interrupted \/ Fails => runs' = runs
    BY <2>1 DEF CaseEnds, Measure, Clean, Interrupted, Fails
  <2>6. MainStep => runs' = runs
    BY DEF MainStep, Loading, Plan, Prepare, Reset, Record
  <2>7. UNCHANGED recordVars => runs' = runs
    BY <2>1 DEF recordVars
  <2> QED
    BY <2>3, <2>4, <2>5, <2>6, <2>7 DEF RecordNext
<1> QED
  BY <1>1, <1>2

(* Emptying a directory brings nothing into it.                            *)
LEMMA EmptiedOwned ==
  ASSUME Owned(disk), NEW dir
  PROVE  Owned(Emptied(dir))
BY DEF Owned, Emptied, Directory

(* What the disk has of each workload.                                     *)
LEMMA DiskKept ==
  ASSUME RecordInv, Agreed, RunsInv, DiskInv, [RecordNext]_recordVars
  PROVE  DiskInv'
<1>1. runs \in Nat /\ runs' \in Nat /\ runs <= runs'
  BY RunsGrow
<1>2. \A e \in disk : e.run \in Nat /\ e.run <= runs'
  BY <1>1 DEF DiskInv, RecordInv, MainInv, MainTypeOK
<1>3. CASE disk' = disk
  <2>1. Owned(disk')
    BY <1>3 DEF DiskInv
  <2> QED
    BY <1>2, <1>3, <2>1 DEF DiskInv, Owned
<1>4. CASE Prepare
  <2>1. main = "prepare" /\ runs' = runs
    BY <1>4 DEF Prepare
  <2>2. \A e \in disk' : \/ e \in disk \/ e = Directory(options.output)
                         \/ plan.mooncake # None /\ e = Entry(plan.mooncake, "mooncake")
    BY <1>4 DEF Prepare
  <2>3. plan.mooncake # None => \A w \in DOMAIN L2Name : ~Below(plan.mooncake, L2Of(w))
    BY <2>1, WritesApart
  <2>4. ASSUME NEW w \in DOMAIN L2Name, NEW e \in disk', Below(e.at, L2Of(w))
        PROVE  e.kind = "directory" \/ (e.kind = "blocks" /\ e.workload = w)
    <3>1. CASE e \in disk
      BY <2>4, <3>1 DEF DiskInv, Owned
    <3>2. CASE e = Directory(options.output)
      BY <3>2 DEF Directory
    <3>3. CASE plan.mooncake # None /\ e = Entry(plan.mooncake, "mooncake")
      BY <2>3, <2>4, <3>3 DEF Entry
    <3> QED
      BY <2>2, <3>1, <3>2, <3>3
  <2>5. \A e \in disk' : e.run <= runs'
    BY <1>1, <1>2, <2>1, <2>2 DEF Directory, Entry
  <2> QED
    BY <2>4, <2>5 DEF DiskInv, Owned
<1>5. CASE \E dir : disk' = Emptied(dir)
  <2>1. PICK dir : disk' = Emptied(dir)
    BY <1>5
  <2>2. Owned(disk')
    BY <2>1, EmptiedOwned DEF DiskInv
  <2>3. \A e \in disk' : e.run <= runs'
    BY <1>1, <1>2, <2>1 DEF Emptied, Directory
  <2> QED
    BY <2>2, <2>3 DEF DiskInv, Owned
<1>6. CASE Record
  <2>1. main = "record" /\ runs' = runs
    BY <1>6 DEF Record
  <2>2. \A e \in disk' : \/ e \in disk \/ e = Directory(plan.l2)
                         \/ e = Entry(Append(plan.l2, "kv"), "blocks")
                         \/ e = Entry(Append(options.output, "trace"), "trace")
    BY <1>6 DEF Record
  <2>3. \A w \in DOMAIN L2Name :
          /\ Below(Append(plan.l2, "kv"), L2Of(w)) => plan.workload = w
          /\ ~Below(Append(options.output, "trace"), L2Of(w))
    BY <2>1, WritesApart
  <2>4. ASSUME NEW w \in DOMAIN L2Name, NEW e \in disk', Below(e.at, L2Of(w))
        PROVE  e.kind = "directory" \/ (e.kind = "blocks" /\ e.workload = w)
    <3>1. CASE e \in disk
      BY <2>4, <3>1 DEF DiskInv, Owned
    <3>2. CASE e = Directory(plan.l2)
      BY <3>2 DEF Directory
    <3>3. CASE e = Entry(Append(plan.l2, "kv"), "blocks")
      BY <2>3, <2>4, <3>3 DEF Entry
    <3>4. CASE e = Entry(Append(options.output, "trace"), "trace")
      BY <2>3, <2>4, <3>4 DEF Entry
    <3> QED
      BY <2>2, <3>1, <3>2, <3>3, <3>4
  <2>5. \A e \in disk' : e.run <= runs'
    BY <1>1, <1>2, <2>1, <2>2 DEF Directory, Entry
  <2> QED
    BY <2>4, <2>5 DEF DiskInv, Owned
<1>7. CASE Reset
  <2>1. disk' = disk \/ disk' = Emptied(plan.l2)
    BY <1>7 DEF Reset
  <2> QED
    BY <1>3, <1>5, <2>1
<1> QED
  BY <1>3, <1>4, <1>5, <1>6, <1>7, DiskStays

(* What a step of the recorder alone leaves of the script's state.         *)
LEMMA SweepStays ==
  ASSUME UNCHANGED sweepVars
  PROVE  /\ at' = at /\ call' = call /\ case' = case /\ usage' = usage /\ ended' = ended /\ base' = base
         /\ Cases' = Cases /\ CaseL2' = CaseL2
         /\ \A i : Case(i)' = Case(i)
<1>1. at' = at /\ call' = call /\ case' = case /\ usage' = usage /\ ended' = ended /\ base' = base
  BY DEF sweepVars
<1>2. Cases' = Cases /\ CaseL2' = CaseL2
  BY <1>1 DEF Cases, CaseL2, Workload
<1>3. \A i : Case(i)' = Case(i)
  BY <1>1 DEF Case, Workload, Speedup
<1> QED
  BY <1>1, <1>2, <1>3

(* The cases are those of the call.                                        *)
LEMMA CallStays ==
  ASSUME call' = call
  PROVE  Cases' = Cases /\ \A i : Case(i)' = Case(i)
BY DEF Cases, Case, Workload, Speedup

(* The smaller of two numbers.                                             *)
LEMMA AtMostIs ==
  ASSUME NEW a \in Nat, NEW b \in Nat
  PROVE  AtMost(a, b) \in Nat /\ AtMost(a, b) <= a /\ AtMost(a, b) <= b
BY DEF AtMost

(* What an end of a case does; s is the recorder's status.                 *)
LEMMA EndOfCase ==
  ASSUME NEW s, AfterCase(s)
  PROVE  \/ s = "zero" /\ at' = "next" /\ case' = case + 1 /\ ended' = ended
         \/ s # "zero" /\ at' = "idle" /\ case' = case /\ ended' = s
BY DEF AfterCase, Ends

(* The numbers of the script.                                              *)
LEMMA NumbersOf ==
  ASSUME RecordInv
  PROVE  /\ runs \in Nat /\ base \in Nat /\ case \in Nat \ {0} /\ Cases \in Nat
         /\ base <= runs /\ case <= Cases + 1 /\ call \in Calls
<1>1. runs \in Nat /\ base \in 0 .. runs /\ case \in 1 .. Cases + 1 /\ call \in Calls
  BY DEF RecordInv, MainInv, MainTypeOK, SweepTypeOK
<1>2. Cases \in Nat
  BY <1>1, CallType
<1> QED
  BY <1>1, <1>2

(* How runs are numbered stays.                                            *)
LEMMA RunsKept ==
  ASSUME RecordInv, RunsInv, [RecordNext]_recordVars
  PROVE  RunsInv'
<1> DEFINE k == AtMost(case, Cases)
<1>n. /\ runs \in Nat /\ base \in Nat /\ case \in Nat \ {0} /\ Cases \in Nat
      /\ base <= runs /\ case <= Cases + 1
  BY NumbersOf
<1>k. k \in Nat /\ k <= case /\ k <= Cases
  BY <1>n, AtMostIs
<1>1. ASSUME NEW o \in Options, Run(o) PROVE RunsInv'
  <2>1. at = "idle" /\ UNCHANGED sweepVars /\ runs' = runs + 1 /\ options' = o /\ main = "idle"
        /\ main' = "load"
    BY <1>1 DEF Run, Start
  <2>2. at' = "idle" /\ ended' = ended /\ base' = base /\ case' = case /\ Cases' = Cases
    BY <2>1, SweepStays
  <2>3. AtMost(case, Cases)' = k
    BY <2>2 DEF AtMost
  <2>4. runs' > base
    BY <1>n, <2>1
  <2>5. ended \in {"zero", "nonzero"} => runs >= base + k
    BY <2>1 DEF RunsInv
  <2>6. ended \in {"zero", "nonzero"} => runs' > base + k /\ runs' >= base + k
    BY <1>n, <1>k, <2>1, <2>5
  <2> HIDE DEF k
  <2> QED
    BY <2>1, <2>2, <2>3, <2>4, <2>6 DEF RunsInv
<1>2. ASSUME NEW c \in Calls, Call(c) PROVE RunsInv'
  <2>1. main' = "idle" /\ at' = "next" /\ ended' = "none"
    BY <1>2 DEF Call, mainVars
  <2> QED
    BY <2>1 DEF RunsInv
<1>3. CASE NextCase
  <2>1. UNCHANGED <<call, case, base>> /\ at = "next" /\ main = "idle" /\ runs = base + case - 1
        /\ ended = "none"
    BY <1>3 DEF NextCase, RecordInv, SweepInv, RunsInv
  <2>2. Cases' = Cases /\ AtMost(case, Cases)' = k
    BY <2>1, CallStays DEF AtMost
  <2>3. CASE case > Cases
    <3>1. at' = "idle" /\ ended' = "zero" /\ UNCHANGED mainVars
      BY <1>3, <2>3 DEF NextCase, Ends
    <3>2. main' = "idle" /\ runs' = runs
      BY <2>1, <3>1 DEF mainVars
    <3>3. runs >= base + k
      BY <1>n, <1>k, <2>1, <2>3
    <3> HIDE DEF k
    <3> QED
      BY <2>1, <2>2, <3>1, <3>2, <3>3 DEF RunsInv
  <2>4. CASE ~(case > Cases)
    <3>1. at' = "main" /\ ended' = ended /\ Start(Case(case))
      BY <1>3, <2>4 DEF NextCase
    <3>2. runs' = runs + 1
      BY <3>1 DEF Start
    <3>3. runs' > base'
      BY <1>n, <2>1, <3>2
    <3> QED
      BY <2>1, <3>1, <3>3 DEF RunsInv
  <2> QED
    BY <2>3, <2>4
<1>4. ASSUME at \in {"main", "measure", "clean"}, main = "idle", call' = call, base' = base,
             UNCHANGED <<main, runs, options>>, AfterCase(status)
      PROVE  RunsInv'
  <2>1. ended = "none" /\ runs = base + case
    BY <1>4 DEF RunsInv, RecordInv, SweepInv
  <2>2. CASE at' = "next" /\ ended' = ended
    BY <1>4, <2>1, <2>2 DEF RunsInv
  <2>3. CASE at' = "idle" /\ case' = case
    <3>1. Cases' = Cases /\ AtMost(case, Cases)' = k
      BY <1>4, <2>3, CallStays DEF AtMost
    <3>2. runs >= base + k
      BY <1>n, <1>k, <2>1
    <3> HIDE DEF k
    <3> QED
      BY <1>4, <2>3, <3>1, <3>2 DEF RunsInv
  <2> QED
    BY <1>4, <2>2, <2>3, EndOfCase
<1>5. ASSUME at # "idle", at' # "idle", ended' = ended, main' = "idle"
      PROVE  RunsInv'
  BY <1>5 DEF RunsInv
<1>6. ASSUME at' = "idle", ended' = "broken", main' = "idle"
      PROVE  RunsInv'
  BY <1>6 DEF RunsInv
<1>7. CASE CaseEnds
  <2>1. at = "main" /\ main = "idle" /\ UNCHANGED <<mainVars, call, base>>
        /\ ((at' = "measure" /\ ended' = ended) \/ AfterCase(status))
    BY <1>7 DEF CaseEnds
  <2>2. UNCHANGED <<main, runs, options>>
    BY <2>1 DEF mainVars
  <2>3. main' = "idle"
    BY <2>1, <2>2
  <2> QED
    BY <2>1, <2>2, <2>3, <1>4, <1>5
<1>8. CASE Measure
  <2>1. at = "measure" /\ UNCHANGED <<main, runs, options, call, base>> /\ main = "idle"
    BY <1>8 DEF Measure, RecordInv, SweepInv
  <2>2. \/ AfterCase(status) \/ (at' = "clean" /\ ended' = ended) \/ (at' = "idle" /\ ended' = "broken")
    BY <1>8 DEF Measure, Ends
  <2>3. main' = "idle"
    BY <2>1
  <2> QED
    BY <2>1, <2>2, <2>3, <1>4, <1>5, <1>6
<1>9. CASE Clean
  <2>1. at = "clean" /\ UNCHANGED <<main, runs, options, call, base>> /\ main = "idle"
    BY <1>9 DEF Clean, RecordInv, SweepInv
  <2>2. AfterCase(status) \/ (at' = "idle" /\ ended' = "broken")
    BY <1>9 DEF Clean, Ends
  <2>3. main' = "idle"
    BY <2>1
  <2> QED
    BY <2>1, <2>2, <2>3, <1>4, <1>6
<1>10. CASE Interrupted
  BY <1>10, <1>6 DEF Interrupted, Ends
<1>11. ASSUME UNCHANGED sweepVars, UNCHANGED <<options, runs>>, main = "idle" => main' = "idle"
       PROVE  RunsInv'
  <2>1. /\ at' = at /\ ended' = ended /\ base' = base /\ case' = case /\ Cases' = Cases
        /\ options' = options /\ runs' = runs
    BY <1>11, SweepStays
  <2>2. AtMost(case, Cases)' = AtMost(case, Cases)
    BY <2>1 DEF AtMost
  <2> QED
    BY <1>11, <2>1, <2>2 DEF RunsInv
<1>12. CASE (MainStep \/ Fails) /\ UNCHANGED sweepVars
  <2>1. main # "idle" /\ UNCHANGED <<options, runs>>
    BY <1>12, MainStepKeepsMain DEF RecordInv
  <2> QED
    BY <1>12, <2>1, <1>11
<1>13. CASE UNCHANGED recordVars
  <2>1. UNCHANGED sweepVars /\ UNCHANGED <<main, options, runs>>
    BY <1>13 DEF recordVars, mainVars
  <2> QED
    BY <2>1, <1>11
<1> QED
  BY <1>1, <1>2, <1>3, <1>7, <1>8, <1>9, <1>10, <1>12, <1>13 DEF RecordNext

(* The blocks of a call.                                                   *)

(* A step of the recorder that makes no blocks.                            *)
LEMMA FewerBlocks ==
  ASSUME BlocksInv, UNCHANGED sweepVars, Blocks' \subseteq Blocks,
         ~(main' = "idle" /\ status' = "zero" /\ ~call.dry) \/ at = "idle",
         at = "main" /\ main' = "record" => \A e \in Blocks' : ~Below(e.at, CaseL2)
  PROVE  BlocksInv'
<1>1. /\ at' = at /\ call' = call /\ case' = case /\ ended' = ended /\ base' = base
      /\ Cases' = Cases /\ CaseL2' = CaseL2
  BY SweepStays
<1>2. ~CaseRecorded' /\ (AtCase' <=> AtCase) /\ (Cleans' <=> Cleans)
  BY <1>1 DEF CaseRecorded, AtCase, Cleans
<1>3. AtMost(case, Cases)' = AtMost(case, Cases)
  BY <1>1 DEF AtMost
<1>4. NoBlocksLeft'
  <2> SUFFICES ASSUME ended' \in {"zero", "nonzero"} /\ call'.script = "speeds" /\ ~call'.keep /\ ~call'.dry,
                      NEW e \in disk', e.kind = "blocks" /\ e.run > base' /\ e.run <= base' + AtMost(case, Cases)'
               PROVE  FALSE
    BY DEF NoBlocksLeft
  <2>1. e \in Blocks
    BY DEF Blocks
  <2>2. e \in disk /\ e.kind = "blocks" /\ e.run > base /\ e.run <= base + AtMost(case, Cases)
    BY <2>1, <1>1, <1>3 DEF Blocks
  <2> QED
    BY <1>1, <2>2 DEF BlocksInv, NoBlocksLeft
<1>5. at' = "main" /\ main' = "record" => \A e \in Blocks' : ~Below(e.at, CaseL2')
  BY <1>1
<1>6. AtCase' => \A e \in Blocks' : e.run = base' + case' => Below(e.at, CaseL2')
  BY <1>1, <1>2 DEF BlocksInv
<1>7. at' # "idle" /\ Cleans' => \A e \in Blocks' : ~(base' < e.run /\ e.run < base' + case')
  BY <1>1, <1>2 DEF BlocksInv
<1> QED
  BY <1>2, <1>4, <1>5, <1>6, <1>7 DEF BlocksInv

(* A step of a script that leaves the disk, within a case.                 *)
LEMMA SameBlocks ==
  ASSUME BlocksInv, UNCHANGED <<disk, main, status, call, case, base, runs>>,
         (at' = at /\ ended' = ended) \/ (AtCase /\ at' \in {"measure", "clean"} /\ ended' = "none")
  PROVE  BlocksInv'
<1>1. Cases' = Cases /\ CaseL2' = CaseL2 /\ (Cleans' <=> Cleans) /\ Blocks' = Blocks
      /\ AtMost(case, Cases)' = AtMost(case, Cases)
  BY CallStays DEF Cases, CaseL2, Workload, Cleans, Blocks, AtMost
<1>2. CASE at' = at /\ ended' = ended
  <2>1. (CaseRecorded' <=> CaseRecorded) /\ (AtCase' <=> AtCase) /\ (NoBlocksLeft' <=> NoBlocksLeft)
    BY <1>1, <1>2 DEF CaseRecorded, AtCase, NoBlocksLeft
  <2> QED
    BY <1>1, <1>2, <2>1 DEF BlocksInv
<1>3. CASE AtCase /\ at' \in {"measure", "clean"} /\ ended' = "none"
  <2>1. (CaseRecorded' <=> CaseRecorded) /\ (AtCase' <=> AtCase) /\ NoBlocksLeft'
    BY <1>1, <1>3 DEF CaseRecorded, AtCase, NoBlocksLeft
  <2> QED
    BY <1>1, <1>3, <2>1 DEF BlocksInv, AtCase
<1> QED
  BY <1>2, <1>3

(* A step after which the blocks are nobody's concern.                     *)
LEMMA NoMoreBlocks ==
  ASSUME at' \in {"next", "idle"}, at' # "idle" => ended' = "none", ~Cleans' \/ ended' = "broken"
  PROVE  BlocksInv'
<1>1. ~AtCase' /\ ~CaseRecorded' /\ NoBlocksLeft' /\ at' # "main"
  BY DEF AtCase, CaseRecorded, NoBlocksLeft, Cleans
<1>2. ~(at' # "idle" /\ Cleans')
  OBVIOUS
<1> QED
  BY <1>1, <1>2 DEF BlocksInv

(* The steps of the recorder.                                              *)
LEMMA MainBlocks ==
  ASSUME RecordInv, Agreed, RunsInv, BlocksInv, MainStep \/ Fails, UNCHANGED sweepVars
  PROVE  BlocksInv'
<1>1. main # "idle" /\ at \in {"idle", "main"} /\ UNCHANGED <<options, runs>>
  BY MainStepKeepsMain DEF RecordInv, SweepInv, SweepTypeOK
<1>2. CASE Loading \/ Fails
  <2>1. disk' = disk /\ main' # "record" /\ ~(main' = "idle" /\ status' = "zero")
    BY <1>1, <1>2 DEF Loading, Fails, Exits
  <2>2. Blocks' = Blocks
    BY <2>1 DEF Blocks
  <2> QED
    BY <1>1, <2>1, <2>2, FewerBlocks
<1>3. CASE Plan
  <2>1. disk' = disk /\ main' # "record" /\ (main' = "idle" /\ status' = "zero" => options.dry)
    BY <1>1, <1>3 DEF Plan, Exits
  <2>2. at = "main" => options.dry = call.dry
    BY DEF RecordInv, SweepInv, Case
  <2>3. Blocks' = Blocks
    BY <2>1 DEF Blocks
  <2> QED
    BY <1>1, <2>1, <2>2, <2>3, FewerBlocks
<1>4. CASE Prepare
  <2>1. main' # "record" /\ ~(main' = "idle" /\ status' = "zero")
    BY <1>1, <1>4 DEF Prepare, Exits
  <2>2. \A e \in disk' : e \in disk \/ e.kind # "blocks"
    BY <1>4 DEF Prepare, Directory, Entry
  <2>3. Blocks' \subseteq Blocks
    BY <2>2 DEF Blocks
  <2> QED
    BY <1>1, <2>1, <2>3, FewerBlocks
<1>5. CASE Reset
  <2>1. /\ main = "reset" /\ (disk' = disk \/ disk' = Emptied(plan.l2))
        /\ ~(main' = "idle" /\ status' = "zero")
        /\ main' = "record" /\ plan.reset => disk' = Emptied(plan.l2)
    BY <1>5 DEF Reset, Exits
  <2>2. \A e \in disk' : e \in disk \/ e.kind # "blocks"
    BY <2>1 DEF Emptied, Directory
  <2>3. Blocks' \subseteq Blocks
    BY <2>2 DEF Blocks
  <2>4. ASSUME at = "main", main' = "record", NEW e \in Blocks'
        PROVE  ~Below(e.at, CaseL2)
    <3>0. at = "main" /\ main \in {"prepare", "reset", "record"}
      BY <2>1, <2>4
    <3>1. plan.l2 = CaseL2 /\ plan.reset = TRUE
      BY <3>0, InScript
    <3>2. disk' = Emptied(CaseL2) /\ e \in disk' /\ e.kind = "blocks"
      BY <2>1, <2>4, <3>1 DEF Blocks
    <3> QED
      BY <3>2 DEF Emptied, Directory
  <2> QED
    BY <1>1, <2>1, <2>3, <2>4, FewerBlocks
<1>6. CASE Record
  <2> DEFINE new == Entry(Append(plan.l2, "kv"), "blocks")
  <2>1. /\ main = "record" /\ main' = "idle"
        /\ \A e \in disk' : e \in disk \/ e = new \/ e.kind # "blocks"
        /\ new \in disk'
    BY <1>6 DEF Record, Exits, Directory, Entry
  <2>2. new.kind = "blocks" /\ new.run = runs /\ new.at = Append(plan.l2, "kv")
    BY DEF Entry
  <2> HIDE DEF new
  <2>3. Blocks' \subseteq Blocks \cup {new} /\ new \in Blocks'
    BY <2>1, <2>2 DEF Blocks
  <2>4. /\ at' = at /\ call' = call /\ case' = case /\ ended' = ended /\ base' = base /\ runs' = runs
        /\ Cases' = Cases /\ CaseL2' = CaseL2
    BY <1>1, SweepStays
  <2>n. runs \in Nat /\ base \in Nat /\ case \in Nat \ {0} /\ Cases \in Nat
    BY NumbersOf
  <2>5. CASE at = "main"
    <3>1. /\ plan.l2 = CaseL2 /\ call \in Calls /\ CaseL2 = L2Of(Workload(case))
          /\ Workload(case) \in DOMAIN L2Name /\ runs = base + case
      BY <2>1, <2>5, InScript DEF RecordInv, SweepInv
    <3>2. Below(new.at, CaseL2)
      BY <2>2, <3>1, L2OfType
    <3>3. \A e \in Blocks : ~Below(e.at, CaseL2)
      BY <2>1, <2>5 DEF BlocksInv
    <3>4. NoBlocksLeft'
      BY <2>4, <2>5 DEF NoBlocksLeft, RunsInv
    <3>5. CaseRecorded' => /\ \E e \in Blocks' : Below(e.at, CaseL2')
                       /\ \A e \in Blocks' : Below(e.at, CaseL2') => e.run = runs'
      BY <2>2, <2>3, <2>4, <3>2, <3>3
    <3>6. AtCase' => \A e \in Blocks' : e.run = base' + case' => Below(e.at, CaseL2')
      BY <2>3, <2>4, <2>5, <3>2 DEF BlocksInv, AtCase
    <3>7. at' # "idle" /\ Cleans' => \A e \in Blocks' : ~(base' < e.run /\ e.run < base' + case')
      <4>1. Cleans' <=> Cleans
        BY <2>4 DEF Cleans
      <4>2. ~(new.run < base + case)
        BY <2>n, <2>2, <3>1
      <4> QED
        BY <2>3, <2>4, <2>5, <4>1, <4>2 DEF BlocksInv
    <3> QED
      BY <2>1, <3>4, <3>5, <3>6, <3>7 DEF BlocksInv
  <2>6. CASE at = "idle"
    <3>1. ~AtCase' /\ ~CaseRecorded' /\ at' = "idle" /\ AtMost(case, Cases)' = AtMost(case, Cases)
      BY <2>4, <2>6 DEF AtCase, CaseRecorded, AtMost
    <3>2. NoBlocksLeft'
      <4> SUFFICES ASSUME ended' \in {"zero", "nonzero"} /\ call'.script = "speeds" /\ ~call'.keep /\ ~call'.dry,
                          NEW e \in disk', e.kind = "blocks" /\ e.run > base' /\ e.run <= base' + AtMost(case, Cases)'
                   PROVE  FALSE
        BY DEF NoBlocksLeft
      <4>1. runs > base + AtMost(case, Cases)
        BY <1>1, <2>4, <2>6 DEF RunsInv
      <4>2. AtMost(case, Cases) \in Nat
        BY <2>n, AtMostIs
      <4>3. e # new
        BY <2>n, <2>2, <2>4, <3>1, <4>1, <4>2
      <4>4. e \in disk /\ e.kind = "blocks" /\ e.run > base /\ e.run <= base + AtMost(case, Cases)
        BY <2>1, <2>4, <3>1, <4>3
      <4> QED
        BY <2>4, <4>4 DEF BlocksInv, NoBlocksLeft
    <3> QED
      BY <3>1, <3>2 DEF BlocksInv
  <2> QED
    BY <1>1, <2>5, <2>6
<1> QED
  BY <1>2, <1>3, <1>4, <1>5, <1>6 DEF MainStep

(* Where the blocks of a call are stays: one step for each action.         *)
LEMMA BlocksKept ==
  ASSUME RecordInv, Agreed, RunsInv, DiskInv, BlocksInv, [RecordNext]_recordVars
  PROVE  BlocksInv'
<1>n. /\ runs \in Nat /\ base \in Nat /\ case \in Nat \ {0} /\ Cases \in Nat
      /\ base <= runs /\ case <= Cases + 1
  BY NumbersOf
<1>m. \A e \in disk : e.run \in Nat /\ e.run <= runs
  BY DEF DiskInv, RecordInv, MainInv, MainTypeOK
<1>1. ASSUME NEW o \in Options, Run(o) PROVE BlocksInv'
  <2>1. at = "idle" /\ UNCHANGED sweepVars /\ disk' = disk
    BY <1>1 DEF Run, Start
  <2>2. Blocks' = Blocks
    BY <2>1 DEF Blocks
  <2> QED
    BY <2>1, <2>2, FewerBlocks
<1>2. ASSUME NEW c \in Calls, Call(c) PROVE BlocksInv'
  <2>1. disk' = disk /\ at' = "next" /\ ended' = "none" /\ case' = 1 /\ base' = runs
    BY <1>2 DEF Call, mainVars
  <2>2. ~AtCase' /\ ~CaseRecorded' /\ NoBlocksLeft'
    BY <2>1 DEF AtCase, CaseRecorded, NoBlocksLeft
  <2>3. \A e \in disk : ~(runs < e.run /\ e.run < runs + 1)
    BY <1>n, <1>m
  <2>4. \A e \in Blocks' : ~(base' < e.run /\ e.run < base' + case')
    BY <2>1, <2>3 DEF Blocks
  <2> QED
    BY <2>1, <2>2, <2>4 DEF BlocksInv
<1>3. CASE NextCase
  <2>1. UNCHANGED <<call, case, base>> /\ at = "next" /\ runs = base + case - 1 /\ disk' = disk
        /\ ended = "none"
    BY <1>3 DEF NextCase, RecordInv, SweepInv, RunsInv, Start, mainVars
  <2>2. Cases' = Cases /\ (Cleans' <=> Cleans) /\ Blocks' = Blocks
    BY <2>1, CallStays DEF Cleans, Blocks
  <2>3. Cleans => \A e \in Blocks : ~(base < e.run /\ e.run < base + case)
    BY <2>1 DEF BlocksInv
  <2>4. CASE case > Cases
    <3>1. at' = "idle" /\ ended' = "zero"
      BY <1>3, <2>4 DEF NextCase, Ends
    <3>2. ~AtCase' /\ ~CaseRecorded'
      BY <3>1 DEF AtCase, CaseRecorded
    <3>3. AtMost(case, Cases)' = Cases /\ Cases = case - 1
      <4>1. case = Cases + 1
        BY <1>n, <2>4
      <4> QED
        BY <1>n, <2>1, <2>2, <4>1 DEF AtMost
    <3>4. NoBlocksLeft'
      <4> SUFFICES ASSUME call'.script = "speeds" /\ ~call'.keep /\ ~call'.dry,
                          NEW e \in disk', e.kind = "blocks" /\ e.run > base' /\ e.run <= base' + AtMost(case, Cases)'
                   PROVE  FALSE
        BY DEF NoBlocksLeft
      <4>1. Cleans /\ e \in Blocks /\ e \in disk
        BY <2>1 DEF Cleans, Blocks
      <4>2. e.run \in Nat /\ base < e.run /\ e.run < base + case
        BY <1>n, <1>m, <2>1, <3>3, <4>1
      <4> QED
        BY <2>3, <4>1, <4>2
    <3> QED
      BY <3>1, <3>2, <3>4 DEF BlocksInv
  <2>5. CASE ~(case > Cases)
    <3>1. at' = "main" /\ ended' = "none" /\ main' = "load"
      BY <1>3, <2>1, <2>5 DEF NextCase, Start
    <3>2. ~CaseRecorded' /\ NoBlocksLeft'
      BY <3>1 DEF CaseRecorded, NoBlocksLeft
    <3>3. \A e \in disk : e.run # base + case
      BY <1>n, <1>m, <2>1
    <3>4. \A e \in Blocks' : e.run # base' + case'
      BY <2>1, <3>3 DEF Blocks
    <3>5. at' # "idle" /\ Cleans' => \A e \in Blocks' : ~(base' < e.run /\ e.run < base' + case')
      BY <2>1, <2>2, <2>3
    <3> QED
      BY <3>1, <3>2, <3>4, <3>5 DEF BlocksInv
  <2> QED
    BY <2>4, <2>5
<1>4. ASSUME at # "idle", ~Cleans, call' = call, AfterCase(status) PROVE BlocksInv'
  <2>1. ended = "none" /\ (Cleans' <=> Cleans)
    BY <1>4 DEF RunsInv, Cleans
  <2>2. at' \in {"next", "idle"} /\ (at' # "idle" => ended' = "none")
    BY <1>4, <2>1, EndOfCase
  <2> QED
    BY <1>4, <2>1, <2>2, NoMoreBlocks
<1>5. CASE CaseEnds
  <2>1. /\ at = "main" /\ UNCHANGED <<mainVars, call, base>> /\ ended = "none"
    BY <1>5 DEF CaseEnds, RunsInv
  <2>2. CASE Measured
    <3>1. at' = "measure" /\ UNCHANGED <<case, ended>>
      BY <1>5, <2>2 DEF CaseEnds
    <3>2. UNCHANGED <<disk, main, status, call, case, base, runs>>
      BY <2>1, <3>1 DEF mainVars
    <3> QED
      BY <2>1, <3>1, <3>2, SameBlocks DEF AtCase
  <2>3. CASE ~Measured
    <3>1. AfterCase(status) /\ ~Cleans
      BY <1>5, <2>3 DEF CaseEnds, Cleans, Measured
    <3> QED
      BY <2>1, <3>1, <1>4
  <2> QED
    BY <2>2, <2>3
<1>6. CASE Measure
  <2>1. at = "measure" /\ UNCHANGED <<disk, main, status, call, base, runs>> /\ ended = "none"
    BY <1>6 DEF Measure, RunsInv
  <2>2. CASE at' = "idle" /\ ended' = "broken"
    BY <2>2, NoMoreBlocks
  <2>3. CASE call.keep /\ AfterCase(status)
    BY <2>1, <2>3, <1>4 DEF Cleans
  <2>4. CASE at' = "clean" /\ UNCHANGED <<case, ended>>
    BY <2>1, <2>4, SameBlocks DEF AtCase
  <2> QED
    BY <1>6, <2>2, <2>3, <2>4 DEF Measure, Ends
<1>7. CASE Clean
  <2>1. at = "clean" /\ UNCHANGED <<call, base, runs, main, status>> /\ ended = "none" /\ runs = base + case
    BY <1>7 DEF Clean, RunsInv, RecordInv, SweepInv
  <2>2. CASE at' = "idle" /\ ended' = "broken"
    BY <2>2, NoMoreBlocks
  <2>3. CASE disk' = Emptied(CaseL2) /\ AfterCase(status)
    <3>1. at' \in {"next", "idle"} /\ (at' # "idle" => ended' = "none")
      BY <2>1, <2>3, EndOfCase
    <3>2. \A e \in Blocks' : e \in Blocks /\ ~Below(e.at, CaseL2)
      BY <2>3 DEF Blocks, Emptied, Directory
    <3>3. \A e \in Blocks' : e.run \in Nat /\ e.run # base + case
      BY <1>m, <2>1, <3>2 DEF BlocksInv, AtCase, Blocks
    <3>4. Cleans => \A e \in Blocks' : ~(base < e.run /\ e.run <= base + case)
      <4>1. ASSUME Cleans, NEW e \in Blocks'
            PROVE  ~(base < e.run /\ e.run <= base + case)
        <5>1. ~(base < e.run /\ e.run < base + case)
          BY <2>1, <3>2, <4>1 DEF BlocksInv
        <5>2. e.run \in Nat /\ e.run # base + case
          BY <3>3
        <5> QED
          BY <5>1, <5>2, <1>n
      <4> QED
        BY <4>1
    <3>5. Cases' = Cases /\ (Cleans' <=> Cleans) /\ ~AtCase' /\ ~CaseRecorded' /\ at' # "main" /\ base' = base
      BY <2>1, <3>1, CallStays DEF Cleans, AtCase, CaseRecorded
    <3>6. CASE at' = "next" /\ case' = case + 1 /\ ended' = ended
      <4>1. NoBlocksLeft'
        BY <2>1, <3>6 DEF NoBlocksLeft
      <4>2. Cleans' => \A e \in Blocks' : ~(base' < e.run /\ e.run < base' + case')
        <5>1. ASSUME Cleans', NEW e \in Blocks', base' < e.run, e.run < base' + case' PROVE FALSE
          <6>1. e.run \in Nat /\ base < e.run /\ e.run < base + (case + 1)
            BY <3>3, <3>5, <3>6, <5>1
          <6>2. e.run <= base + case
            BY <6>1, <1>n
          <6> QED
            BY <3>4, <3>5, <5>1, <6>1, <6>2
        <5> QED
          BY <5>1
      <4> QED
        BY <3>5, <4>1, <4>2 DEF BlocksInv
    <3>7. CASE at' = "idle" /\ case' = case
      <4>1. NoBlocksLeft'
        <5> SUFFICES ASSUME call'.script = "speeds" /\ ~call'.keep /\ ~call'.dry,
                            NEW e \in disk', e.kind = "blocks" /\ e.run > base' /\ e.run <= base' + AtMost(case, Cases)'
                     PROVE  FALSE
          BY DEF NoBlocksLeft
        <5>1. Cleans /\ e \in Blocks'
          BY <3>5 DEF Cleans, Blocks
        <5>2. AtMost(case, Cases)' = AtMost(case, Cases)
          BY <3>5, <3>7 DEF AtMost
        <5>3. e.run \in Nat /\ base < e.run /\ AtMost(case, Cases) \in Nat /\ AtMost(case, Cases) <= case
          BY <1>n, <3>3, <3>5, <5>1, AtMostIs
        <5>4. e.run <= base + case
          BY <1>n, <3>5, <5>2, <5>3
        <5> QED
          BY <3>4, <5>1, <5>3, <5>4
      <4> QED
        BY <3>5, <3>7, <4>1 DEF BlocksInv
    <3> QED
      BY <2>3, <3>6, <3>7, EndOfCase
  <2> QED
    BY <1>7, <2>2, <2>3 DEF Clean, Ends
<1>8. CASE Interrupted
  <2>1. at' = "idle" /\ ended' = "broken"
    BY <1>8 DEF Interrupted, Ends
  <2> QED
    BY <2>1, NoMoreBlocks
<1>9. CASE (MainStep \/ Fails) /\ UNCHANGED sweepVars
  BY <1>9, MainBlocks
<1>10. CASE UNCHANGED recordVars
  <2>1. UNCHANGED <<disk, main, status, call, case, base, runs, at, ended>>
    BY <1>10 DEF recordVars, mainVars, sweepVars
  <2> QED
    BY <2>1, SameBlocks
<1> QED
  BY <1>1, <1>2, <1>3, <1>5, <1>6, <1>7, <1>8, <1>9, <1>10 DEF RecordNext

(* The traces of a call, and its records.                                  *)

(* What has been recorded for a case stays.                                *)
LEMMA TraceStays ==
  ASSUME RecordInv, Agreed, RunsInv, [RecordNext]_recordVars, call' = call, base' = base,
         NEW i \in 1 .. Cases, TraceThere(i)
  PROVE  TraceThere(i)'
<1> DEFINE p == Append(Case(i).output, "trace")
<1>1. PICK e \in disk : e.kind = "trace" /\ e.run > base /\ e.at = p
  BY DEF TraceThere
<1>2. Case(i)' = Case(i) /\ call \in Calls
  BY CallStays, NumbersOf
<1>3. ASSUME NEW d \in disk', d.kind = "trace", d.run > base, d.at = p
      PROVE  TraceThere(i)'
  BY <1>2, <1>3 DEF TraceThere
<1>4. /\ p \in Paths /\ \A w \in DOMAIN L2Name : ~Below(p, L2Of(w))
      /\ \E v \in DOMAIN L2Name : \E x \in Names : p = Append(OutputRoot \o <<v, x>>, "trace")
  <2>1. \E w \in DOMAIN L2Name : TRUE
    BY <1>2, CaseType
  <2> QED
    BY <1>2, <2>1, CaseTraceApart
<1> HIDE DEF p
<1>5. CASE disk' = disk \/ Prepare
  <2>1. e \in disk'
    BY <1>5 DEF Prepare
  <2> QED
    BY <1>1, <1>3, <2>1
<1>6. CASE Record
  <2>1. main = "record" /\ main \in {"prepare", "reset", "record"} /\ runs > base
    BY <1>6 DEF Record, RunsInv
  <2>2. e \in disk' \/ p = Append(options.output, "trace")
    BY <1>1, <1>6 DEF Record
  <2>3. Entry(Append(options.output, "trace"), "trace") \in disk'
    BY <1>6 DEF Record
  <2>4. /\ Entry(Append(options.output, "trace"), "trace").kind = "trace"
        /\ Entry(Append(options.output, "trace"), "trace").run = runs
        /\ Entry(Append(options.output, "trace"), "trace").at = Append(options.output, "trace")
    BY DEF Entry
  <2> QED
    BY <1>1, <1>3, <2>1, <2>2, <2>3, <2>4
<1>7. ASSUME NEW dir, disk' = Emptied(dir), ~Below(p, dir)
      PROVE  TraceThere(i)'
  <2>1. e \in disk'
    BY <1>1, <1>7 DEF Emptied
  <2> QED
    BY <1>1, <1>3, <2>1
<1>8. CASE Reset
  <2>1. main \in {"prepare", "reset", "record"} /\ at \in {"idle", "main"}
    BY <1>8 DEF Reset, RecordInv, SweepInv, SweepTypeOK
  <2>2. disk' = disk \/ (disk' = Emptied(plan.l2) /\ ~ResetRefused(plan.l2))
    BY <1>8 DEF Reset
  <2>3. CASE at = "main"
    <3>1. plan.l2 = L2Of(Workload(case)) /\ Workload(case) \in DOMAIN L2Name
      BY <2>1, <2>3, InScript
    <3> QED
      BY <1>4, <1>5, <1>7, <2>2, <3>1
  <2>4. CASE at = "idle"
    <3>1. options \in Options
      BY <2>1, <2>4 DEF RunsInv
    <3>2. Below(p, plan.l2) => \E q \in {Cwd, Home, options.output} : Below(q, plan.l2)
      BY <1>4, <2>1, <3>1, Alone
    <3>3. Below(p, plan.l2) => ResetRefused(plan.l2)
      BY <3>2 DEF ResetRefused
    <3> QED
      BY <1>5, <1>7, <2>2, <3>3
  <2> QED
    BY <2>1, <2>3, <2>4
<1>9. CASE Clean /\ disk' = Emptied(CaseL2)
  <2>1. case \in 1 .. Cases
    BY <1>9 DEF Clean, RecordInv, SweepInv
  <2>2. CaseL2 = L2Of(Workload(case)) /\ Workload(case) \in DOMAIN L2Name
    BY <1>2, <2>1, CaseL2Is
  <2> QED
    BY <1>4, <1>7, <1>9, <2>2
<1> QED
  BY <1>5, <1>6, <1>8, <1>9, DiskStays

(* What the traces of all cases are for.                                   *)
LEMMA TracesStay ==
  ASSUME RecordInv, Agreed, RunsInv, [RecordNext]_recordVars, call' = call, base' = base,
         NEW n \in Nat, n <= Cases, \A i \in 1 .. n : TraceThere(i)
  PROVE  \A i \in 1 .. n : TraceThere(i)'
<1> SUFFICES ASSUME NEW i \in 1 .. n PROVE TraceThere(i)'
  OBVIOUS
<1>1. i \in 1 .. Cases
  BY NumbersOf
<1> QED
  BY <1>1, TraceStays

(* What exit status 0 means, case by case.                                 *)
LEMMA ZeroIs ==
  ZeroIsRecorded <=> (ended = "zero" /\ ~call.dry => /\ \A i \in 1 .. Cases : TraceThere(i)
                                                     /\ call.script = "speeds" => UsageOf(usage, base, Cases))
BY DEF ZeroIsRecorded, TraceThere, UsageOf

(* What it means stays while the script ends no call.                      *)
LEMMA ZeroStays ==
  ASSUME RecordInv, Agreed, RunsInv, [RecordNext]_recordVars, call' = call, base' = base,
         usage' = usage, ended' = ended, ZeroIsRecorded
  PROVE  ZeroIsRecorded'
<1>1. Cases \in Nat /\ Cases' = Cases /\ Cases <= Cases
  BY NumbersOf, CallStays
<1>2. CASE ended = "zero" /\ ~call.dry
  <2>1. \A i \in 1 .. Cases : TraceThere(i)
    BY <1>2, ZeroIs
  <2>2. \A i \in 1 .. Cases : TraceThere(i)'
    BY <1>1, <2>1, TracesStay
  <2>3. call.script = "speeds" => UsageOf(usage, base, Cases)
    BY <1>2, ZeroIs
  <2> QED
    BY <1>1, <2>2, <2>3 DEF ZeroIsRecorded, TraceThere, UsageOf, Listed
<1>3. CASE ~(ended = "zero" /\ ~call.dry)
  BY <1>3 DEF ZeroIsRecorded
<1> QED
  BY <1>2, <1>3

(* A step that leaves the script where it is.                              *)
LEMMA SameTraces ==
  ASSUME RecordInv, Agreed, RunsInv, TracesInv, [RecordNext]_recordVars, UNCHANGED sweepVars,
         at # "idle" /\ CaseRecorded' => TraceThere(case)'
  PROVE  TracesInv'
<1>1. /\ at' = at /\ call' = call /\ case' = case /\ usage' = usage /\ ended' = ended /\ base' = base
  BY SweepStays
<1>n. case \in Nat \ {0} /\ Cases \in Nat /\ case <= Cases + 1
  BY NumbersOf
<1>2. at' # "idle" /\ ~call'.dry => \A i \in 1 .. case' - 1 : TraceThere(i)'
  <2> SUFFICES ASSUME at # "idle", ~call.dry PROVE \A i \in 1 .. case - 1 : TraceThere(i)'
    BY <1>1
  <2>1. case - 1 \in Nat /\ case - 1 <= Cases
    BY <1>n
  <2>2. \A i \in 1 .. case - 1 : TraceThere(i)
    BY DEF TracesInv
  <2> DEFINE n == case - 1
  <2>3. n \in Nat /\ n <= Cases /\ \A i \in 1 .. n : TraceThere(i)
    BY <2>1, <2>2
  <2> HIDE DEF n
  <2>4. \A i \in 1 .. n : TraceThere(i)'
    BY <1>1, <2>3, TracesStay
  <2> QED
    BY <2>4 DEF n
<1>3. CaseRecorded' => TraceThere(case)'
  BY <1>1 DEF CaseRecorded, AtCase
<1>4. ZeroIsRecorded' /\ UsageIsOfRun'
  BY <1>1, ZeroStays DEF TracesInv, UsageIsOfRun, Listed
<1>5. at' # "idle" /\ call'.script = "speeds" /\ ~call'.dry =>
       UsageOf(usage', base', IF at' = "clean" THEN case' ELSE case' - 1)
  BY <1>1 DEF TracesInv
<1> QED
  BY <1>2, <1>3, <1>4, <1>5 DEF TracesInv

(* The end of a case.                                                      *)
LEMMA CaseTraces ==
  ASSUME RecordInv, Agreed, RunsInv, TracesInv, [RecordNext]_recordVars,
         AtCase, main = "idle", call' = call, base' = base, AfterCase(status),
         call.script = "speeds" /\ ~call.dry => UsageOf(usage', base', case), UsageIsOfRun'
  PROVE  TracesInv'
<1>n. case \in Nat \ {0} /\ Cases \in Nat /\ case \in 1 .. Cases /\ ended = "none" /\ at # "idle"
  BY NumbersOf DEF RecordInv, SweepInv, RunsInv, AtCase
<1>1. CASE status = "zero" /\ at' = "next" /\ case' = case + 1 /\ ended' = ended
  <2>1. ~call.dry => \A i \in 1 .. case : TraceThere(i)
    <3> SUFFICES ASSUME ~call.dry, NEW i \in 1 .. case PROVE TraceThere(i)
      OBVIOUS
    <3>1. TraceThere(case)
      BY <1>1 DEF TracesInv, CaseRecorded
    <3>2. i = case \/ i \in 1 .. case - 1
      BY <1>n
    <3> QED
      BY <1>n, <3>1, <3>2 DEF TracesInv
  <2>2. ~call.dry => \A i \in 1 .. case : TraceThere(i)'
    <3>1. case \in Nat /\ case <= Cases
      BY <1>n
    <3> QED
      BY <2>1, <3>1, TracesStay
  <2>3. case' - 1 = case
    BY <1>n, <1>1
  <2>4. ~CaseRecorded' /\ ZeroIsRecorded'
    BY <1>n, <1>1 DEF CaseRecorded, AtCase, ZeroIsRecorded
  <2> QED
    BY <1>1, <2>2, <2>3, <2>4 DEF TracesInv
<1>2. CASE status # "zero" /\ at' = "idle" /\ case' = case /\ ended' = status
  <2>1. ~CaseRecorded' /\ ZeroIsRecorded'
    BY <1>2 DEF CaseRecorded, AtCase, ZeroIsRecorded
  <2> QED
    BY <1>2, <2>1 DEF TracesInv
<1> QED
  BY <1>1, <1>2, EndOfCase

(* A script that breaks off.                                               *)
LEMMA BrokenTraces ==
  ASSUME at' = "idle", ended' = "broken", UsageIsOfRun'
  PROVE  TracesInv'
<1>1. ~CaseRecorded' /\ ZeroIsRecorded'
  BY DEF CaseRecorded, AtCase, ZeroIsRecorded
<1> QED
  BY <1>1 DEF TracesInv

(* The recorder's part.                                                    *)
LEMMA MainTraces ==
  ASSUME RecordInv, Agreed, RunsInv, TracesInv, [RecordNext]_recordVars, MainStep \/ Fails,
         UNCHANGED sweepVars
  PROVE  TracesInv'
<1>1. at' = at /\ call' = call /\ case' = case /\ base' = base /\ main # "idle" /\ at \in {"idle", "main"}
      /\ Case(case)' = Case(case)
  BY SweepStays, MainStepKeepsMain DEF RecordInv, SweepInv, SweepTypeOK
<1>2. ASSUME at # "idle", CaseRecorded' PROVE TraceThere(case)'
  <2>1. at = "main" /\ main' = "idle" /\ status' = "zero" /\ ~call.dry
    BY <1>1, <1>2 DEF CaseRecorded
  <2>2. options = Case(case) /\ options.dry = call.dry
    BY <2>1 DEF RecordInv, SweepInv, Case
  <2>3. ~Loading /\ ~Fails /\ ~Prepare /\ ~Reset
    BY <1>1, <2>1 DEF Loading, Fails, Prepare, Reset, Exits
  <2>4. ~Plan
    BY <2>1, <2>2 DEF Plan, Exits
  <2>5. Record
    BY <2>3, <2>4 DEF MainStep
  <2>6. Entry(Append(options.output, "trace"), "trace") \in disk' /\ runs > base
    BY <1>1, <2>5 DEF Record, RunsInv
  <2>7. /\ Entry(Append(options.output, "trace"), "trace").kind = "trace"
        /\ Entry(Append(options.output, "trace"), "trace").run = runs
        /\ Entry(Append(options.output, "trace"), "trace").at = Append(Case(case).output, "trace")
    BY <2>2 DEF Entry
  <2> QED
    BY <1>1, <2>6, <2>7 DEF TraceThere
<1> QED
  BY <1>2, SameTraces

(* What a measurement records.                                             *)
LEMMA MeasuredBlocks ==
  ASSUME RecordInv, Agreed, RunsInv, BlocksInv, at = "measure", status = "zero"
  PROVE  {e.run : e \in {d \in disk : d.kind = "blocks" /\ Below(d.at, Walk(<<>>, CaseL2))}} = {runs}
<1>1. CaseRecorded /\ call \in Calls /\ case \in 1 .. Cases
  BY NumbersOf DEF RecordInv, SweepInv, CaseRecorded, AtCase, Measured
<1>2. Walk(<<>>, CaseL2) = CaseL2
  BY <1>1, CaseL2Is DEF Agreed
<1>3. /\ \E e \in disk : e.kind = "blocks" /\ Below(e.at, CaseL2) /\ e.run = runs
      /\ \A e \in disk : e.kind = "blocks" /\ Below(e.at, CaseL2) => e.run = runs
  BY <1>1 DEF BlocksInv, Blocks
<1> QED
  BY <1>2, <1>3

(* What is there for the cases that are over stays.                        *)
LEMMA EarlierStay ==
  ASSUME RecordInv, Agreed, RunsInv, TracesInv, [RecordNext]_recordVars, call' = call, base' = base,
         at # "idle", ~call.dry
  PROVE  \A i \in 1 .. case - 1 : TraceThere(i)'
<1> DEFINE n == case - 1
<1>1. case \in Nat \ {0} /\ Cases \in Nat /\ case <= Cases + 1
  BY NumbersOf
<1>2. n \in Nat /\ n <= Cases
  BY <1>1
<1>3. \A i \in 1 .. n : TraceThere(i)
  BY DEF TracesInv
<1> HIDE DEF n
<1>4. \A i \in 1 .. n : TraceThere(i)'
  BY <1>2, <1>3, TracesStay
<1> QED
  BY <1>4 DEF n

(* A step of a script within a case.                                       *)
LEMMA InCaseTraces ==
  ASSUME RecordInv, Agreed, RunsInv, TracesInv, [RecordNext]_recordVars,
         UNCHANGED <<call, case, base>>, at # "idle", case \in 1 .. Cases, ended' = "none", CaseRecorded' => CaseRecorded,
         call.script = "speeds" /\ ~call.dry => 
           UsageOf(usage', base', IF at' = "clean" THEN case ELSE case - 1),
         UsageIsOfRun'
  PROVE  TracesInv'
<1>1. at' # "idle" /\ ~call'.dry => \A i \in 1 .. case' - 1 : TraceThere(i)'
  BY EarlierStay
<1>2. CaseRecorded' => TraceThere(case)'
  BY TraceStays DEF TracesInv
<1>3. ZeroIsRecorded'
  BY DEF ZeroIsRecorded
<1> QED
  BY <1>1, <1>2, <1>3 DEF TracesInv

(* Records stay what they are.                                             *)
LEMMA UsageStays ==
  ASSUME UsageIsOfRun, usage' = usage
  PROVE  UsageIsOfRun'
BY DEF UsageIsOfRun, Listed

(* A call keeps the records of the calls before it.                        *)
LEMMA CallTraces ==
  ASSUME NEW c \in Calls, Call(c), UsageIsOfRun
  PROVE  TracesInv'
<1>1. at' = "next" /\ usage' = usage /\ case' = 1 /\ ended' = "none"
  BY DEF Call
<1>2. ~CaseRecorded' /\ ZeroIsRecorded'
  BY <1>1 DEF CaseRecorded, AtCase, ZeroIsRecorded
<1>3. UsageIsOfRun'
  BY <1>1, UsageStays
<1>4. UsageOf(usage', base', case' - 1) /\ \A i \in 1 .. case' - 1 : FALSE
  BY <1>1 DEF UsageOf
<1> QED
  BY <1>1, <1>2, <1>3, <1>4 DEF TracesInv

(* The next case, or the end of the script with status 0.                  *)
LEMMA NextCaseTraces ==
  ASSUME RecordInv, Agreed, RunsInv, TracesInv, NextCase
  PROVE  TracesInv'
<1>0. [RecordNext]_recordVars
  BY DEF RecordNext
<1>1. /\ at = "next" /\ UNCHANGED <<call, case, usage, base>> /\ ended = "none"
      /\ Cases' = Cases
  BY CallStays DEF NextCase, RunsInv
<1>2. UsageIsOfRun'
  BY <1>1, UsageStays DEF TracesInv
<1>3. ~call.dry => \A i \in 1 .. case - 1 : TraceThere(i)'
  BY <1>0, <1>1, EarlierStay
<1>4. call.script = "speeds" /\ ~call.dry => UsageOf(usage, base, case - 1)
  BY <1>1 DEF TracesInv
<1>5. CASE case > Cases
  <2>1. at' = "idle" /\ ended' = "zero"
    BY <1>5 DEF NextCase, Ends
  <2>2. case - 1 = Cases
    BY <1>5, NumbersOf
  <2>3. ZeroIsRecorded'
    BY <1>1, <1>3, <1>4, <2>2 DEF ZeroIsRecorded, TraceThere, UsageOf, Listed
  <2>4. ~CaseRecorded'
    BY <2>1 DEF CaseRecorded, AtCase
  <2> QED
    BY <1>2, <2>1, <2>3, <2>4 DEF TracesInv
<1>6. CASE ~(case > Cases)
  <2>1. at' = "main" /\ ended' = ended /\ main' = "load"
    BY <1>6 DEF NextCase, Start
  <2>2. ~CaseRecorded' /\ ZeroIsRecorded'
    BY <1>1, <2>1 DEF CaseRecorded, ZeroIsRecorded
  <2> QED
    BY <1>1, <1>2, <1>3, <1>4, <2>1, <2>2 DEF TracesInv
<1> QED
  BY <1>5, <1>6

(* A case ends: it is measured, or it is over.                             *)
LEMMA CaseEndsTraces ==
  ASSUME RecordInv, Agreed, RunsInv, TracesInv, CaseEnds
  PROVE  TracesInv'
<1>0. [RecordNext]_recordVars
  BY DEF RecordNext
<1>1. /\ at = "main" /\ main = "idle" /\ UNCHANGED <<main, status>> /\ UNCHANGED <<call, usage, base>>
      /\ ended = "none" /\ case \in 1 .. Cases
  BY DEF CaseEnds, RunsInv, mainVars, RecordInv, SweepInv
<1>2. UsageIsOfRun'
  BY <1>1, UsageStays DEF TracesInv
<1>3. CASE Measured
  <2>1. at' = "measure" /\ UNCHANGED <<case, ended>>
    BY <1>3 DEF CaseEnds
  <2>2. CaseRecorded' => CaseRecorded
    BY <1>1, <2>1 DEF CaseRecorded, AtCase
  <2>3. call.script = "speeds" /\ ~call.dry => UsageOf(usage', base', case - 1)
    BY <1>1 DEF TracesInv
  <2> QED
    BY <1>0, <1>1, <1>2, <2>1, <2>2, <2>3, InCaseTraces
<1>4. CASE ~Measured
  <2>1. AfterCase(status) /\ ~(call.script = "speeds" /\ ~call.dry)
    BY <1>4 DEF CaseEnds, Measured
  <2> QED
    BY <1>0, <1>1, <1>2, <2>1, CaseTraces DEF AtCase
<1> QED
  BY <1>3, <1>4

(* record_case_l2_usage adds its record.                                   *)
LEMMA MeasureTraces ==
  ASSUME RecordInv, Agreed, RunsInv, BlocksInv, TracesInv, Measure
  PROVE  TracesInv'
<1>0. [RecordNext]_recordVars
  BY DEF RecordNext
<1>1. /\ at = "measure" /\ main = "idle" /\ UNCHANGED <<main, status, call, base>>
      /\ ended = "none" /\ case \in 1 .. Cases /\ Measured /\ usage \in Seq(Records)
      /\ status \in {"none", "zero", "nonzero"}
  BY DEF Measure, RunsInv, RecordInv, SweepInv, MainInv, MainTypeOK
<1>2. CASE Ends("broken") /\ UNCHANGED usage
  <2>1. UsageIsOfRun'
    BY <1>2, UsageStays DEF TracesInv
  <2> QED
    BY <1>2, <2>1, BrokenTraces DEF Ends
<1>3. ASSUME NEW s \in {"ok", "failed"},
             usage' = Append(usage,
               [run |-> runs, code |-> status,
                status |-> IF ~\E e \in disk : e.at = Walk(<<>>, CaseL2) THEN "missing" ELSE s,
                blocks |-> {e.run : e \in {d \in disk : d.kind = "blocks" /\ Below(d.at, Walk(<<>>, CaseL2))}}]),
             IF call.keep THEN AfterCase(status)
             ELSE at' = "clean" /\ UNCHANGED <<case, ended>>
      PROVE  TracesInv'
  <2> DEFINE b == {e.run : e \in {d \in disk : d.kind = "blocks" /\ Below(d.at, Walk(<<>>, CaseL2))}}
             m == IF ~\E e \in disk : e.at = Walk(<<>>, CaseL2) THEN "missing" ELSE s
             r == [run |-> runs, code |-> status, status |-> m, blocks |-> b]
  <2>1. status = "zero" => b = {runs}
    BY <1>1, MeasuredBlocks
  <2>2. runs \in Nat /\ DiskOK(disk)
    BY DEF RecordInv, MainInv, MainTypeOK, DiskOK
  <2>3. b \in SUBSET Nat
    BY <2>2 DEF DiskOK
  <2>4. m \in {"ok", "failed", "missing"}
    OBVIOUS
  <2>5. usage' = Append(usage, r)
    BY <1>3
  <2> HIDE DEF b, m
  <2>6. r \in Records /\ (r.code = "zero" => r.blocks = {r.run})
    BY <1>1, <2>1, <2>2, <2>3, <2>4 DEF Records
  <2> HIDE DEF r
  <2>7. Listed(usage') = Listed(usage) \cup {r} /\ Len(usage') = Len(usage) + 1
    BY <1>1, <2>5, <2>6, ListedAppend
  <2>8. UsageIsOfRun'
    <3>1. Listed(usage)' = Listed(usage')
      BY DEF Listed
    <3>2. UsageIsOfRun
      BY DEF TracesInv
    <3> QED
      BY <2>6, <2>7, <3>1, <3>2 DEF UsageIsOfRun
  <2>9. UsageOf(usage', base', case)
    <3>1. UsageOf(usage, base, case - 1) /\ case \in Nat /\ runs = base + case /\ base' = base
      BY <1>1, NumbersOf DEF TracesInv, Measured, RecordInv, SweepInv
    <3>2. r.run = runs
      BY DEF r
    <3> QED
      BY <2>7, <3>1, <3>2 DEF UsageOf
  <2>10. CASE call.keep
    <3>1. AfterCase(status)
      BY <1>3, <2>10
    <3> QED
      BY <1>0, <1>1, <2>8, <2>9, <3>1, CaseTraces DEF AtCase
  <2>11. CASE ~call.keep
    <3>1. at' = "clean" /\ UNCHANGED <<case, ended>>
      BY <1>3, <2>11
    <3>2. CaseRecorded' => CaseRecorded
      BY <1>1, <3>1 DEF CaseRecorded, AtCase
    <3> QED
      BY <1>0, <1>1, <2>8, <2>9, <3>1, <3>2, InCaseTraces
  <2> QED
    BY <2>10, <2>11
<1> QED
  BY <1>2, <1>3 DEF Measure

(* clean_case_l2 ends a case.                                              *)
LEMMA CleanTraces ==
  ASSUME RecordInv, Agreed, RunsInv, TracesInv, Clean
  PROVE  TracesInv'
<1>0. [RecordNext]_recordVars
  BY DEF RecordNext
<1>1. /\ at = "clean" /\ main = "idle" /\ UNCHANGED <<call, base, usage>>
      /\ (call.script = "speeds" /\ ~call.dry => UsageOf(usage, base, case))
  BY DEF Clean, RecordInv, SweepInv, TracesInv
<1>2. UsageIsOfRun'
  BY <1>1, UsageStays DEF TracesInv
<1>3. CASE Ends("broken")
  BY <1>2, <1>3, BrokenTraces DEF Ends
<1>4. CASE AfterCase(status)
  BY <1>0, <1>1, <1>2, <1>4, CaseTraces DEF AtCase
<1> QED
  BY <1>3, <1>4 DEF Clean

(* What there is for the cases that are over stays: one step for each      *)
(* action.                                                                 *)
LEMMA TracesKept ==
  ASSUME RecordInv, Agreed, RunsInv, BlocksInv, TracesInv, [RecordNext]_recordVars
  PROVE  TracesInv'
<1>1. ASSUME NEW o \in Options, Run(o) PROVE TracesInv'
  <2>1. at = "idle" /\ UNCHANGED sweepVars
    BY <1>1 DEF Run
  <2> QED
    BY <2>1, SameTraces
<1>2. CASE Interrupted
  <2>1. at' = "idle" /\ ended' = "broken" /\ usage' = usage
    BY <1>2 DEF Interrupted, Ends
  <2> QED
    BY <2>1, UsageStays, BrokenTraces DEF TracesInv
<1>3. CASE UNCHANGED recordVars
  <2>1. UNCHANGED sweepVars /\ UNCHANGED <<main, status>>
    BY <1>3 DEF recordVars, mainVars
  <2>2. ASSUME CaseRecorded', at # "idle" PROVE TraceThere(case)'
    <3>1. CaseRecorded /\ call' = call /\ base' = base /\ case' = case /\ case \in 1 .. Cases
      BY <2>1, <2>2 DEF CaseRecorded, AtCase, sweepVars, RecordInv, SweepInv
    <3> QED
      BY <3>1, TraceStays DEF TracesInv
  <2> QED
    BY <2>1, <2>2, SameTraces
<1>4. UsageIsOfRun
  BY DEF TracesInv
<1> QED
  BY <1>1, <1>2, <1>3, <1>4, CallTraces, NextCaseTraces, CaseEndsTraces, MeasureTraces, CleanTraces,
     MainTraces DEF RecordNext

(* Before the first call.                                                  *)
LEMMA CasesInitially ==
  ASSUME RecordInit, Agreed
  PROVE  CasesIInv
<1>1. /\ main = "idle" /\ runs = 0 /\ disk \in Disk /\ at = "idle" /\ ended = "none" /\ usage = <<>>
  BY DEF RecordInit, MainInit
<1>2. DiskInv
  <2>1. Owned(disk)
    BY <1>1 DEF Agreed
  <2>2. \A e \in disk : e.run = 0
    BY <1>1, RecorderMainAssumption
  <2> QED
    BY <1>1, <2>1, <2>2 DEF DiskInv
<1>3. RunsInv
  BY <1>1 DEF RunsInv
<1>4. BlocksInv
  BY <1>1 DEF BlocksInv, CaseRecorded, AtCase, NoBlocksLeft
<1>5. UsageIsOfRun
  BY <1>1 DEF UsageIsOfRun, Listed
<1>6. TracesInv
  BY <1>1, <1>5 DEF TracesInv, CaseRecorded, AtCase, ZeroIsRecorded
<1> QED
  BY <1>2, <1>3, <1>4, <1>6 DEF CasesIInv

(* What is inductive: what the recorder and the scripts do, while what is  *)
(* agreed on stays.                                                        *)
CasesAll == RecordInv /\ Agreed /\ CasesIInv

(* Every step keeps all of it; what is agreed on stays as the files do.    *)
LEMMA CasesInductive ==
  ASSUME CasesAll, [RecordNext]_recordVars
  PROVE  CasesAll'
<1>1. RecordInv /\ Agreed /\ DiskInv /\ RunsInv /\ BlocksInv /\ TracesInv
  BY DEF CasesAll, CasesIInv
<1>2. RecordInv'
  BY <1>1, RecordInductive
<1>3. Agreed'
  BY <1>1, ContentsStay, AgreedIsKept
<1> QED
  BY <1>1, <1>2, <1>3, DiskKept, RunsKept, BlocksKept, TracesKept DEF CasesAll, CasesIInv

(* It holds in every state if it has been agreed on in the first.          *)
LEMMA CasesInvariant == RecordSpec /\ Agreed => []CasesAll
<1>1. RecordInit /\ Agreed => CasesAll
  BY RecordInitially, CasesInitially DEF CasesAll
<1>2. CasesAll /\ [RecordNext]_recordVars => CasesAll'
  BY CasesInductive
<1> QED
  BY <1>1, <1>2, PTL DEF RecordSpec

(* A usage record of a recording that succeeded is about its blocks alone; *)
(* exit status 0 of a script, unless it is a dry run, means a trace of     *)
(* each case and, of the speed sweep, a record of each; and a speed sweep  *)
(* that ends with the status of a recorder leaves no blocks unless it is   *)
(* to keep them (record_speed_sweep.sh and record_source_traces.sh;        *)
(* recorder.md:152-155). The recorder and the scripts name the L2 path     *)
(* each on its own: that they name the same is Agreed.                     *)
THEOREM CasesHold == RecordSpec /\ Agreed => []CasesInv
<1>1. CasesAll => CasesInv
  BY DEF CasesAll, CasesIInv, TracesInv, BlocksInv, CasesInv
<1> QED
  BY <1>1, CasesInvariant, PTL

(* OnlyOwnBlocks, as a relation of two states.                             *)
OwnOnly ==
  at # "idle" => \A e \in Removed :
    \/ e.kind = "directory" /\ Below(e.at, CaseL2)
    \/ e.kind = "blocks" /\ e.workload = Workload(case)

(* A step of a script removes what is of its workload.                     *)
LEMMA RemovedIsOwn ==
  ASSUME CasesAll, [RecordNext]_recordVars
  PROVE  OwnOnly
<1> SUFFICES ASSUME at # "idle", NEW e \in Removed
             PROVE  \/ e.kind = "directory" /\ Below(e.at, CaseL2)
                    \/ e.kind = "blocks" /\ e.workload = Workload(case)
  BY DEF OwnOnly
<1>1. RecordInv /\ Agreed /\ Owned(disk) /\ e \in disk
  BY DEF CasesAll, CasesIInv, DiskInv, Removed
<1>2. CASE main = "reset" /\ Below(e.at, plan.l2)
  <2>1. at = "main" /\ main \in {"prepare", "reset", "record"}
    BY <1>1, <1>2 DEF RecordInv, SweepInv, SweepTypeOK
  <2>2. plan.l2 = CaseL2 /\ CaseL2 = L2Of(Workload(case)) /\ Workload(case) \in DOMAIN L2Name
    BY <1>1, <2>1, InScript
  <2> QED
    BY <1>1, <1>2, <2>2 DEF Owned
<1>3. CASE Clean /\ Below(e.at, CaseL2)
  <2>1. call \in Calls /\ case \in 1 .. Cases
    BY <1>1, <1>3 DEF Clean, RecordInv, SweepInv, SweepTypeOK
  <2>2. CaseL2 = L2Of(Workload(case)) /\ Workload(case) \in DOMAIN L2Name
    BY <2>1, CaseL2Is
  <2> QED
    BY <1>1, <1>3, <2>2 DEF Owned
<1> QED
  BY <1>1, <1>2, <1>3, RemovedWhere

(* What the run of a script resets, or the script cleans, are blocks of    *)
(* the same workload and the directories for them                          *)
(* (record_source_traces.sh:106, recorder.md:286), under the same          *)
(* agreement.                                                              *)
THEOREM OwnBlocks == RecordSpec /\ Agreed => OnlyOwnBlocks
<1>1. CasesAll /\ [RecordNext]_recordVars => [OwnOnly]_recordVars
  BY RemovedIsOwn
<1>2. RecordSpec /\ Agreed => [][OwnOnly]_recordVars
  BY <1>1, CasesInvariant, PTL DEF RecordSpec
<1> QED
  BY <1>2, PTL DEF OnlyOwnBlocks, OwnOnly

=============================================================================
