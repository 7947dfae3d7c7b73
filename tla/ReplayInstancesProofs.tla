------------------------- MODULE ReplayInstancesProofs -------------------------
(***************************************************************************)
(* Proofs about ReplayInstances, for any number of instances, runs,        *)
(* interrupts and failures.                                                *)
(***************************************************************************)
EXTENDS ReplayInstances, TLAPS

(* A recorded code is that of an ended process, and 0 only when it is its  *)
(* own; a process that ended with 0 has outlived its replay.               *)
CodeInv ==
  /\ \A i \in Instances :
       /\ results[i] # "none" => proc[i] \in Codes
       /\ results[i] = "zero" => proc[i] = "zero"
       /\ summary[i] = "zero" => proc[i] = "zero"
       /\ proc[i] = "zero" => child[i] = "ended"
  /\ exit = "zero" => \A i \in Instances : summary[i] = "zero"
  /\ exit # "none" => pc = "ended"

(* The list of the run holds every process that may still run.             *)
Quiet == interrupts = 0 \/ (interrupts = 1 /\ failures = 0)

ListInv ==
  /\ pc = "reset" => \A i \in Instances : proc[i] = "none"
  /\ pc = "launch" => \A i \in todo : proc[i] = "none"
  /\ pc \notin {"ended", "summary"} =>
       \A i \in Instances : proc[i] = "running" => i \in running \cup lost
  /\ pc = "record" => \A i \in running : proc[i] \in Codes
  /\ pc = "summary" \/ (pc = "ended" /\ Quiet) =>
       \A i \in Instances : proc[i] = "running" => i \in lost
  /\ after = "raise" => interrupts > 0 \/ failures > 0
  /\ pc = "ended" => exit # "none"

IInv == TypeOK /\ CodeInv /\ ListInv

(* run_instances starts in a well-typed state without processes.           *)
LEMMA InvInit == Init => IInv
<1> SUFFICES ASSUME Init
             PROVE  IInv
  OBVIOUS
<1>1. /\ results \in [Instances -> Codes \cup {"none"}]
      /\ summary \in [Instances -> Codes \cup {"none"}]
      /\ proc \in [Instances -> {"none", "running"} \cup Codes]
      /\ signal \in [Instances -> {"none", "INT", "TERM"}]
      /\ child \in [Instances -> {"none", "running", "ended"}]
  BY DEF Init, None
<1>2. TypeOK
  BY <1>1 DEF Init, TypeOK
<1>3. CodeInv /\ ListInv
  BY DEF Init, None, CodeInv, ListInv
<1> QED
  BY <1>2, <1>3 DEF IInv

(* Every step of the orchestrator and of the instances keeps the types.    *)
LEMMA TypeStep == TypeOK /\ [Next]_vars => TypeOK'
<1> USE InstancesAssumption DEF TypeOK, processes, bounds, Codes
<1>1. ASSUME TypeOK, PollEnd PROVE TypeOK'
  BY <1>1 DEF PollEnd, Goto
<1>2. ASSUME TypeOK, Sleep PROVE TypeOK'
  BY <1>2 DEF Sleep, Goto
<1>3. ASSUME TypeOK, Terminate PROVE TypeOK'
  BY <1>3 DEF Terminate, Goto
<1>4. ASSUME TypeOK, Grace PROVE TypeOK'
  BY <1>4 DEF Grace, Goto, Exited
<1>5. ASSUME TypeOK, Record PROVE TypeOK'
  BY <1>5 DEF Record, Goto
<1>6. ASSUME TypeOK, WriteSummary PROVE TypeOK'
  BY <1>6 DEF WriteSummary, Goto
<1>7. ASSUME TypeOK, KeyboardInterrupt PROVE TypeOK'
  BY <1>7 DEF KeyboardInterrupt, Goto, Exited
<1>8. ASSUME TypeOK, RunAgain PROVE TypeOK'
  BY <1>8 DEF RunAgain, Goto, None
<1>9. ASSUME TypeOK, NEW i \in Instances, Reset(i) PROVE TypeOK'
  BY <1>9 DEF Reset, Goto
<1>10. ASSUME TypeOK, NEW i \in Instances, Launch(i) PROVE TypeOK'
  BY <1>10 DEF Launch, Goto, Failure
<1>11. ASSUME TypeOK, NEW i \in Instances, Poll(i) PROVE TypeOK'
  BY <1>11 DEF Poll, Exited
<1>12. ASSUME TypeOK, NEW i \in Instances, StartChild(i) PROVE TypeOK'
  BY <1>12 DEF StartChild
<1>13. ASSUME TypeOK, NEW i \in Instances, ChildWrites(i) PROVE TypeOK'
  BY <1>13 DEF ChildWrites
<1>14. ASSUME TypeOK, NEW i \in Instances, ChildEnds(i) PROVE TypeOK'
  BY <1>14 DEF ChildEnds
<1>15. ASSUME TypeOK, NEW i \in Instances, InstanceExits(i) PROVE TypeOK'
  BY <1>15 DEF InstanceExits, Failure
<1>16. ASSUME TypeOK, NEW i \in Instances, InstanceDies(i) PROVE TypeOK'
  BY <1>16 DEF InstanceDies
<1>17. ASSUME TypeOK, UNCHANGED vars PROVE TypeOK'
  BY <1>17 DEF vars
<1> HIDE DEF TypeOK
<1> QED
  BY <1>1, <1>2, <1>3, <1>4, <1>5, <1>6, <1>7, <1>8, <1>9, <1>10,
    <1>11, <1>12, <1>13, <1>14, <1>15, <1>16, <1>17
    DEF Next, Orchestrator, Instance

(* Every step keeps the inductive invariant.                               *)
LEMMA InvStep == IInv /\ [Next]_vars => IInv'
<1> USE InstancesAssumption DEF IInv, TypeOK, CodeInv, ListInv, Quiet,
  processes, bounds, Codes
<1>1. ASSUME IInv, TypeOK', PollEnd PROVE IInv'
  BY <1>1 DEF PollEnd, Goto
<1>2. ASSUME IInv, TypeOK', Sleep PROVE IInv'
  BY <1>2 DEF Sleep, Goto
<1>3. ASSUME IInv, TypeOK', Terminate PROVE IInv'
  BY <1>3 DEF Terminate, Goto
<1>4. ASSUME IInv, TypeOK', Grace PROVE IInv'
  BY <1>4 DEF Grace, Goto, Exited
<1>5. ASSUME IInv, TypeOK', Record PROVE IInv'
  BY <1>5 DEF Record, Goto
<1>6. ASSUME IInv, TypeOK', WriteSummary PROVE IInv'
  BY <1>6 DEF WriteSummary, Goto
<1>7. ASSUME IInv, TypeOK', KeyboardInterrupt PROVE IInv'
  BY <1>7 DEF KeyboardInterrupt, Goto, Exited
<1>8. ASSUME IInv, TypeOK', RunAgain PROVE IInv'
  BY <1>8 DEF RunAgain, Goto, None
<1>9. ASSUME IInv, TypeOK', NEW i \in Instances, Reset(i) PROVE IInv'
  BY <1>9 DEF Reset, Goto
<1>10. ASSUME IInv, TypeOK', NEW i \in Instances, Launch(i) PROVE IInv'
  BY <1>10 DEF Launch, Goto, Failure
<1>11. ASSUME IInv, TypeOK', NEW i \in Instances, Poll(i) PROVE IInv'
  BY <1>11 DEF Poll, Exited
<1>12. ASSUME IInv, TypeOK', NEW i \in Instances, StartChild(i) PROVE IInv'
  BY <1>12 DEF StartChild
<1>13. ASSUME IInv, TypeOK', NEW i \in Instances, ChildWrites(i) PROVE IInv'
  BY <1>13 DEF ChildWrites
<1>14. ASSUME IInv, TypeOK', NEW i \in Instances, ChildEnds(i) PROVE IInv'
  BY <1>14 DEF ChildEnds
<1>15. ASSUME IInv, TypeOK', NEW i \in Instances, InstanceExits(i) PROVE IInv'
  BY <1>15 DEF InstanceExits, Failure
<1>16. ASSUME IInv, TypeOK', NEW i \in Instances, InstanceDies(i) PROVE IInv'
  BY <1>16 DEF InstanceDies
<1>17. ASSUME IInv, TypeOK', UNCHANGED vars PROVE IInv'
  BY <1>17 DEF vars
<1> HIDE DEF IInv, TypeOK, CodeInv, ListInv
<1>18. IInv => TypeOK
  BY DEF IInv
<1> QED
  BY <1>1, <1>2, <1>3, <1>4, <1>5, <1>6, <1>7, <1>8, <1>9, <1>10,
    <1>11, <1>12, <1>13, <1>14, <1>15, <1>16, <1>17,
    <1>18, TypeStep
    DEF Next, Orchestrator, Instance

(* The inductive invariant holds throughout.                               *)
LEMMA Inductive == Spec => []IInv
  BY InvInit, InvStep, PTL DEF Spec

(* The type invariant of the parallel replay.                              *)
THEOREM InstancesTypeCorrect == Spec => []TypeOK
<1>1. IInv => TypeOK
  BY DEF IInv
<1> QED
  BY <1>1, Inductive, PTL

(* Exit code 0 means that all instances ended with 0, their replays with   *)
(* them, for any number of instances.                                      *)
THEOREM ZeroIsAll == Spec => []ZeroMeansAll
<1>1. IInv => ZeroMeansAll
  BY DEF IInv, CodeInv, ZeroMeansAll
<1> QED
  BY <1>1, Inductive, PTL

(* instances-summary.json calls no instance successful that is not.        *)
THEOREM HonestSummary == Spec => []SummaryIsHonest
<1>1. IInv => SummaryIsHonest
  BY DEF IInv, CodeInv, SummaryIsHonest
<1> QED
  BY <1>1, Inductive, PTL

(* No listed process runs when a run has ended, unless Ctrl-C hit the      *)
(* handling of an earlier exception.                                       *)
THEOREM NoneIsLeft == Spec => []NoneLeft
<1>1. IInv => NoneLeft
  BY DEF IInv, ListInv, Quiet, NoneLeft
<1> QED
  BY <1>1, Inductive, PTL
-----------------------------------------------------------------------------
(* The L2 directories of a first run.                                      *)

(* Nothing of an earlier run writes; an instance that has not begun its    *)
(* replay finds its directory as the reset left it.                        *)
ColdInv ==
  /\ runs >= 1
  /\ \A i \in running : proc[i] # "none"
  /\ runs = 1 =>
       /\ ~dirtyStart /\ orphans = {}
       /\ pc = "reset" => \A i \in Instances \ todo : l2[i] = "empty"
       /\ pc = "launch" => \A i \in todo : l2[i] = "empty"
       /\ \A i \in Instances :
            /\ proc[i] = "none" => child[i] = "none"
            /\ proc[i] # "none" /\ child[i] = "none" => l2[i] = "empty"

(* The orchestrator leaves the children alone, and launches an instance    *)
(* from the list only.                                                     *)
LEMMA ColdStep ==
  ASSUME IInv, ColdInv, [Next]_vars
  PROVE  ColdInv'
<1> USE InstancesAssumption DEF IInv, TypeOK, ListInv, ColdInv, processes, bounds
<1>1. ASSUME NEW i \in Instances, Reset(i) PROVE ColdInv'
  BY <1>1 DEF Reset, Goto
<1>2. ASSUME NEW i \in Instances, Launch(i) PROVE ColdInv'
  BY <1>2 DEF Launch, Goto, Failure
<1>3. ASSUME NEW i \in Instances, Poll(i) PROVE ColdInv'
  BY <1>3 DEF Poll
<1>4. CASE PollEnd \/ Sleep \/ Terminate \/ Record \/ WriteSummary
  <2>1. UNCHANGED <<runs, dirtyStart, orphans, l2, proc, child>>
    BY <1>4 DEF PollEnd, Sleep, Terminate, Record, WriteSummary
  <2>2. pc' \notin {"reset", "launch"}
    BY <1>4 DEF PollEnd, Sleep, Terminate, Record, WriteSummary, Goto
  <2>3. running' \subseteq running
    BY <1>4 DEF PollEnd, Sleep, Terminate, Record, WriteSummary
  <2> QED
    BY <2>1, <2>2, <2>3
<1>5. CASE Grace
  BY <1>5 DEF Grace, Goto, Exited
<1>6. CASE KeyboardInterrupt
  BY <1>6 DEF KeyboardInterrupt, Goto, Exited
<1>7. CASE RunAgain
  BY <1>7 DEF RunAgain
<1>8. ASSUME NEW i \in Instances, StartChild(i) PROVE ColdInv'
  BY <1>8 DEF StartChild
<1>9. ASSUME NEW i \in Instances, ChildWrites(i) PROVE ColdInv'
  BY <1>9 DEF ChildWrites
<1>10. ASSUME NEW i \in Instances, ChildEnds(i) PROVE ColdInv'
  BY <1>10 DEF ChildEnds
<1>11. ASSUME NEW i \in Instances, InstanceExits(i) \/ InstanceDies(i) PROVE ColdInv'
  BY <1>11 DEF InstanceExits, InstanceDies, Failure
<1>12. CASE UNCHANGED vars
  BY <1>12 DEF vars
<1> HIDE DEF IInv, TypeOK, ListInv, ColdInv
<1> QED
  BY <1>1, <1>2, <1>3, <1>4, <1>5, <1>6, <1>7, <1>8, <1>9, <1>10, <1>11, <1>12
    DEF Next, Orchestrator, Instance

(* No replay of a first run begins on data: every directory is emptied or  *)
(* refused before the first launch, and only the replay of its own         *)
(* instance writes to it.                                                  *)
THEOREM FirstRunCold == Spec => []FirstRunIsCold
<1>1. Init => ColdInv
  BY DEF Init, None, ColdInv
<1>2. IInv /\ ColdInv /\ [Next]_vars => ColdInv'
  BY ColdStep
<1>3. ColdInv => FirstRunIsCold
  BY DEF ColdInv, FirstRunIsCold
<1> QED
  BY <1>1, <1>2, <1>3, Inductive, PTL DEF Spec

===============================================================================
