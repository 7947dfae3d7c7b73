-------------------------- MODULE ProfilerAgentProofs --------------------------
(***************************************************************************)
(* Proofs about ProfilerAgent, for any devices, report interval, traffic   *)
(* and number of samples: the rows of disk.tsv add up to the counters, and *)
(* the agent implements the lifecycle its controller relies on.            *)
(***************************************************************************)
EXTENDS ProfilerAgent, TLAPS

Begun == {"started", "announced", "final"} \cup Looping

(* Before the first snapshot nothing is reported; afterwards the rows add  *)
(* up to the distance between the first snapshot and the last report.      *)
RowsInv ==
  /\ pc \in {"boot", "init"} => reported = Zero
  /\ pc \in Begun =>
       \A d \in Devices : /\ first[d] <= snapshot["last"][d]
                          /\ snapshot["last"][d] <= counter[d]
                          /\ reported[d] = snapshot["last"][d] - first[d]

(* The final flush.                                                        *)
EndInv ==
  pc \in {"flushed", "summarised"} /\ clockSteps = 0 =>
    \A d \in Devices : /\ first[d] <= snapshot["final"][d]
                       /\ reported[d] = snapshot["final"][d] - first[d]

(* The clock only falls behind the last report when it is set back.        *)
ClockInv == clockSteps = 0 => lastReport <= clock

(* When the trap has run, and what is left to do then.                     *)
StopInv ==
  /\ pc \in {"boot"} \cup Untrapped => ~stopRequested
  /\ pc \in Ending => stopRequested

IInv == TypeOK /\ RowsInv /\ EndInv /\ ClockInv /\ StopInv

(* The agent starts in a well-typed state in which nothing is reported.    *)
LEMMA InvInit == Init => IInv
<1> SUFFICES ASSUME Init
             PROVE  IInv
  OBVIOUS
<1>1. Zero \in Counters
  BY DEF Zero, Counters
<1>2. /\ counter \in Counters /\ reported \in Counters
      /\ summary \in Counters /\ first \in Counters
  <2>1. counter \in [Devices -> 0..1]
    BY DEF Init
  <2>2. counter \in Counters
    BY <2>1 DEF Counters
  <2> QED
    BY <1>1, <2>2 DEF Init
<1>3. snapshot \in [{"last", "current", "final"} -> Counters]
  BY <1>1 DEF Init
<1>4. /\ sampleTimes \in [previous : Int, last : Int]
      /\ clock \in Int /\ lastReport \in Int /\ endNs \in Int
      /\ samples \in Nat /\ clockSteps \in Nat
  BY DEF Init
<1>5. TypeOK
  BY <1>2, <1>3, <1>4 DEF Init, TypeOK
<1>6. RowsInv /\ EndInv /\ ClockInv /\ StopInv
  BY DEF Init, RowsInv, EndInv, ClockInv, StopInv, Begun, Looping, Untrapped,
         Ending
<1> QED
  BY <1>5, <1>6 DEF IInv

(* One step per action of run_agent, of the stop command and of the node.  *)
LEMMA InvStep == IInv /\ [Next]_vars => IInv'
<1> SUFFICES ASSUME IInv, [Next]_vars
             PROVE  IInv'
  OBVIOUS
<1> USE AgentAssumption DEF IInv, TypeOK, RowsInv, EndInv, ClockInv, StopInv,
      Begun, Counters, Untrapped, Looping, Ending
<1>1. CASE WritePid
  BY <1>1 DEF WritePid
<1>2. CASE Start
  BY <1>2 DEF Start, ReadClock, StartSnapshot, Zero
<1>3. CASE Announce
  BY <1>3 DEF Announce
<1>4. CASE InstallTrap
  BY <1>4 DEF InstallTrap
<1>5. CASE LoopTest
  BY <1>5 DEF LoopTest
<1>6. CASE Wake
  BY <1>6 DEF Wake
<1>7. CASE Sample
  BY <1>7 DEF Sample, ReadClock, AddSample, WriteInterval, DeltaOf, Delta
<1>8. CASE FinalFlush
  BY <1>8 DEF FinalFlush, ReadClock, AddSample, WriteInterval, DeltaOf, Delta
<1>9. CASE WriteSummary
  BY <1>9 DEF WriteSummary, StartSnapshot, DeltaOf, Delta
<1>10. CASE Finish
  BY <1>10 DEF Finish
<1>11. CASE StopAgent
  BY <1>11 DEF StopAgent
<1>12. CASE SetClockBack
  BY <1>12 DEF SetClockBack
<1>13. ASSUME NEW d \in Devices, Traffic(d)
       PROVE  IInv'
  BY <1>13 DEF Traffic
<1>14. CASE UNCHANGED vars
  BY <1>14 DEF vars
<1> QED
  BY <1>1, <1>2, <1>3, <1>4, <1>5, <1>6, <1>7, <1>8, <1>9, <1>10, <1>11,
     <1>12, <1>13, <1>14 DEF Next, Agent

(* The inductive invariant holds throughout every run of the agent.        *)
LEMMA Inductive == Spec => []IInv
  BY InvInit, InvStep, PTL DEF Spec

(* The type invariant of the agent.                                        *)
THEOREM AgentTypeCorrect == Spec => []TypeOK
<1>1. IInv => TypeOK
  BY DEF IInv
<1> QED
  BY <1>1, Inductive, PTL

(* The rows of disk.tsv add up to the counter movement up to the last      *)
(* report, for every sampling and report interval.                         *)
THEOREM RowsAddUp == Spec => []IntervalsAddUp
<1>1. IInv => IntervalsAddUp
  BY DEF IInv, TypeOK, RowsInv, IntervalsAddUp, Begun, Looping, Counters,
         DeltaOf, Delta
<1> QED
  BY <1>1, Inductive, PTL

(* With the last short interval they cover the whole run, unless the wall  *)
(* clock was set back.                                                     *)
THEOREM RowsAreComplete == Spec => []RowsCoverRun
<1>1. IInv => RowsCoverRun
  BY DEF IInv, TypeOK, EndInv, RowsCoverRun, Counters, DeltaOf, Delta
<1> QED
  BY <1>1, Inductive, PTL

-----------------------------------------------------------------------------
(* Refinement of AgentLifecycle.                                           *)

AbstractSummary == IF pc \in {"summarised", "done"} THEN "complete" ELSE "none"

(* A starting agent is a starting lifecycle.                               *)
LEMMA RefinesInit == Init => Lifecycle!Init
<1> SUFFICES ASSUME Init
             PROVE  Lifecycle!Init
  OBVIOUS
<1>1. pc = "boot"
  BY DEF Init
<1> QED
  BY <1>1 DEF Lifecycle!Init, AbstractPhase, Looping, Ending

(* Every step of the agent is a step of the lifecycle, or none.            *)
LEMMA RefinesStep ==
  IInv /\ [Next]_vars
    => [Lifecycle!Next]_<<AbstractPhase, AbstractSummary>>
<1> SUFFICES ASSUME IInv, [Next]_vars
             PROVE  [Lifecycle!Next]_<<AbstractPhase, AbstractSummary>>
  OBVIOUS
<1> USE DEF IInv, TypeOK, StopInv, Untrapped, Looping, Ending, AbstractPhase,
      AbstractSummary, Lifecycle!Next, Lifecycle!Step, Lifecycle!Stop,
      Lifecycle!Summarise, Lifecycle!Finish, Lifecycle!Advance,
      Lifecycle!Signalled
<1>1. CASE WritePid
  BY <1>1 DEF WritePid
<1>2. CASE Start
  BY <1>2 DEF Start
<1>3. CASE Announce
  BY <1>3 DEF Announce
<1>4. CASE InstallTrap
  BY <1>4 DEF InstallTrap
<1>5. CASE LoopTest
  BY <1>5 DEF LoopTest
<1>6. CASE Wake
  BY <1>6 DEF Wake
<1>7. CASE Sample
  BY <1>7 DEF Sample
<1>8. CASE FinalFlush
  BY <1>8 DEF FinalFlush
<1>9. CASE WriteSummary
  BY <1>9 DEF WriteSummary
<1>10. CASE Finish
  BY <1>10 DEF Finish
<1>11. CASE StopAgent
  BY <1>11 DEF StopAgent
<1>12. CASE SetClockBack
  BY <1>12 DEF SetClockBack
<1>13. ASSUME NEW d \in Devices, Traffic(d)
       PROVE  [Lifecycle!Next]_<<AbstractPhase, AbstractSummary>>
  BY <1>13 DEF Traffic
<1>14. CASE UNCHANGED vars
  BY <1>14 DEF vars
<1> QED
  BY <1>1, <1>2, <1>3, <1>4, <1>5, <1>6, <1>7, <1>8, <1>9, <1>10, <1>11,
     <1>12, <1>13, <1>14 DEF Next, Agent

(* The agent implements the lifecycle its controller relies on.            *)
THEOREM AgentRefinesLifecycle == Spec => ImplementsLifecycle
  BY RefinesInit, RefinesStep, Inductive, PTL
  DEF Spec, ImplementsLifecycle, Lifecycle!Spec, AbstractSummary
===============================================================================
