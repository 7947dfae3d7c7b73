------------------------- MODULE ProfiledReplayProofs -------------------------
(***************************************************************************)
(* Proofs about ProfiledReplay, for any nodes and any number of failures,  *)
(* interrupts and lines of ssh: what a started replay, a removed run       *)
(* directory and exit code 0 imply.                                        *)
(***************************************************************************)
EXTENDS ProfiledReplay, TLAPS

ReadyIn(lines) == \E i \in 1..Len(lines) : lines[i] = "READY"

(* A READY line anywhere on its way was printed, and an agent is only      *)
(* taken off the pending ones when it has printed it.                      *)
ReadyInv ==
  /\ \A n \in Nodes : ReadyIn(pipe[n]) \/ ReadyIn(held[n]) => n \in announced
  /\ pc = "ready" => Nodes \ pending \subseteq announced
  /\ pc \in {"replay", "replaying"} => started
  /\ started => announced = Nodes
  /\ replay # "none" => started

(* profiler_started is set once the replay may start; a started run that   *)
(* does not unwind has an exit code.                                       *)
Finalising == {"stop", "wait", "collect", "copy", "aggregate", "cleanup",
               "report"}

StartedInv ==
  /\ pc \in {"prepare", "deploy", "preflight", "launch", "ready"} => ~started
  /\ pc = "report" => started
  /\ pc \in {"prepare", "deploy"} => \A n \in Nodes : "dir" \notin remote[n]
  /\ pc \in Finalising /\ started /\ ~unwinding => returnCode # "none"

(* What collect has behind it, ...                                         *)
Kept(n) == {"dir", "summary"} \subseteq local[n]

Complete(n) == "complete" \in local[n] /\ "earlier" \notin local[n]

CollectInv ==
  /\ \A n \in Nodes : "dir" \in local[n] => "earlier" \notin local[n]
  /\ pc \in {"collect", "copy"} => \A n \in Nodes \ todo : Kept(n)
  /\ pc = "aggregate" => \A n \in Nodes : Kept(n)
  /\ pc \in {"collect", "copy", "aggregate", "cleanup"} => started

(* ... and what the end of the run then means.                             *)
EndInv ==
  /\ pc = "cleanup" => profileSummary /\ \A n \in Nodes : Complete(n)
  /\ pc = "report" /\ ~unwinding /\ ~profilerError =>
       profileSummary /\ \A n \in Nodes : Complete(n)
  /\ exit = "zero" => returnCode = "zero" /\ profileSummary
                        /\ \A n \in Nodes : Complete(n)
  /\ pc = "returned" <=> exit # "none"

(* Results are only written by an agent that stops.                        *)
AgentInv ==
  \A n \in Nodes :
    /\ "rows" \in remote[n] \/ "summary" \in remote[n] \/ "complete" \in remote[n] =>
         agent[n] \in {"stopping", "done", "killed"}
    /\ "complete" \in local[n] /\ "earlier" \notin local[n] =>
         agent[n] \in {"stopping", "done", "killed"}

IInv == TypeOK /\ ReadyInv /\ StartedInv /\ CollectInv /\ EndInv /\ AgentInv

-----------------------------------------------------------------------------
(* Sequences of lines.                                                     *)

(* Appending a line that is not READY adds no READY.                       *)
LEMMA ReadyAppend ==
  ASSUME NEW s \in Seq(Lines), NEW x \in Lines
  PROVE  ReadyIn(Append(s, x)) => ReadyIn(s) \/ x = "READY"
BY DEF ReadyIn

(* The first line and the rest of a non-empty sequence are lines of it.    *)
LEMMA ReadyHeadTail ==
  ASSUME NEW s \in Seq(Lines), s # <<>>
  PROVE  /\ ReadyIn(Tail(s)) => ReadyIn(s)
         /\ Head(s) = "READY" => ReadyIn(s)
         /\ Tail(s) \in Seq(Lines)
BY DEF ReadyIn

(* There is no READY in an empty sequence.                                 *)
LEMMA ReadyEmpty == ~ReadyIn(<<>>)
BY DEF ReadyIn

-----------------------------------------------------------------------------
(* Phases of an agent.                                                     *)

(* Only an agent that does not serve yet moves on by itself.               *)
LEMMA AdvanceFacts ==
  ASSUME NEW a, NEW b \in LC!Advance(a)
  PROVE  /\ a \in {"booting", "pidWritten", "announced"}
         /\ b \in LC!Phases
BY DEF LC!Advance, LC!Phases

(* A signal leaves an agent that already stops or ended as it is.          *)
LEMMA SignalFacts ==
  ASSUME NEW a \in LC!Phases
  PROVE  /\ LC!Signalled(a) \in LC!Phases
         /\ a \in {"stopping", "done", "killed"} =>
              LC!Signalled(a) \in {"stopping", "done", "killed"}
BY DEF LC!Signalled, LC!Phases

-----------------------------------------------------------------------------
(* The type invariant.                                                     *)

(* A run of run_command starts in a well-typed state.                      *)
LEMMA TypeInit == Init => TypeOK
<1> SUFFICES ASSUME Init
             PROVE  TypeOK
  OBVIOUS
<1>1. local \in [Nodes -> SUBSET (Files \cup {"earlier"})]
  BY DEF Init, Files
<1>2. /\ pipe \in [Nodes -> Seq(Lines)] /\ held \in [Nodes -> Seq(Lines)]
      /\ remote \in [Nodes -> SUBSET Files]
      /\ ssh \in [Nodes -> {"none", "up", "dead"}]
      /\ agent \in [Nodes -> LC!Phases \cup {"absent"}]
      /\ copied \in [Nodes -> SUBSET {"rows", "summary"}]
  BY DEF Init
<1> QED
  BY <1>1, <1>2 DEF Init, TypeOK

(* Every step of run_command, of the nodes and of ssh keeps the types.     *)
LEMMA TypeStep == TypeOK /\ [Next]_vars => TypeOK'
<1> USE ReplayAssumption DEF TypeOK, control, process, remotes, startup,
  results, bounds, Files, Ended, Lines, LC!Phases, LC!PidFilePhases
<1>1. ASSUME TypeOK, Prepare PROVE TypeOK'
  BY <1>1 DEF Prepare, Goto, Leave, Fault
<1>2. ASSUME TypeOK, Deploy PROVE TypeOK'
  <2>1. /\ started' \in BOOLEAN /\ unwinding' \in BOOLEAN
        /\ profilerError' \in BOOLEAN
    BY <1>2, Zenon DEF Deploy, Goto, Fail, Leave, Fault
  <2> QED
    BY <1>2, <2>1 DEF Deploy, Goto, Fail, Leave, Fault
<1>3. ASSUME TypeOK, Preflight PROVE TypeOK'
  <2>1. /\ started' \in BOOLEAN /\ unwinding' \in BOOLEAN
        /\ profilerError' \in BOOLEAN
    BY <1>3, Zenon DEF Preflight, Goto, Fail, Leave, Fault
  <2> QED
    BY <1>3, <2>1 DEF Preflight, Goto, Fail, Leave, Fault
<1>4. ASSUME TypeOK, StartTimeout PROVE TypeOK'
  BY <1>4 DEF StartTimeout, AbortStart, Goto
<1>5. ASSUME TypeOK, StartReplay PROVE TypeOK'
  <2>1. /\ started' \in BOOLEAN /\ unwinding' \in BOOLEAN
        /\ profilerError' \in BOOLEAN
    BY <1>5, Zenon DEF StartReplay, Goto, Fault
  <2> QED
    BY <1>5, <2>1 DEF StartReplay, Goto, Fault
<1>6. ASSUME TypeOK, ReplayExits PROVE TypeOK'
  BY <1>6 DEF ReplayExits, Goto, Fault
<1>7. ASSUME TypeOK, Aggregate PROVE TypeOK'
  <2>1. /\ started' \in BOOLEAN /\ unwinding' \in BOOLEAN
        /\ profilerError' \in BOOLEAN
    BY <1>7, Zenon DEF Aggregate, Goto, Fail, Leave
  <2>2. /\ pc' \in {"cleanup", "report", "returned"} /\ todo' \in SUBSET Nodes
        /\ exit' \in {"none", "raised", "zero", "nonzero"}
    BY <1>7 DEF Aggregate, Goto, Fail, Leave
  <2>3. profileSummary' \in BOOLEAN
    BY <1>7, Zenon DEF Aggregate
  <2> QED
    BY <1>7, <2>1, <2>2, <2>3 DEF Aggregate
<1>8. ASSUME TypeOK, Report PROVE TypeOK'
  BY <1>8 DEF Report, Goto, Leave
<1>9. ASSUME TypeOK, KeyboardInterrupt PROVE TypeOK'
  <2>1. /\ started' \in BOOLEAN /\ unwinding' \in BOOLEAN
        /\ profilerError' \in BOOLEAN
    BY <1>9, Zenon DEF KeyboardInterrupt, AbortStart, Goto, Fail, Leave
  <2> QED
    BY <1>9, <2>1 DEF KeyboardInterrupt, AbortStart, Goto, Fail, Leave
<1>10. ASSUME TypeOK, NEW n \in Nodes, Launch(n) PROVE TypeOK'
  <2>1. /\ started' \in BOOLEAN /\ unwinding' \in BOOLEAN
        /\ profilerError' \in BOOLEAN
    BY <1>10, Zenon DEF Launch, Goto, Fail, Leave, Fault
  <2>2. /\ pc' \in {"launch", "ready", "report", "returned"}
        /\ todo' \in SUBSET Nodes
        /\ exit' \in {"none", "raised", "zero", "nonzero"}
    BY <1>10 DEF Launch, Goto, Fail, Leave
  <2>3. /\ ssh' \in [Nodes -> {"none", "up", "dead"}]
        /\ registered' \in SUBSET Nodes /\ pending' \in SUBSET Nodes
    BY <1>10 DEF Launch
  <2>4. faults' \in Nat /\ interrupts' \in Nat /\ notices' \in Nat
    BY <1>10 DEF Launch, Fault
  <2> QED
    BY <1>10, <2>1, <2>2, <2>3, <2>4 DEF Launch
<1>11. ASSUME TypeOK, NEW n \in Nodes, ReadLine(n) PROVE TypeOK'
  BY <1>11, ReadyHeadTail DEF ReadLine, Available
<1>12. ASSUME TypeOK, NEW n \in Nodes, ReadEof(n) PROVE TypeOK'
  BY <1>12 DEF ReadEof, AbortStart, Goto
<1>13. ASSUME TypeOK, NEW n \in Nodes, SendStop(n) PROVE TypeOK'
  <2>1. /\ started' \in BOOLEAN /\ unwinding' \in BOOLEAN
        /\ profilerError' \in BOOLEAN
    BY <1>13, Zenon DEF SendStop, Told, Goto, Fail, Leave, Fault
  <2>2. /\ pc' \in {"stop", "wait", "report", "returned"}
        /\ todo' \in SUBSET Nodes
        /\ exit' \in {"none", "raised", "zero", "nonzero"}
    BY <1>13, SignalFacts DEF SendStop, Goto, Fail, Leave
  <2>3. agent' \in [Nodes -> LC!Phases \cup {"absent"}]
    <3>1. Told(n) \/ UNCHANGED agent
      BY <1>13 DEF SendStop
    <3>2. agent[n] \in LC!PidFilePhases => LC!Signalled(agent[n]) \in LC!Phases
      BY <1>13, SignalFacts
    <3> QED
      BY <1>13, <3>1, <3>2 DEF Told
  <2>4. faults' \in Nat /\ interrupts' \in Nat /\ notices' \in Nat
    BY <1>13, SignalFacts DEF SendStop, Fault
  <2> QED
    BY <1>13, <2>1, <2>2, <2>3, <2>4 DEF SendStop
<1>14. ASSUME TypeOK, NEW n \in Nodes, WaitSsh(n) PROVE TypeOK'
  BY <1>14 DEF WaitSsh, Goto, Leave
<1>15. ASSUME TypeOK, NEW n \in Nodes, BeginCollect(n) PROVE TypeOK'
  <2>1. /\ started' \in BOOLEAN /\ unwinding' \in BOOLEAN
        /\ profilerError' \in BOOLEAN
    BY <1>15, Zenon DEF BeginCollect, Goto, Fail, Leave
  <2>2. /\ pc' \in {"copy", "report", "returned"}
        /\ todo' \in SUBSET Nodes
        /\ exit' \in {"none", "raised", "zero", "nonzero"}
    BY <1>15 DEF BeginCollect, Goto, Fail, Leave
  <2>3. local' \in [Nodes -> SUBSET (Files \cup {"earlier"})]
    <3>1. local' = local \/ local' = [local EXCEPT ![n] = {"dir"}]
      BY <1>15 DEF BeginCollect
    <3>2. {"dir"} \in SUBSET (Files \cup {"earlier"})
      BY <1>15
    <3> HIDE DEF Files
    <3> QED
      BY <1>15, <3>1, <3>2
  <2> QED
    BY <1>15, <2>1, <2>2, <2>3 DEF BeginCollect
<1>16. ASSUME TypeOK, NEW n \in Nodes, EndCollect(n) PROVE TypeOK'
  <2>1. /\ started' \in BOOLEAN /\ unwinding' \in BOOLEAN
        /\ profilerError' \in BOOLEAN
    BY <1>16, Zenon DEF EndCollect, Copying, Collected, Goto, Fail, Leave, Fault
  <2> QED
    BY <1>16, <2>1 DEF EndCollect, Copying, Collected, Goto, Fail, Leave, Fault
<1>17. ASSUME TypeOK, NEW n \in Nodes, Cleanup(n) PROVE TypeOK'
  <2>1. /\ started' \in BOOLEAN /\ unwinding' \in BOOLEAN
        /\ profilerError' \in BOOLEAN
    BY <1>17, Zenon DEF Cleanup, Goto, Fail, Leave, Fault
  <2>2. /\ pc' \in {"cleanup", "report", "returned"}
        /\ todo' \in SUBSET Nodes
        /\ exit' \in {"none", "raised", "zero", "nonzero"}
    BY <1>17 DEF Cleanup, Goto, Fail, Leave
  <2>3. remote' \in [Nodes -> SUBSET Files]
    BY <1>17 DEF Cleanup
  <2>4. faults' \in Nat /\ interrupts' \in Nat /\ notices' \in Nat
    BY <1>17 DEF Cleanup, Fault
  <2> QED
    BY <1>17, <2>1, <2>2, <2>3, <2>4 DEF Cleanup
<1>18. ASSUME TypeOK, NEW n \in Nodes, Connect(n) PROVE TypeOK'
  BY <1>18 DEF Connect
<1>19. ASSUME TypeOK, NEW n \in Nodes, SshNotice(n) PROVE TypeOK'
  BY <1>19 DEF SshNotice
<1>20. ASSUME TypeOK, NEW n \in Nodes, AgentAdvances(n) PROVE TypeOK'
  <2>1. PICK next \in LC!Advance(agent[n]) :
          /\ agent' = [agent EXCEPT ![n] = next]
          /\ IF next = "announced"
               THEN /\ announced' = announced \cup {n}
                    /\ pipe' = IF ssh[n] = "up" THEN [pipe EXCEPT ![n] = Append(@, "READY")]
                                                ELSE pipe
               ELSE UNCHANGED <<announced, pipe>>
    BY <1>20 DEF AgentAdvances
  <2>2. next \in LC!Phases
    BY <1>20, AdvanceFacts
  <2>3. agent' \in [Nodes -> LC!Phases \cup {"absent"}] /\ announced' \in SUBSET Nodes
    BY <1>20, <2>1, <2>2
  <2>4. pipe' \in [Nodes -> Seq(Lines)]
    <3>1. Append(pipe[n], "READY") \in Seq(Lines)
      BY <1>20
    <3>2. pipe' = pipe \/ pipe' = [pipe EXCEPT ![n] = Append(pipe[n], "READY")]
      BY <1>20, <2>1
    <3> QED
      BY <1>20, <3>1, <3>2
  <2> QED
    BY <1>20, <2>3, <2>4 DEF AgentAdvances
<1>21. ASSUME TypeOK, NEW n \in Nodes, AgentWrites(n) PROVE TypeOK'
  BY <1>21 DEF AgentWrites, Order
<1>22. ASSUME TypeOK, NEW n \in Nodes, AgentEnds(n) PROVE TypeOK'
  BY <1>22 DEF AgentEnds
<1>23. ASSUME TypeOK, NEW n \in Nodes, AgentDies(n) PROVE TypeOK'
  BY <1>23 DEF AgentDies, Fault
<1>24. ASSUME TypeOK, NEW n \in Nodes, SshEnds(n) PROVE TypeOK'
  BY <1>24 DEF SshEnds, Fault
<1>25. ASSUME TypeOK, NEW n \in Nodes,
          NEW f \in {"rows", "summary"}, CopyFile(n, f)
       PROVE  TypeOK'
  BY <1>25 DEF CopyFile, Copying, Content
<1>26. ASSUME TypeOK, UNCHANGED vars PROVE TypeOK'
  BY <1>26 DEF vars
<1> HIDE DEF TypeOK
<1> QED
  BY <1>1, <1>2, <1>3, <1>4, <1>5, <1>6, <1>7, <1>8, <1>9, <1>10,
    <1>11, <1>12, <1>13, <1>14, <1>15, <1>16, <1>17, <1>18, <1>19,
    <1>20, <1>21, <1>22, <1>23, <1>24, <1>25, <1>26
    DEF Next, Controller, Node

(* Every step keeps the inductive invariant.                               *)
LEMMA InvStep == IInv /\ [Next]_vars => IInv'
<1> USE ReplayAssumption DEF IInv, TypeOK, ReadyInv, StartedInv, CollectInv,
  EndInv, AgentInv, Kept, Complete, Finalising, control, process, remotes, startup, results,
  bounds, Files, Ended, Lines, LC!Phases, LC!PidFilePhases
<1>1. ASSUME IInv, TypeOK', Prepare PROVE IInv'
  BY <1>1 DEF Prepare, Goto, Leave, Fault
<1>2. ASSUME IInv, TypeOK', Deploy PROVE IInv'
  BY <1>2 DEF Deploy, Goto, Fail, Leave, Fault
<1>3. ASSUME IInv, TypeOK', Preflight PROVE IInv'
  BY <1>3 DEF Preflight, Goto, Fail, Leave, Fault
<1>4. ASSUME IInv, TypeOK', StartTimeout PROVE IInv'
  BY <1>4 DEF StartTimeout, AbortStart, Goto
<1>5. ASSUME IInv, TypeOK', StartReplay PROVE IInv'
  BY <1>5 DEF StartReplay, Goto, Fault
<1>6. ASSUME IInv, TypeOK', ReplayExits PROVE IInv'
  BY <1>6 DEF ReplayExits, Goto, Fault
<1>7. ASSUME IInv, TypeOK', Aggregate PROVE IInv'
  BY <1>7 DEF Aggregate, Goto, Fail, Leave
<1>8. ASSUME IInv, TypeOK', Report PROVE IInv'
  BY <1>8 DEF Report, Goto, Leave
<1>9. ASSUME IInv, TypeOK', KeyboardInterrupt PROVE IInv'
  BY <1>9 DEF KeyboardInterrupt, AbortStart, Goto, Fail, Leave
<1>10. ASSUME IInv, TypeOK', NEW n \in Nodes, Launch(n) PROVE IInv'
  BY <1>10 DEF Launch, Goto, Fail, Leave, Fault
<1>11. ASSUME IInv, TypeOK', NEW n \in Nodes, ReadLine(n) PROVE IInv'
  <2>1. Available(n) \in Seq(Lines) /\ Available(n) # <<>>
    BY <1>11 DEF ReadLine, Available
  <2>2. ReadyIn(Available(n)) => n \in announced
    <3>1. CASE held[n] = <<>>
      BY <1>11, <3>1 DEF Available
    <3>2. CASE held[n] # <<>>
      BY <1>11, <3>2 DEF Available
    <3> QED
      BY <1>11, <3>1, <3>2
  <2>3. /\ ReadyIn(Tail(Available(n))) => n \in announced
        /\ Head(Available(n)) = "READY" => n \in announced
    BY <1>11, <2>1, <2>2, ReadyHeadTail
  <2>4. \A m \in Nodes : ReadyIn(pipe'[m]) \/ ReadyIn(held'[m]) => m \in announced
    BY <1>11, <2>3, ReadyEmpty DEF ReadLine
  <2>5. Nodes \ pending' \subseteq announced
    BY <1>11, <2>3 DEF ReadLine
  <2>6. ASSUME pending' = {} PROVE announced = Nodes
    <3>1. Nodes \subseteq announced
      BY <1>11, <2>5, <2>6
    <3>2. announced \subseteq Nodes
      BY <1>11
    <3> QED
      BY <3>1, <3>2
  <2>7. ReadyInv' /\ StartedInv'
    BY <1>11, <2>4, <2>5, <2>6 DEF ReadLine
  <2> QED
    BY <1>11, <2>7 DEF ReadLine
<1>12. ASSUME IInv, TypeOK', NEW n \in Nodes, ReadEof(n) PROVE IInv'
  BY <1>12 DEF ReadEof, AbortStart, Goto
<1>13. ASSUME IInv, TypeOK', NEW n \in Nodes, SendStop(n) PROVE IInv'
  <2>1. /\ local' = local /\ remote' = remote /\ announced' = announced
        /\ pipe' = pipe /\ held' = held /\ pending' = pending
        /\ profileSummary' = profileSummary
        /\ replay' = replay /\ returnCode' = returnCode
    BY <1>13 DEF SendStop
  <2>2. /\ started' = started /\ unwinding' = unwinding
        /\ \/ /\ pc' \in {"stop", "wait"}
              /\ exit' = exit /\ profilerError' = profilerError
           \/ pc' = "report" /\ started /\ profilerError' /\ exit' = exit
           \/ pc' = "returned" /\ exit' = "raised"
    BY <1>13 DEF SendStop, Goto, Fail, Leave
  <2>3. ReadyInv' /\ StartedInv' /\ CollectInv' /\ EndInv'
    BY <1>13, <2>1, <2>2 DEF SendStop
  <2>4. AgentInv'
    <3>1. Told(n) \/ UNCHANGED agent
      BY <1>13 DEF SendStop
    <3>2. agent[n] \in {"stopping", "done", "killed"} =>
            agent'[n] \in {"stopping", "done", "killed"}
      BY <1>13, <3>1, SignalFacts DEF Told
    <3>3. \A m \in Nodes : m # n => agent'[m] = agent[m]
      BY <1>13, <3>1 DEF Told
    <3> QED
      BY <1>13, <2>1, <3>2, <3>3
  <2> QED
    BY <1>13, <2>3, <2>4
<1>14. ASSUME IInv, TypeOK', NEW n \in Nodes, WaitSsh(n) PROVE IInv'
  BY <1>14 DEF WaitSsh, Goto, Leave
<1>15. ASSUME IInv, TypeOK', NEW n \in Nodes, BeginCollect(n) PROVE IInv'
  <2> DEFINE Made == local' = [local EXCEPT ![n] = {"dir"}]
  <2>a. local' = local \/ (Made /\ local[n] = {})
    BY <1>15 DEF BeginCollect
  <2>b. /\ pc = "collect" /\ started /\ started' = started
        /\ \/ pc' = "copy" /\ todo' = todo
           \/ pc' = "report"
        /\ n \in todo
    BY <1>15 DEF BeginCollect, Goto, Fail, Leave
  <2>c. \A m \in Nodes : m # n => local'[m] = local[m]
    BY <1>15, <2>a
  <2>d. local'[n] = local[n] \/ local'[n] = {"dir"}
    BY <1>15, <2>a
  <2> HIDE DEF Made
  <2>1. CollectInv'
    <3>1. ASSUME NEW m \in Nodes, "dir" \in local'[m] PROVE "earlier" \notin local'[m]
      <4>1. CASE local'[m] = local[m]
        BY <1>15, <3>1, <4>1
      <4>2. CASE local'[m] = {"dir"}
        BY <4>2
      <4> QED
        BY <2>c, <2>d, <4>1, <4>2
    <3>2. ASSUME pc' = "copy", NEW m \in Nodes \ todo' PROVE Kept(m)'
      <4>1. m \notin todo /\ pc = "collect" /\ m # n
        BY <2>b, <3>2
      <4>2. Kept(m) /\ local'[m] = local[m]
        BY <1>15, <2>c, <4>1
      <4> QED
        BY <4>2
    <3> QED
      BY <1>15, <2>b, <3>1, <3>2
  <2>2. EndInv' /\ StartedInv'
    BY <1>15 DEF BeginCollect, Goto, Fail, Leave
  <2>3. AgentInv'
    <3>1. agent' = agent /\ remote' = remote
      BY <1>15 DEF BeginCollect
    <3>2. ASSUME NEW m \in Nodes, "complete" \in local'[m] PROVE local'[m] = local[m]
      <4>1. local'[m] # {"dir"}
        BY <3>2
      <4> QED
        BY <2>c, <2>d, <4>1
    <3> QED
      BY <1>15, <3>1, <3>2
  <2>4. ReadyInv'
    BY <1>15, <2>b DEF BeginCollect
  <2> QED
    BY <1>15, <2>1, <2>2, <2>3, <2>4
<1>16. ASSUME IInv, TypeOK', NEW n \in Nodes, EndCollect(n) PROVE IInv'
  <2>1. CollectInv'
    <3>1. /\ local' = local /\ started' = started /\ started
          /\ pc = "copy" /\ n \in todo /\ "dir" \in local[n]
      BY <1>16 DEF EndCollect, Copying, Collected, Fail
    <3>2. \/ pc' = "report"
          \/ pc' = "aggregate" /\ todo = {n} /\ "summary" \in local[n]
          \/ pc' = "collect" /\ todo' = todo \ {n} /\ "summary" \in local[n]
      BY <1>16, <3>1 DEF EndCollect, Collected, Goto, Fail
    <3> QED
      BY <1>16, <3>1, <3>2
  <2>2. EndInv' /\ StartedInv'
    BY <1>16 DEF EndCollect, Copying, Collected, Goto, Fail, Leave, Fault
  <2>3. AgentInv' /\ ReadyInv'
    BY <1>16 DEF EndCollect, Copying, Collected, Goto, Fail, Leave, Fault
  <2> QED
    BY <1>16, <2>1, <2>2, <2>3
<1>17. ASSUME IInv, TypeOK', NEW n \in Nodes, Cleanup(n) PROVE IInv'
  BY <1>17 DEF Cleanup, Goto, Fail, Leave, Fault
<1>18. ASSUME IInv, TypeOK', NEW n \in Nodes, Connect(n) PROVE IInv'
  BY <1>18 DEF Connect
<1>19. ASSUME IInv, TypeOK', NEW n \in Nodes, SshNotice(n) PROVE IInv'
  BY <1>19, ReadyAppend DEF SshNotice
<1>20. ASSUME IInv, TypeOK', NEW n \in Nodes, AgentAdvances(n) PROVE IInv'
  <2>1. PICK next \in LC!Advance(agent[n]) :
          /\ agent' = [agent EXCEPT ![n] = next]
          /\ IF next = "announced"
               THEN /\ announced' = announced \cup {n}
                    /\ pipe' = IF ssh[n] = "up" THEN [pipe EXCEPT ![n] = Append(@, "READY")]
                                                ELSE pipe
               ELSE UNCHANGED <<announced, pipe>>
    BY <1>20 DEF AgentAdvances
  <2>2. agent[n] \in {"booting", "pidWritten", "announced"}
    BY <1>20, AdvanceFacts
  <2>3. AgentInv'
    BY <1>20, <2>1, <2>2 DEF AgentAdvances
  <2>4. ReadyInv'
    <3>1. /\ held' = held /\ pc' = pc /\ pending' = pending
          /\ started' = started /\ replay' = replay
          /\ announced \subseteq announced' /\ announced' \subseteq Nodes
      BY <1>20, <2>1 DEF AgentAdvances
    <3>2. pipe' = pipe \/ (/\ pipe' = [pipe EXCEPT ![n] = Append(pipe[n], "READY")]
                          /\ n \in announced')
      BY <1>20, <2>1
    <3>3. ASSUME NEW m \in Nodes, ReadyIn(pipe'[m]) PROVE m \in announced'
      <4>1. CASE pipe'[m] = pipe[m]
        BY <1>20, <3>1, <3>3, <4>1
      <4>2. CASE m = n /\ n \in announced'
        BY <4>2
      <4>3. pipe'[m] = pipe[m] \/ (m = n /\ n \in announced')
        BY <1>20, <3>2
      <4> QED
        BY <4>1, <4>2, <4>3
    <3>4. ASSUME started PROVE announced' = Nodes
      <4>1. announced = Nodes
        BY <1>20, <3>4
      <4> QED
        BY <3>1, <4>1
    <3> QED
      BY <1>20, <3>1, <3>3, <3>4
  <2> QED
    BY <1>20, <2>3, <2>4 DEF AgentAdvances
<1>21. ASSUME IInv, TypeOK', NEW n \in Nodes, AgentWrites(n) PROVE IInv'
  BY <1>21 DEF AgentWrites, Order
<1>22. ASSUME IInv, TypeOK', NEW n \in Nodes, AgentEnds(n) PROVE IInv'
  BY <1>22 DEF AgentEnds
<1>23. ASSUME IInv, TypeOK', NEW n \in Nodes, AgentDies(n) PROVE IInv'
  BY <1>23 DEF AgentDies, Fault
<1>24. ASSUME IInv, TypeOK', NEW n \in Nodes, SshEnds(n) PROVE IInv'
  BY <1>24 DEF SshEnds, Fault
<1>25. ASSUME IInv, TypeOK', NEW n \in Nodes,
          NEW f \in {"rows", "summary"}, CopyFile(n, f)
       PROVE  IInv'
  BY <1>25 DEF CopyFile, Copying, Content
<1>26. ASSUME IInv, TypeOK', UNCHANGED vars PROVE IInv'
  BY <1>26 DEF vars
<1> HIDE DEF IInv, TypeOK, ReadyInv, StartedInv, CollectInv, EndInv,
  AgentInv
<1>27. IInv => TypeOK
  BY DEF IInv
<1> QED
  BY <1>1, <1>2, <1>3, <1>4, <1>5, <1>6, <1>7, <1>8, <1>9, <1>10,
    <1>11, <1>12, <1>13, <1>14, <1>15, <1>16, <1>17, <1>18, <1>19,
    <1>20, <1>21, <1>22, <1>23, <1>24, <1>25, <1>26,
    <1>27, TypeStep
    DEF Next, Controller, Node

(* At the start nothing is announced, collected or removed.                *)
LEMMA InvInit == Init => IInv
<1> SUFFICES ASSUME Init
             PROVE  IInv
  OBVIOUS
<1>1. ReadyInv
  BY ReadyEmpty DEF Init, ReadyInv
<1>2. StartedInv /\ CollectInv /\ EndInv /\ AgentInv
  BY DEF Init, StartedInv, Finalising, CollectInv, EndInv, AgentInv
<1> QED
  BY <1>1, <1>2, TypeInit DEF IInv

(* The inductive invariant holds throughout every run.                     *)
LEMMA Inductive == Spec => []IInv
  BY InvInit, InvStep, PTL DEF Spec

-----------------------------------------------------------------------------
(* The type invariant of the replay and its profiler.                      *)
THEOREM ReplayTypeCorrect == Spec => []TypeOK
<1>1. IInv => TypeOK
  BY DEF IInv
<1> QED
  BY <1>1, Inductive, PTL

(* The replay only starts when every agent printed READY, for any nodes,   *)
(* any lines of ssh and any order in which they arrive.                    *)
THEOREM MeasuredReplay == Spec => []ReplayIsMeasured
<1>1. IInv => ReplayIsMeasured
  BY DEF IInv, ReadyInv, ReplayIsMeasured
<1> QED
  BY <1>1, Inductive, PTL

(* Exit code 0 means a complete, aggregated profile of this run and no     *)
(* agent that still measures.                                              *)
THEOREM ZeroIsProfiled == Spec => []ExitZeroIsProfiled
<1>1. IInv => ExitZeroIsProfiled
  BY DEF IInv, EndInv, AgentInv, Complete, Ended, ExitZeroIsProfiled
<1> QED
  BY <1>1, Inductive, PTL

-----------------------------------------------------------------------------
(* Removal of the run directories.                                         *)

Removal == \E n \in Nodes : "dir" \in remote[n] /\ "dir" \notin remote'[n]

(* Only cleanup removes a run directory.                                   *)
LEMMA OnlyCleanupRemoves ==
  IInv /\ Next /\ Removal => pc = "cleanup"
<1> SUFFICES ASSUME IInv, Next, Removal
             PROVE  pc = "cleanup"
  OBVIOUS
<1>0. remote' # remote
  BY DEF Removal
<1> USE DEF remotes
<1>1. ASSUME Prepare PROVE FALSE
  BY <1>1, <1>0 DEF Prepare
<1>2. ASSUME Preflight PROVE FALSE
  BY <1>2, <1>0 DEF Preflight
<1>3. ASSUME StartTimeout PROVE FALSE
  BY <1>3, <1>0 DEF StartTimeout
<1>4. ASSUME StartReplay PROVE FALSE
  BY <1>4, <1>0 DEF StartReplay
<1>5. ASSUME ReplayExits PROVE FALSE
  BY <1>5, <1>0 DEF ReplayExits
<1>6. ASSUME Aggregate PROVE FALSE
  BY <1>6, <1>0 DEF Aggregate
<1>7. ASSUME Report PROVE FALSE
  BY <1>7, <1>0 DEF Report
<1>8. ASSUME KeyboardInterrupt PROVE FALSE
  BY <1>8, <1>0 DEF KeyboardInterrupt
<1>9. ASSUME NEW n \in Nodes, Launch(n) PROVE FALSE
  BY <1>9, <1>0 DEF Launch
<1>10. ASSUME NEW n \in Nodes, ReadLine(n) PROVE FALSE
  BY <1>10, <1>0 DEF ReadLine
<1>11. ASSUME NEW n \in Nodes, ReadEof(n) PROVE FALSE
  BY <1>11, <1>0 DEF ReadEof
<1>12. ASSUME NEW n \in Nodes, SendStop(n) PROVE FALSE
  BY <1>12, <1>0 DEF SendStop
<1>13. ASSUME NEW n \in Nodes, WaitSsh(n) PROVE FALSE
  BY <1>13, <1>0 DEF WaitSsh
<1>14. ASSUME NEW n \in Nodes, BeginCollect(n) PROVE FALSE
  BY <1>14, <1>0 DEF BeginCollect
<1>15. ASSUME NEW n \in Nodes, EndCollect(n) PROVE FALSE
  BY <1>15, <1>0 DEF EndCollect
<1>16. ASSUME NEW n \in Nodes, Connect(n) PROVE FALSE
  BY <1>16, <1>0 DEF Connect
<1>17. ASSUME NEW n \in Nodes, SshNotice(n) PROVE FALSE
  BY <1>17, <1>0 DEF SshNotice
<1>18. ASSUME NEW n \in Nodes, AgentAdvances(n) PROVE FALSE
  BY <1>18, <1>0 DEF AgentAdvances
<1>19. ASSUME NEW n \in Nodes, AgentEnds(n) PROVE FALSE
  BY <1>19, <1>0 DEF AgentEnds
<1>20. ASSUME NEW n \in Nodes, AgentDies(n) PROVE FALSE
  BY <1>20, <1>0 DEF AgentDies
<1>21. ASSUME NEW n \in Nodes, SshEnds(n) PROVE FALSE
  BY <1>21, <1>0 DEF SshEnds
<1>22. ASSUME NEW n \in Nodes, NEW f \in {"rows", "summary"}, CopyFile(n, f)
       PROVE  FALSE
  BY <1>22, <1>0 DEF CopyFile
<1>23. ASSUME Deploy PROVE FALSE
  BY <1>23 DEF Deploy, Removal, IInv, StartedInv
<1>24. ASSUME NEW n \in Nodes, AgentWrites(n) PROVE FALSE
  BY <1>24 DEF AgentWrites, Order, Removal, IInv, TypeOK
<1>25. ASSUME NEW n \in Nodes, Cleanup(n) PROVE pc = "cleanup"
  BY <1>25 DEF Cleanup
<1> QED
  BY <1>1, <1>2, <1>3, <1>4, <1>5, <1>6, <1>7, <1>8, <1>9, <1>10,
    <1>11, <1>12, <1>13, <1>14, <1>15, <1>16, <1>17, <1>18, <1>19,
    <1>20, <1>21, <1>22, <1>23, <1>24, <1>25
    DEF Next, Controller, Node

(* A run directory is only removed when every node's complete summary is   *)
(* at the replay host and aggregated, whichever step fails.                *)
THEOREM RemovalIsSafe == Spec => RemovedIsCollected
<1> DEFINE Safe == Removal => /\ profileSummary
                              /\ \A n \in Nodes : Complete(n)
<1>1. IInv /\ [Next]_vars => [Safe]_vars
  <2> SUFFICES ASSUME IInv, Next, Removal
               PROVE  profileSummary /\ \A n \in Nodes : Complete(n)
    OBVIOUS
  <2>1. pc = "cleanup"
    BY OnlyCleanupRemoves
  <2> QED
    BY <2>1 DEF IInv, EndInv
<1>2. Spec => [][Safe]_vars
  BY <1>1, Inductive, PTL DEF Spec
<1> QED
  BY <1>2 DEF RemovedIsCollected, Removal, Complete

===============================================================================
