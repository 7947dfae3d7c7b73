-------------------------- MODULE StagedReplayProofs --------------------------
(***************************************************************************)
(* Proofs about StagedReplay, for any assets and run names and any number  *)
(* of calls, lost connections and kills.                                   *)
(***************************************************************************)
EXTENDS StagedReplay, TLAPS

(* What is fetched and sent, and what is extracted.                        *)
StageItems == {Archive(a) : a \in Assets} \cup {Repo, Venv}
Traces == {Trace(a) : a \in Assets}

(* What the script is working on at each step, and that the command it     *)
(* waits for was started.                                                  *)
ItemInv ==
  /\ step \in {"fetch", "fetching", "test", "send", "sending"} => item \in StageItems
  /\ step = "testTrace" => item \in Traces
  /\ step \in {"command", "wait"} => item \in Traces \cup {Venv, Out(runName)}
  /\ step \in {"testOut", "testResult", "retrieving", "code"} => item = Out(runName)
  /\ step = "wait" => job[invocations].state # "none"
  /\ step # "idle" => invocations \in Invocations

(* A venv at the replay node is never simply complete: it is a copy of the *)
(* controller's or it passed its checks.  Nothing else is ever ready.      *)
KindInv ==
  /\ there[Venv] # "complete"
  /\ \A x \in Items : there[x] = "ready" => x = Venv

IInv == TypeOK /\ ItemInv /\ KindInv

-----------------------------------------------------------------------------
(* Items.                                                                  *)

(* The items, outputs and NoItem are told apart by their first component.  *)
LEMMA ItemFacts ==
  /\ Repo \in Items /\ Venv \in Items /\ Repo # Venv /\ NoItem \notin Items
  /\ Repo[1] = "repo" /\ Venv[1] = "venv" /\ NoItem[1] = "none"
  /\ \A x \in StageItems : x \in Items /\ x # NoItem /\ x[1] # "output" /\ x[1] # "trace"
  /\ \A x \in StageItems \ {Repo, Venv} : Trace(x[2]) \in Traces
  /\ Repo \in StageItems /\ Venv \in StageItems /\ \A a \in Assets : Archive(a) \in StageItems
  /\ \A x \in Traces : x \in Items /\ x \notin {Repo, Venv, NoItem} /\ x[1] = "trace"
  /\ \A r \in RunNames : /\ Out(r) \in Outs /\ Out(r) \notin Items /\ Out(r) # NoItem
                         /\ Out(r)[1] = "output" /\ Out(r)[2] = r
  /\ \A x \in Items : x[1] # "output" /\ (x[1] = "trace" => x \in Traces)
  /\ \A x \in Outs : x[1] = "output" /\ x \notin Items /\ x[2] \in RunNames /\ x = Out(x[2])
BY DEF Items, StageItems, Traces, Outs, Repo, Venv, NoItem, Archive, Trace, Out

-----------------------------------------------------------------------------
(* The type invariant.                                                     *)

(* The first call finds a well-typed state.                                *)
LEMMA TypeInit == Init => TypeOK
<1> SUFFICES ASSUME Init PROVE TypeOK
  OBVIOUS
<1>1. job \in [Invocations -> Jobs]
  BY StagedAssumption DEF Init, NoJob, Jobs, Targets
<1>2. here \in [Items -> {"absent", "partial", "complete"}] /\ there \in [Items -> Contents]
  BY DEF Init, Contents
<1>3. /\ wrote \in [RunNames -> SUBSET Invocations]
      /\ back \in [RunNames -> SUBSET Invocations]
      /\ code \in [RunNames -> {"none", "dir", "zero", "nonzero"}]
  BY DEF Init
<1>4. /\ step \in Steps /\ item \in Targets /\ mode \in {"remote_install", "copy_venv"}
      /\ phase \in Phases \cup {"none"}
      /\ assets \in SUBSET Assets /\ todo \in SUBSET assets /\ runName \in RunNames
      /\ status \in {"zero", "nonzero", "lost"} /\ exit \in {"none", "zero", "nonzero"}
  BY DEF Init, Steps, Targets
<1>5. preexisting \in BOOLEAN /\ missed \in SUBSET (Invocations \X Targets)
  BY DEF Init
<1>6. invocations \in 0 .. MaxInvocations /\ failures \in 0 .. MaxFailures
  BY StagedAssumption DEF Init
<1> QED
  BY <1>1, <1>2, <1>3, <1>4, <1>5, <1>6 DEF TypeOK

(* The end of a remote command changes its state, and no other command.    *)
LEMMA EndsFacts ==
  ASSUME TypeOK, NEW k \in Invocations, NEW s, Ends(k, s)
  PROVE  /\ job'[k].state = s /\ job'[k].item = job[k].item
         /\ job'[k].ended = invocations
         /\ \A j \in Invocations \ {k} : job'[j] = job[j]
BY DEF TypeOK, Ends, Jobs

(* The end of a remote command is one of the states of a job.              *)
LEMMA EndsType ==
  ASSUME TypeOK, NEW k \in Invocations, NEW s \in {"zero", "nonzero"}, Ends(k, s)
  PROVE  job' \in [Invocations -> Jobs]
<1>1. job[k] \in Jobs /\ [job[k] EXCEPT !.state = s, !.ended = invocations] \in Jobs
  BY DEF TypeOK, Jobs
<1> QED
  BY <1>1 DEF TypeOK, Ends

(* Every step of the script and of the replay node keeps the types.        *)
LEMMA TypeStep ==
  ASSUME TypeOK, ItemInv, [Next]_vars
  PROVE  TypeOK'
<1> USE StagedAssumption DEF TypeOK, script, results, Arguments, Remote, Counters, Steps,
  Phases, Contents, ItemInv, Targets, Invocations
<1>1. CASE Invoke
  <2>1. invocations' \in 0 .. MaxInvocations
    BY <1>1 DEF Invoke
  <2>2. /\ assets' \in SUBSET Assets /\ todo' \in SUBSET assets'
        /\ item' \in Targets
    BY <1>1, ItemFacts DEF Invoke
  <2>3. step' \in Steps /\ phase' \in Phases
    BY <1>1 DEF Invoke
  <2> QED
    BY <1>1, <2>1, <2>2, <2>3 DEF Invoke
<1>2. CASE Fetch
  <2>1. step' \in Steps /\ item' = item /\ UNCHANGED <<exit, missed>>
    BY <1>2 DEF Fetch, Goto
  <2>2. here' \in [Items -> {"absent", "partial", "complete"}]
    BY <1>2 DEF Fetch
  <2> QED
    BY <1>2, <2>1, <2>2 DEF Fetch
<1>3. CASE Fetched
  BY <1>3, ItemFacts DEF Fetched, Goto
<1>4. CASE TestTransfer
  <2>0. missed' \in {missed, missed \cup {<<invocations, item>>}} /\ preexisting' = preexisting
    BY <1>4, Zenon DEF TestTransfer, RemotePathExists
  <2>1. missed' \in SUBSET (Invocations \X Targets) /\ preexisting' \in BOOLEAN
    BY <1>4, <2>0 DEF TestTransfer
  <2> QED
    BY <1>4, <2>1, ItemFacts DEF TestTransfer, RemotePathExists, Exists,
        AfterTransfer, Goto, Failure
<1>5. CASE Send
  BY <1>5, ItemFacts DEF Send, Goto, Sent, Started, Merged
<1>6. CASE SendEnds
  BY <1>6, ItemFacts DEF SendEnds, AfterTransfer, Goto, Sent, Landed, Merged
<1>7. CASE TestTrace
  <2>0. missed' \in {missed, missed \cup {<<invocations, item>>}} /\ preexisting' = preexisting
    BY <1>7, Zenon DEF TestTrace, RemotePathExists
  <2>1. missed' \in SUBSET (Invocations \X Targets) /\ preexisting' \in BOOLEAN
    BY <1>7, <2>0 DEF TestTrace
  <2> QED
    BY <1>7, <2>1, ItemFacts DEF TestTrace, RemotePathExists, Exists, NextAsset,
        Goto, Leave, Failure
<1>8. CASE Prerequisites
  BY <1>8, ItemFacts DEF Prerequisites, Goto, Leave
<1>9. CASE TestVenv
  <2>0. missed' \in {missed, missed \cup {<<invocations, Venv>>}}
        /\ preexisting' \in {preexisting, TRUE}
    BY <1>9, Zenon DEF TestVenv, RemotePathExists
  <2>1. missed' \in SUBSET (Invocations \X Targets) /\ preexisting' \in BOOLEAN
    <3>1. <<invocations, Venv>> \in Invocations \X Targets
      BY <1>9, ItemFacts DEF TestVenv
    <3> QED
      BY <2>0, <3>1
  <2> QED
    BY <1>9, <2>1, ItemFacts DEF TestVenv, RemotePathExists, Exists, Goto, Failure
<1>10. CASE Verify
  BY <1>10, ItemFacts DEF Verify, Prepared, Goto, Leave
<1>11. CASE CheckHere
  BY <1>11, ItemFacts DEF CheckHere, Goto, Leave
<1>12. CASE CheckThere
  BY <1>12, ItemFacts DEF CheckThere, Prepared, Goto, Leave
<1>13. CASE Command
  <2>1. item \in Targets /\ (item \in Items /\ there[item] = "absent") \in BOOLEAN
    BY <1>13
  <2>2. [item |-> item, state |-> "running", ended |-> 0,
         fresh |-> item \in Items /\ there[item] = "absent"] \in Jobs
    BY <2>1 DEF Jobs
  <2>3. job' \in [Invocations -> Jobs]
    BY <1>13, <2>2 DEF Command, Starts
  <2> QED
    BY <1>13, <2>3 DEF Command, Goto
<1>14. CASE CommandReturns
  BY <1>14, ItemFacts DEF CommandReturns, AfterCommand, NextAsset, Prepared,
    Goto, Leave, Running
<1>15. CASE TestOut
  <2>0. missed' \in {missed, missed \cup {<<invocations, item>>}} /\ preexisting' = preexisting
    BY <1>15, Zenon DEF TestOut, RemotePathExists
  <2>1. missed' \in SUBSET (Invocations \X Targets) /\ preexisting' \in BOOLEAN
    BY <1>15, <2>0 DEF TestOut
  <2> QED
    BY <1>15, <2>1, ItemFacts DEF TestOut, RemotePathExists, Exists, Goto, Leave,
        Failure
<1>16. CASE ReplayReturns
  <2>1. status' \in {"zero", "nonzero"}
    <3>1. step = "wait" =>
            job[invocations] \in Jobs /\ job[invocations].state # "none"
      BY <1>16
    <3> QED
      BY <1>16, <3>1 DEF ReplayReturns, Running, Jobs
  <2> QED
    BY <1>16, <2>1 DEF ReplayReturns, Goto, Failure
<1>17. CASE Retrieve
  <2>0. missed' \in {missed, missed \cup {<<invocations, item>>}}
    BY <1>17, Zenon DEF Retrieve, RemotePathExists
  <2>1. missed' \in SUBSET (Invocations \X Targets)
    BY <1>17, <2>0 DEF Retrieve
  <2>2. /\ code' \in [RunNames -> {"none", "dir", "zero", "nonzero"}]
        /\ back' \in [RunNames -> SUBSET Invocations]
    BY <1>17 DEF Retrieve, RemotePathExists
  <2>3. step' \in Steps /\ item' \in Targets /\ failures' \in 0 .. MaxFailures
    BY <1>17 DEF Retrieve, RemotePathExists, Goto, Failure
  <2> QED
    BY <1>17, <2>1, <2>2, <2>3 DEF Retrieve, RemotePathExists, Goto
<1>18. CASE Retrieved
  <2>1. back' \in [RunNames -> SUBSET Invocations]
    BY <1>18 DEF Retrieved, Goto
  <2>2. status' \in {"zero", "nonzero", "lost"}
    BY <1>18 DEF Retrieved
  <2> QED
    BY <1>18, <2>1, <2>2 DEF Retrieved, Goto, Failure
<1>19. CASE WriteCode
  BY <1>19, ItemFacts DEF WriteCode, Leave
<1>20. CASE Dies
  BY <1>20, ItemFacts DEF Dies, Leave, Failure
<1>21. CASE Killed
  BY <1>21, ItemFacts DEF Killed, Leave, Failure
<1>22. ASSUME NEW k \in Invocations, Extracts(k) PROVE TypeOK'
  <2>1. job' \in [Invocations -> Jobs]
    BY <1>22, EndsType DEF Extracts, Running
  <2>2. there' \in [Items -> Contents]
    BY <1>22 DEF Extracts
  <2> QED
    BY <1>22, <2>1, <2>2 DEF Extracts
<1>23. ASSUME NEW k \in Invocations, MakesVenv(k) PROVE TypeOK'
  <2>1. job' \in [Invocations -> Jobs]
    BY <1>23, EndsType DEF MakesVenv, Running
  <2>2. there' \in [Items -> Contents]
    BY <1>23 DEF MakesVenv
  <2> QED
    BY <1>23, <2>1, <2>2 DEF MakesVenv
<1>24. ASSUME NEW k \in Invocations, Replays(k) PROVE TypeOK'
  <2>1. job' \in [Invocations -> Jobs]
    BY <1>24, EndsType DEF Replays, Running
  <2> QED
    BY <1>24, <2>1, ItemFacts DEF Replays, Running
<1>25. ASSUME NEW k \in Invocations, CommandFails(k) PROVE TypeOK'
  <2>1. job' \in [Invocations -> Jobs]
    BY <1>25, EndsType DEF CommandFails, Running, Failure
  <2> QED
    BY <1>25, <2>1, ItemFacts DEF CommandFails, Running, Failure
<1>26. ASSUME NEW k \in Invocations, Reworks(k) PROVE TypeOK'
  BY <1>26, ItemFacts DEF Reworks
<1>27. CASE UNCHANGED vars
  BY <1>27 DEF vars
<1> HIDE DEF TypeOK, ItemInv
<1> QED
  BY <1>1, <1>2, <1>3, <1>4, <1>5, <1>6, <1>7, <1>8, <1>9, <1>10, <1>11,
    <1>12, <1>13, <1>14, <1>15, <1>16, <1>17, <1>18, <1>19, <1>20, <1>21,
    <1>22, <1>23, <1>24, <1>25, <1>26, <1>27
    DEF Next, Script, ReplayNode

-----------------------------------------------------------------------------
(* The parts of the inductive invariant.                                   *)

(* The script goes on with x, or ends.                                     *)
Moves(s, x) == step' = s /\ item' = x
Idles == step' = "idle" /\ item' = NoItem

(* After an asset: the next one, the repository, or the end.               *)
LEMMA NextAssetFacts ==
  ASSUME TypeOK, NextAsset
  PROVE  Idles \/ (step' = "fetch" /\ item' \in StageItems \ {Venv})
<1>1. CASE todo # {}
  <2>1. PICK a \in todo : step' = "fetch" /\ item' = Archive(a)
    BY <1>1 DEF NextAsset, Goto
  <2>2. a \in Assets /\ Archive(a) # Venv
    BY DEF TypeOK, Archive, Venv
  <2> QED
    BY <2>1, <2>2, ItemFacts
<1>2. CASE todo = {}
  <2>1. IF phase = "all" THEN Goto("fetch", Repo) ELSE Leave("zero")
    BY <1>2, Zenon DEF NextAsset
  <2>2. Repo \in StageItems \ {Venv}
    BY ItemFacts
  <2>3. CASE phase = "all"
    BY <2>1, <2>2, <2>3 DEF Goto
  <2>4. CASE phase # "all"
    BY <2>1, <2>4 DEF Leave, Idles
  <2> QED
    BY <2>3, <2>4
<1> QED
  BY <1>1, <1>2

(* What the script works on.                                               *)
LEMMA ItemStep ==
  ASSUME TypeOK, ItemInv, [Next]_vars
  PROVE  ItemInv'
<1> USE StagedAssumption DEF TypeOK, ItemInv, script, results, Arguments, Remote, Counters
<1>1. CASE Invoke
  <2>1. invocations' \in Invocations
    <3>1. /\ invocations \in 0 .. MaxInvocations /\ invocations < MaxInvocations
          /\ invocations' = invocations + 1
      BY <1>1 DEF Invoke
    <3> QED
      BY <3>1, StagedAssumption DEF Invocations
  <2>2. \/ step' = "fetch" /\ item' \in StageItems
        \/ step' = "prereq"
        \/ step' = "testOut" /\ item' = Out(runName')
    <3>1. assets' \subseteq Assets /\ step' = "fetch" => item' \in StageItems
      BY <1>1, ItemFacts DEF Invoke
    <3> QED
      BY <1>1, <3>1, ItemFacts DEF Invoke
  <2> QED
    BY <2>1, <2>2
<1>2. CASE Fetch
  BY <1>2, ItemFacts DEF Fetch, Goto
<1>3. CASE Fetched
  BY <1>3, ItemFacts DEF Fetched, Goto
<1>4. CASE TestTransfer
  BY <1>4, ItemFacts DEF TestTransfer, RemotePathExists, Exists,
    AfterTransfer, Goto, Failure
<1>5. CASE Send
  BY <1>5, ItemFacts DEF Send, Goto, Sent, Started
<1>6. CASE SendEnds
  BY <1>6, ItemFacts DEF SendEnds, AfterTransfer, Goto, Sent, Landed
<1>7. CASE TestTrace
  <2>1. NextAsset \/ Moves("command", item)
    BY <1>7 DEF TestTrace, RemotePathExists, Goto, Moves
  <2>2. UNCHANGED <<phase, runName, job, invocations>>
    BY <1>7 DEF TestTrace
  <2>3. step = "testTrace"
    BY <1>7 DEF TestTrace
  <2>4. CASE NextAsset
    <3>1. Idles \/ (step' = "fetch" /\ item' \in StageItems)
      BY <1>7, <2>4, NextAssetFacts
    <3> QED
      BY <1>7, <2>2, <2>3, <3>1 DEF Idles
  <2>5. CASE Moves("command", item)
    BY <1>7, <2>2, <2>3, <2>5, ItemFacts DEF Moves
  <2> QED
    BY <2>1, <2>4, <2>5
<1>8. CASE Prerequisites
  BY <1>8, ItemFacts DEF Prerequisites, Goto, Leave
<1>9. CASE TestVenv
  <2>1. Moves("verify", Venv) \/ Moves("command", Venv) \/ Moves("fetch", Venv)
    BY <1>9 DEF TestVenv, RemotePathExists, Goto, Moves
  <2>2. UNCHANGED <<phase, runName, job, invocations>>
    BY <1>9 DEF TestVenv
  <2>3. step = "testVenv"
    BY <1>9 DEF TestVenv
  <2> QED
    BY <1>9, <2>1, <2>2, <2>3, ItemFacts DEF Moves
<1>10. CASE Verify
  BY <1>10, ItemFacts DEF Verify, Prepared, Goto, Leave
<1>11. CASE CheckHere
  <2>1. Moves("checkThere", Venv) \/ Moves("test", Venv) \/ Idles
    BY <1>11 DEF CheckHere, Goto, Leave, Moves, Idles
  <2>2. UNCHANGED <<phase, runName, job, invocations>>
    BY <1>11 DEF CheckHere
  <2>3. step = "checkHere"
    BY <1>11 DEF CheckHere
  <2> QED
    BY <1>11, <2>1, <2>2, <2>3, ItemFacts DEF Moves, Idles
<1>12. CASE CheckThere
  BY <1>12, ItemFacts DEF CheckThere, Prepared, Goto, Leave
<1>13. CASE Command
  BY <1>13, ItemFacts DEF Command, Starts, Goto
<1>14. CASE CommandReturns
  <2>1. AfterCommand \/ Idles
    BY <1>14 DEF CommandReturns, Leave, Idles
  <2>2. UNCHANGED <<phase, runName, job, invocations>>
    BY <1>14 DEF CommandReturns
  <2>3. step = "wait" /\ item[1] # "output"
    BY <1>14 DEF CommandReturns
  <2>4. CASE NextAsset /\ item[1] = "trace"
    <3>1. Idles \/ (step' = "fetch" /\ item' \in StageItems)
      BY <1>14, <2>4, NextAssetFacts
    <3> QED
      BY <1>14, <2>2, <2>3, <3>1 DEF Idles
  <2>5. CASE Moves("verify", Venv) /\ item = Venv
    BY <1>14, <2>2, <2>3, <2>5, ItemFacts DEF Moves
  <2>6. CASE Prepared /\ item = Venv
    BY <1>14, <2>2, <2>3, <2>6, ItemFacts DEF Prepared, Goto, Leave
  <2>7. CASE Idles
    BY <1>14, <2>2, <2>3, <2>7, ItemFacts DEF Idles
  <2>8. item[1] = "trace" \/ item = Venv
    BY <1>14, <2>3, ItemFacts
  <2> QED
    BY <2>1, <2>4, <2>5, <2>6, <2>7, <2>8, ItemFacts DEF AfterCommand, Goto, Moves
<1>15. CASE TestOut
  BY <1>15, ItemFacts DEF TestOut, RemotePathExists, Exists, Goto, Leave,
    Failure
<1>16. CASE ReplayReturns
  BY <1>16, ItemFacts DEF ReplayReturns, Goto, Failure, Running
<1>17. CASE Retrieve
  BY <1>17, ItemFacts DEF Retrieve, RemotePathExists, Exists, Goto, Failure,
    Running
<1>18. CASE Retrieved
  BY <1>18, ItemFacts DEF Retrieved, Goto, Failure
<1>19. CASE WriteCode
  BY <1>19, ItemFacts DEF WriteCode, Leave
<1>20. CASE Dies
  BY <1>20, ItemFacts DEF Dies, Leave, Failure
<1>21. CASE Killed
  BY <1>21, ItemFacts DEF Killed, Leave, Failure
<1>22. ASSUME NEW k \in Invocations, Extracts(k) PROVE ItemInv'
  BY <1>22, ItemFacts, EndsFacts DEF Extracts, Running
<1>23. ASSUME NEW k \in Invocations, MakesVenv(k) PROVE ItemInv'
  BY <1>23, ItemFacts, EndsFacts DEF MakesVenv, Running
<1>24. ASSUME NEW k \in Invocations, Replays(k) PROVE ItemInv'
  BY <1>24, ItemFacts, EndsFacts DEF Replays, Running
<1>25. ASSUME NEW k \in Invocations, CommandFails(k) PROVE ItemInv'
  BY <1>25, ItemFacts, EndsFacts DEF CommandFails, Running, Failure
<1>26. ASSUME NEW k \in Invocations, Reworks(k) PROVE ItemInv'
  BY <1>26 DEF Reworks
<1>27. CASE UNCHANGED vars
  BY <1>27 DEF vars
<1> HIDE DEF TypeOK, ItemInv
<1> QED
  BY <1>1, <1>2, <1>3, <1>4, <1>5, <1>6, <1>7, <1>8, <1>9, <1>10, <1>11,
    <1>12, <1>13, <1>14, <1>15, <1>16, <1>17, <1>18, <1>19, <1>20, <1>21,
    <1>22, <1>23, <1>24, <1>25, <1>26, <1>27
    DEF Next, Script, ReplayNode

(* What is there is changed by the transfers and the remote commands only. *)
LEMMA ThereFacts ==
  ASSUME Invoke \/ Script \/ Dies \/ Killed, ~Send, ~SendEnds, ~Command
  PROVE  UNCHANGED there
BY DEF Invoke, Script, Dies, Killed, Fetch, Fetched, TestTransfer, TestTrace,
  Prerequisites, TestVenv, Verify, CheckHere, CheckThere, CommandReturns,
  TestOut, ReplayReturns, Retrieve, Retrieved, WriteCode

WholeStays ==
  \A x \in Items \ {Venv} : there[x] \in {"complete", "ready"} => there'[x] = there[x]

(* No step makes a venv simply complete or anything else ready; with rsync *)
(* none changes what is whole, of all but the venv.                        *)
LEMMA KindStep ==
  ASSUME TypeOK, KindInv, [Next]_vars
  PROVE  KindInv' /\ (Method = "rsync" => WholeStays)
<1> USE ItemFacts DEF TypeOK, KindInv, WholeStays
<1>1. CASE Send
  BY <1>1 DEF Send, Sent, Started, Merged
<1>2. CASE SendEnds
  BY <1>2 DEF SendEnds, Sent, Landed, Merged
<1>3. CASE Command
  BY <1>3 DEF Command
<1>4. ASSUME NEW k \in Invocations, Extracts(k) PROVE KindInv' /\ WholeStays
  <2>1. \/ UNCHANGED there
        \/ there' = [there EXCEPT ![job[k].item] = "complete"] /\ job[k].item[1] = "trace"
    BY <1>4 DEF Extracts
  <2>2. job[k].item[1] = "trace" => job[k].item # Venv
    OBVIOUS
  <2> QED
    BY <2>1, <2>2
<1>5. ASSUME NEW k \in Invocations, MakesVenv(k) PROVE KindInv' /\ WholeStays
  <2>1. UNCHANGED there \/ there' = [there EXCEPT ![Venv] = "ready"]
    BY <1>5 DEF MakesVenv
  <2> QED
    BY <2>1
<1>6. ASSUME NEW k \in Invocations, Reworks(k) PROVE KindInv' /\ WholeStays
  BY <1>6 DEF Reworks
<1>7. CASE UNCHANGED there
  BY <1>7
<1>8. ASSUME NEW k \in Invocations, Replays(k) \/ CommandFails(k) PROVE UNCHANGED there
  BY <1>8 DEF Replays, CommandFails
<1> HIDE ItemFacts DEF TypeOK, KindInv, WholeStays
<1> QED
  BY <1>1, <1>2, <1>3, <1>4, <1>5, <1>6, <1>7, <1>8, ThereFacts DEF Next, ReplayNode, vars

-----------------------------------------------------------------------------
(* The theorems.                                                           *)

(* Every state has its types, the script works at each step on an item of  *)
(* the right kind, and the venv of the replay node is never simply         *)
(* complete.                                                               *)
THEOREM StagedInvariant == Spec => []IInv
<1>1. Init => IInv
  BY TypeInit, ItemFacts DEF Init, IInv, ItemInv, KindInv
<1>2. IInv /\ [Next]_vars => IInv'
  BY TypeStep, ItemStep, KindStep DEF IInv
<1> QED
  BY <1>1, <1>2, PTL DEF Spec

(* TypeOK, for any number of assets, run names, calls and failures.        *)
THEOREM StagedTypeCorrect == Spec => []TypeOK
<1>1. IInv => TypeOK
  BY DEF IInv
<1> QED
  BY <1>1, StagedInvariant, PTL

-----------------------------------------------------------------------------
(* What a call has done.                                                   *)

(* A call has no exit status until it ends; an archive is only staged by   *)
(* prepare-trace and all, and a replay alone stages nothing; a venv that   *)
(* is only looked at was there before; the command the script waits for is *)
(* its own.                                                                *)
CallInv ==
  /\ IF step = "idle" THEN item = NoItem ELSE exit = "none"
  /\ exit # "none" => invocations \in Invocations
  /\ item \in Items \ {Repo, Venv} => phase \in {"prepare-trace", "all"}
  /\ item \in {Repo, Venv} => phase # "replay"
  /\ item = Out(runName) => phase \in {"replay", "all"}
  /\ step \in {"prereq", "testVenv", "verify", "checkHere", "checkThere"} =>
       item \in {Repo, Venv}
  /\ step = "checkThere" => preexisting
  /\ step = "wait" => job[invocations].item = item

(* What is there, or has to be: a venv for each command that works on one, *)
(* the repository the venv is in, and what is sent.                        *)
PresentInv ==
  /\ \A k \in Invocations : job[k].item = Venv => there[Venv] # "absent"
  /\ there[Repo] = "absent" => there[Venv] = "absent"
  /\ step \in {"testVenv", "checkHere"} => item = Venv
  /\ \/ step = "prereq" /\ phase # "check-prerequisites"
     \/ item = Venv
     \/ step = "sending" /\ item = Repo
     => there[Repo] # "absent"
  /\ step \in {"fetching", "checkHere", "test", "send", "sending"} /\ item \in {Repo, Venv} =>
       here[item] # "absent"

(* As long as no test of the repository or the venv failed, one command at *)
(* most works on a venv, which is not ready before it ends, and a venv is  *)
(* only sent and made where there is none.                                 *)
SoleVenv ==
  \A k \in Invocations : Running(k) /\ job[k].item = Venv =>
    /\ there[Venv] # "ready"
    /\ \A j \in Invocations : Running(j) /\ job[j].item = Venv => j = k

NewVenv ==
  /\ \/ step \in {"send", "sending"} /\ item \in {Repo, Venv}
     \/ step = "command" /\ item = Venv
     => there[Venv] # "ready" /\ \A k \in Invocations : job[k].item # Venv
  /\ \/ step \in {"fetch", "fetching", "checkHere"} /\ item = Venv /\ ~preexisting
     \/ step \in {"test", "send"} /\ item = Venv
     => there[Venv] = "absent"

VenvInv == ~Doubted => SoleVenv /\ NewVenv

(* A call's own work on a venv is over when it goes on, and only earlier   *)
(* calls have commands besides.                                            *)
OwnInv ==
  /\ \A k \in Invocations : k > invocations => job[k].item = NoItem
  /\ invocations \in Invocations /\ Running(invocations) /\ job[invocations].item = Venv =>
       (step = "wait" /\ item = Venv) \/ exit = "nonzero"

(* The runtime, from the end of the command that made it to the end of the *)
(* call.                                                                   *)
RuntimeInv ==
  /\ step = "wait" /\ item = Venv /\ job[invocations].state = "zero" =>
       there[Venv] = "ready" \/ Disturbed
  /\ RuntimeIsVerified

(* The output of a replay, from its command to the end of the call.        *)
OwnZero ==
  job[invocations].item = Out(runName) /\ job[invocations].state = "zero"

ResultInv ==
  /\ \A k \in Invocations : \A r \in RunNames :
       job[k].item = Out(r) /\ job[k].state = "zero" => k \in wrote[r]
  /\ step \in {"testResult", "retrieving", "code"} /\ status = "zero" => OwnZero
  /\ step = "retrieving" /\ status = "zero" => invocations \in back[runName]
  /\ step = "code" /\ status = "zero" =>
       invocations \in back[runName] \/ <<invocations, Out(runName)>> \in missed
  /\ ZeroIsReplayed

(* A replay is only started under a run name without a result directory.   *)
NewInv ==
  /\ step \in {"command", "wait", "testResult"} /\ item = Out(runName) =>
       code[runName] = "none"
  /\ step \in {"retrieving", "code"} => code[runName] \in {"none", "dir"}

(* The preparation of traces and of the runtime, and what it leaves alone. *)
Staging == Fetch \/ Fetched \/ TestTransfer \/ Send \/ SendEnds \/ TestTrace
             \/ Prerequisites \/ TestVenv \/ Verify \/ CheckHere \/ CheckThere
             \/ CommandReturns

(* It changes neither the arguments of the call nor commands and results.  *)
LEMMA StagingFacts ==
  ASSUME Staging
  PROVE  UNCHANGED <<phase, runName, status, job, wrote, back, code, invocations>>
BY DEF Staging, Fetch, Fetched, TestTransfer, Send, SendEnds, TestTrace,
  Prerequisites, TestVenv, Verify, CheckHere, CheckThere, CommandReturns,
  Arguments, Remote, Counters, results

StagingSteps == {"fetch", "fetching", "test", "send", "sending", "testTrace", "prereq",
                 "testVenv", "verify", "checkHere", "checkThere", "command"}

(* Staging goes on with x at step s.                                       *)
StagesOn ==
  /\ exit' = exit /\ step' \in StagingSteps /\ item' \in Items
  /\ item' \notin {Repo, Venv} => item \in Items \ {Repo, Venv}
  /\ item' \in {Repo, Venv} => item \in {Repo, Venv} \/ phase = "all"
  /\ step' \in {"prereq", "testVenv", "verify", "checkHere", "checkThere"} =>
       item' \in {Repo, Venv}
  /\ step' = "checkThere" => preexisting'

(* The runtime is prepared: it is verified, or it was found there.         *)
RuntimeDone ==
  /\ phase # "replay" /\ Prepared
  /\ UNCHANGED <<there, preexisting>>
  /\ preexisting \/ there[Venv] = "ready" \/ Disturbed

StagingEnds ==
  /\ Idles
  /\ \/ exit' = "nonzero"
     \/ exit' = "zero" /\ phase \in {"prepare-trace", "check-prerequisites"}

(* After the trace of an asset the call goes on with the next asset, with  *)
(* the runtime, or ends.                                                   *)
LEMMA NextAssetMoves ==
  ASSUME TypeOK, CallInv, NextAsset, item \in Traces
  PROVE  StagesOn \/ StagingEnds
<1> USE ItemFacts
<1>1. phase \in {"prepare-trace", "all"} /\ item \in Items \ {Repo, Venv}
  BY DEF CallInv
<1>2. CASE todo # {}
  <2>1. PICK a \in todo : Goto("fetch", Archive(a))
    BY <1>2 DEF NextAsset
  <2>2. Archive(a) \in Items /\ Archive(a) \notin {Repo, Venv}
    BY DEF TypeOK, Archive, Items, Repo, Venv
  <2> QED
    BY <1>1, <2>1, <2>2 DEF Goto, StagesOn, StagingSteps
<1>3. CASE todo = {} /\ phase = "all"
  <2>1. Goto("fetch", Repo)
    BY <1>3, Zenon DEF NextAsset
  <2> QED
    BY <1>1, <1>3, <2>1 DEF Goto, StagesOn, StagingSteps
<1>4. CASE todo = {} /\ phase # "all"
  <2>1. Leave("zero")
    BY <1>4, Zenon DEF NextAsset
  <2> QED
    BY <1>1, <1>4, <2>1 DEF Leave, StagingEnds, Idles
<1> QED
  BY <1>1, <1>2, <1>3, <1>4

(* Once something was transferred.                                         *)
LEMMA AfterTransferMoves ==
  ASSUME AfterTransfer, item \in StageItems
  PROVE  StagesOn
<1> USE ItemFacts
<1>1. CASE item = Repo
  BY <1>1 DEF AfterTransfer, Goto, StagesOn, StagingSteps
<1>2. CASE item = Venv
  BY <1>2 DEF AfterTransfer, Goto, StagesOn, StagingSteps
<1>3. CASE item \notin {Repo, Venv}
  <2>1. Trace(item[2]) \in Traces
    BY <1>3
  <2> QED
    BY <1>3, <2>1 DEF AfterTransfer, Goto, StagesOn, StagingSteps
<1> QED
  BY <1>1, <1>2, <1>3

(* Where the preparation of a trace or of the runtime can go.              *)
LEMMA StagingMoves ==
  ASSUME TypeOK, ItemInv, CallInv, RuntimeInv, Staging
  PROVE  StagesOn \/ StagingEnds \/ RuntimeDone
<1> USE ItemFacts DEF ItemInv
<1>1. CASE Fetch
  BY <1>1 DEF Fetch, Goto, StagesOn, StagingSteps
<1>2. CASE Fetched
  BY <1>2 DEF Fetched, Goto, StagesOn, StagingSteps
<1>3. CASE TestTransfer
  <2>1. AfterTransfer \/ Goto("send", item)
    BY <1>3 DEF TestTransfer, RemotePathExists
  <2>2. item \in StageItems
    BY <1>3 DEF TestTransfer
  <2> QED
    BY <2>1, <2>2, AfterTransferMoves DEF Goto, StagesOn, StagingSteps
<1>4. CASE Send
  BY <1>4 DEF Send, Goto, StagesOn, StagingSteps
<1>5. CASE SendEnds
  BY <1>5, AfterTransferMoves DEF SendEnds
<1>6. CASE TestTrace
  <2>1. NextAsset \/ Goto("command", item)
    BY <1>6 DEF TestTrace, RemotePathExists
  <2>2. item \in Traces
    BY <1>6 DEF TestTrace
  <2> QED
    BY <2>1, <2>2, NextAssetMoves DEF Goto, StagesOn, StagingSteps
<1>7. CASE Prerequisites
  BY <1>7 DEF Prerequisites, CallInv, Goto, Leave, StagesOn, StagingSteps, StagingEnds,
    Idles
<1>8. CASE TestVenv
  <2>1. Goto("verify", Venv) \/ Goto("command", Venv) \/ Goto("fetch", Venv)
    BY <1>8 DEF TestVenv, RemotePathExists
  <2>2. item \in {Repo, Venv}
    BY <1>8 DEF TestVenv, CallInv
  <2> QED
    BY <2>1, <2>2 DEF Goto, StagesOn, StagingSteps
<1>9. CASE Verify
  <2>1. phase # "replay"
    BY <1>9 DEF Verify, CallInv
  <2> QED
    BY <1>9, <2>1 DEF Verify, Leave, RuntimeDone, StagingEnds, Idles
<1>10. CASE CheckHere
  <2>1. item \in {Repo, Venv} /\ UNCHANGED preexisting
    BY <1>10 DEF CheckHere, CallInv
  <2>2. \/ Goto(IF preexisting THEN "checkThere" ELSE "test", Venv)
        \/ Leave("nonzero")
    BY <1>10 DEF CheckHere
  <2> QED
    BY <2>1, <2>2 DEF Goto, Leave, StagesOn, StagingSteps, StagingEnds, Idles
<1>11. CASE CheckThere
  <2>1. phase # "replay" /\ preexisting
    BY <1>11 DEF CheckThere, CallInv
  <2> QED
    BY <1>11, <2>1 DEF CheckThere, Leave, RuntimeDone, StagingEnds, Idles
<1>12. CASE CommandReturns
  <2>1. step = "wait" /\ item \in Traces \cup {Venv} /\ UNCHANGED <<there, preexisting>>
    BY <1>12 DEF CommandReturns, TypeOK
  <2>2. CASE job[invocations].state # "zero"
    <3>1. Leave("nonzero")
      BY <1>12, <2>2, Zenon DEF CommandReturns
    <3> QED
      BY <3>1 DEF Leave, StagingEnds, Idles
  <2>3. CASE job[invocations].state = "zero"
    <3>1. AfterCommand
      BY <1>12, <2>3, Zenon DEF CommandReturns
    <3>2. CASE item \in Traces
      BY <3>1, <3>2, NextAssetMoves DEF AfterCommand
    <3>3. CASE item = Venv
      <4>1. phase # "replay" /\ (there[Venv] = "ready" \/ Disturbed)
        BY <2>1, <2>3, <3>3 DEF CallInv, RuntimeInv
      <4>2. CASE mode = "remote_install"
        BY <3>1, <3>3, <4>2 DEF AfterCommand, Goto, StagesOn, StagingSteps
      <4>3. CASE mode # "remote_install"
        BY <2>1, <3>1, <3>3, <4>1, <4>3 DEF AfterCommand, RuntimeDone
      <4> QED
        BY <4>2, <4>3
    <3> QED
      BY <2>1, <3>2, <3>3
  <2> QED
    BY <2>2, <2>3
<1> QED
  BY <1>1, <1>2, <1>3, <1>4, <1>5, <1>6, <1>7, <1>8, <1>9, <1>10, <1>11, <1>12
    DEF Staging

(* The replay of a call, and its ends.                                     *)
LEMMA ReplayMoves ==
  ASSUME TypeOK, ItemInv, Command \/ TestOut \/ ReplayReturns \/ Retrieve \/ Retrieved
  PROVE  \/ Moves(step', item) /\ step' \in Steps \ {"idle"} /\ exit' = exit
            /\ (step' = "wait" => job'[invocations].item = item)
            /\ step' \notin {"prereq", "testVenv", "verify", "checkHere", "checkThere"}
         \/ Idles /\ exit' = "nonzero"
<1> USE ItemFacts DEF TypeOK, ItemInv, Steps, Moves, Idles, Goto, Leave
<1>1. CASE Command
  BY <1>1 DEF Command, Starts, Jobs
<1>2. CASE TestOut
  BY <1>2 DEF TestOut, RemotePathExists
<1>3. CASE ReplayReturns
  BY <1>3 DEF ReplayReturns
<1>4. CASE Retrieve
  BY <1>4 DEF Retrieve, RemotePathExists
<1>5. CASE Retrieved
  BY <1>5 DEF Retrieved
<1> QED
  BY <1>1, <1>2, <1>3, <1>4, <1>5

(* What they leave alone.                                                  *)
LEMMA ReplayFacts ==
  ASSUME Command \/ TestOut \/ ReplayReturns \/ Retrieve \/ Retrieved \/ WriteCode
           \/ Dies \/ Killed
  PROVE  /\ UNCHANGED <<phase, runName, preexisting, wrote, invocations>>
         /\ TestOut \/ ReplayReturns \/ Retrieve \/ Retrieved \/ WriteCode \/ Dies \/ Killed
              => UNCHANGED <<job, there>>
BY DEF Command, TestOut, ReplayReturns, Retrieve, Retrieved, WriteCode, Dies, Killed,
  Arguments, Remote, Counters, results

(* What a command at the replay node leaves alone; an ended one is over.   *)
LEMMA NodeFacts ==
  ASSUME TypeOK, ReplayNode
  PROVE  /\ UNCHANGED <<script, invocations, back, code, missed>>
         /\ \A k \in Invocations : /\ job'[k].item = job[k].item
                                   /\ job[k].state # "running" => job'[k] = job[k]
         /\ \A r \in RunNames : wrote[r] \subseteq wrote'[r]
<1>1. PICK k \in Invocations : Extracts(k) \/ MakesVenv(k) \/ Reworks(k) \/ Replays(k) \/ CommandFails(k)
  BY DEF ReplayNode
<1>2. UNCHANGED <<script, invocations, back, code, missed>>
  BY <1>1 DEF Extracts, MakesVenv, Reworks, Replays, CommandFails, results, Counters
<1>3. UNCHANGED job \/ (Running(k) /\ \E s : Ends(k, s))
  BY <1>1 DEF Extracts, MakesVenv, Reworks, Replays, CommandFails
<1>4. \A j \in Invocations : /\ job'[j].item = job[j].item
                             /\ job[j].state # "running" => job'[j] = job[j]
  BY <1>3, EndsFacts DEF Running
<1>5. \A r \in RunNames : wrote[r] \subseteq wrote'[r]
  BY <1>1 DEF Extracts, MakesVenv, Reworks, Replays, CommandFails, results, TypeOK
<1> QED
  BY <1>2, <1>4, <1>5

(* The arguments of a call, and whether it was there before, decide what   *)
(* it works on.                                                            *)
LEMMA CallStep ==
  ASSUME TypeOK, ItemInv, CallInv, RuntimeInv, [Next]_vars
  PROVE  CallInv'
<1> USE ItemFacts DEF CallInv
<1>0. Out(runName) \notin Items \cup {NoItem} /\ Out(runName') \notin Items \cup {NoItem}
  BY TypeStep DEF TypeOK
<1>1. CASE Invoke
  <2>1. invocations' \in Invocations /\ exit' = "none" /\ step' # "wait"
    BY <1>1, StagedAssumption DEF Invoke, Invocations, TypeOK
  <2>2. CASE phase' \in {"prepare-trace", "all"} /\ step' = "fetch"
    <3>1. item' \in Items \ {Repo, Venv}
      BY <1>1, <2>2 DEF Invoke, Items, Archive, Repo, Venv
    <3> QED
      BY <1>0, <2>1, <2>2, <3>1
  <2>3. CASE phase' \in {"check-prerequisites", "prepare-replay"} /\ item' = Repo
             /\ step' \in {"prereq", "fetch"}
    BY <1>0, <2>1, <2>3
  <2>4. CASE phase' = "replay" /\ step' = "testOut" /\ item' = Out(runName')
    BY <1>1, <2>1, <2>4 DEF Invoke
  <2> QED
    BY <1>1, <2>2, <2>3, <2>4 DEF Invoke
<1>2. CASE Staging
  <2>1. UNCHANGED <<phase, runName, job, invocations>>
    BY <1>2, StagingFacts
  <2>2. step # "idle" /\ exit = "none" /\ invocations \in Invocations
    BY <1>2 DEF Staging, Fetch, Fetched, TestTransfer, Send, SendEnds, TestTrace,
      Prerequisites, TestVenv, Verify, CheckHere, CheckThere, CommandReturns, ItemInv
  <2>3. CASE StagesOn
    BY <1>0, <2>1, <2>2, <2>3 DEF StagesOn, StagingSteps
  <2>4. CASE StagingEnds
    BY <1>0, <2>1, <2>2, <2>4 DEF StagingEnds, Idles
  <2>5. CASE RuntimeDone
    <3>1. Idles \/ (Moves("testOut", Out(runName)) /\ exit' = exit /\ phase = "all")
      BY <2>5 DEF RuntimeDone, Prepared, Goto, Leave, Moves, Idles
    <3>2. Out(runName) \in Outs /\ NoItem \notin Items
      BY DEF TypeOK
    <3> QED
      BY <1>0, <2>1, <2>2, <3>1, <3>2 DEF Moves, Idles
  <2> QED
    BY <1>2, <2>3, <2>4, <2>5, StagingMoves
<1>3. CASE Command \/ TestOut \/ ReplayReturns \/ Retrieve \/ Retrieved
  <2>1. UNCHANGED <<phase, runName, preexisting, invocations>>
    BY <1>3, ReplayFacts
  <2>2. step # "idle" /\ exit = "none" /\ invocations \in Invocations
    BY <1>3 DEF Command, TestOut, ReplayReturns, Retrieve, Retrieved, ItemInv
  <2>3. step' # "checkThere"
    BY <1>3, ReplayMoves DEF Idles
  <2> QED
    BY <1>0, <1>3, <2>1, <2>2, <2>3, ReplayMoves DEF Moves, Idles
<1>4. CASE WriteCode \/ Dies \/ Killed
  <2>1. Idles /\ step # "idle" /\ UNCHANGED <<phase, invocations>>
    BY <1>4 DEF WriteCode, Dies, Killed, Leave, Idles, Arguments, Counters
  <2> QED
    BY <1>0, <2>1 DEF Idles, ItemInv
<1>5. CASE ReplayNode
  <2>1. UNCHANGED <<step, item, phase, runName, preexisting, exit, invocations>>
    BY <1>5, NodeFacts DEF script
  <2>2. step = "wait" => job'[invocations].item = job[invocations].item
    BY <1>5, NodeFacts DEF ItemInv
  <2> QED
    BY <1>0, <2>1, <2>2
<1>6. CASE UNCHANGED vars
  BY <1>6 DEF vars, script
<1> HIDE DEF CallInv
<1> QED
  BY <1>1, <1>2, <1>3, <1>4, <1>5, <1>6 DEF Next, Script, Staging

(* The steps that neither send nor make anything, and what they may go on  *)
(* with.                                                                   *)
Aside == TestTrace \/ Verify \/ CheckThere \/ CommandReturns \/ TestOut \/ ReplayReturns
           \/ Retrieve \/ Retrieved \/ WriteCode \/ Dies \/ Killed

LEMMA AsideFacts ==
  ASSUME TypeOK, ItemInv, Aside
  PROVE  /\ UNCHANGED <<there, job, invocations, preexisting>>
         /\ step' \notin {"fetching", "test", "send", "sending", "prereq", "testVenv", "checkHere"}
         /\ step' = "fetch" => item' # Venv
         /\ item' = Venv => item = Venv /\ step = "wait" /\ step' = "verify"
<1> USE ItemFacts DEF ItemInv
<1>0. UNCHANGED <<there, job, invocations, preexisting>>
  BY DEF Aside, TestTrace, Verify, CheckThere, CommandReturns, TestOut, ReplayReturns,
    Retrieve, Retrieved, WriteCode, Dies, Killed, Arguments, Remote, Counters, results
<1>1. Out(runName) \notin Items \cup {NoItem}
  BY DEF TypeOK
<1>2. CASE TestTrace
  <2>1. NextAsset \/ (Moves("command", item) /\ item \in Traces)
    BY <1>2 DEF TestTrace, RemotePathExists, Goto, Moves
  <2> QED
    BY <1>0, <2>1, NextAssetFacts DEF Moves, Idles
<1>3. CASE CommandReturns
  <2>1. step = "wait" /\ item \in Traces \cup {Venv} /\ (AfterCommand \/ Idles)
    BY <1>3 DEF CommandReturns, Leave, Idles, TypeOK
  <2>2. CASE Idles
    BY <1>0, <2>2 DEF Idles
  <2>3. CASE AfterCommand /\ item \in Traces
    BY <1>0, <2>3, NextAssetFacts DEF AfterCommand, Idles
  <2>4. CASE AfterCommand /\ item = Venv
    BY <1>0, <1>1, <2>1, <2>4 DEF AfterCommand, Prepared, Goto, Leave
  <2> QED
    BY <2>1, <2>2, <2>3, <2>4
<1>4. CASE Verify \/ CheckThere
  BY <1>0, <1>1, <1>4 DEF Verify, CheckThere, Prepared, Goto, Leave
<1>5. CASE TestOut \/ Retrieve
  BY <1>0, <1>1, <1>5 DEF TestOut, Retrieve, RemotePathExists, Goto, Leave
<1>6. CASE ReplayReturns \/ Retrieved
  BY <1>0, <1>1, <1>6 DEF ReplayReturns, Retrieved, Goto
<1>7. CASE WriteCode \/ Dies \/ Killed
  BY <1>0, <1>7 DEF WriteCode, Dies, Killed, Leave
<1> QED
  BY <1>2, <1>3, <1>4, <1>5, <1>6, <1>7 DEF Aside

(* What is there stays there, and a command that works on a venv has one.  *)
LEMMA PresentStep ==
  ASSUME TypeOK, ItemInv, CallInv, PresentInv, [Next]_vars
  PROVE  PresentInv'
<1> USE ItemFacts DEF PresentInv, TypeOK
<1>1. CASE Invoke
  <2>1. item' \notin {Repo, Venv} \/ (item' = Repo /\ step' \in {"prereq", "fetch"})
    BY <1>1 DEF Invoke, Archive, Repo, Venv
  <2>2. step' = "prereq" => phase' = "check-prerequisites"
    BY <1>1 DEF Invoke
  <2>3. UNCHANGED <<here, there, job>> /\ step' \in {"fetch", "prereq", "testOut"}
    BY <1>1 DEF Invoke
  <2> QED
    BY <2>1, <2>2, <2>3
<1>2. CASE Fetch
  BY <1>2 DEF Fetch, Goto, Remote, Arguments
<1>3. CASE Fetched
  BY <1>3 DEF Fetched, Goto, Remote, Arguments
<1>4. CASE TestTransfer
  BY <1>4 DEF TestTransfer, RemotePathExists, Exists, AfterTransfer, Goto, Remote, Arguments,
    ItemInv
<1>5. CASE Send
  BY <1>5 DEF Send, Goto, Sent, Started, Merged, Remote, Arguments
<1>6. CASE SendEnds
  <2>1. UNCHANGED <<here, job, phase>> /\ step = "sending" /\ item \in StageItems
    BY <1>6 DEF SendEnds, Remote, Arguments, ItemInv
  <2>2. \A x \in Sent : x \in Items /\ (x \in {Repo, Venv} => here[x] # "absent")
    BY <2>1 DEF Sent
  <2>3. \A x \in {Repo, Venv} : there[x] # "absent" => there'[x] # "absent"
    BY <1>6, <2>2 DEF SendEnds, Landed, Merged
  <2>4. /\ item \in {Repo, Venv} => there[Repo] # "absent"
        /\ item \notin {Repo, Venv} => UNCHANGED there[Venv] /\ UNCHANGED there[Repo]
    BY <1>6, <2>1 DEF SendEnds, Sent
  <2>5. \/ step' = "prereq" /\ item' = Repo /\ item = Repo
        \/ step' = "command" /\ item' = Venv /\ item = Venv
        \/ step' = "testTrace" /\ item' \notin {Repo, Venv} /\ item \notin {Repo, Venv}
    BY <1>6, <2>1 DEF SendEnds, AfterTransfer, Goto
  <2> QED
    BY <2>1, <2>3, <2>4, <2>5
<1>8. CASE Prerequisites
  BY <1>8 DEF Prerequisites, Goto, Leave, Remote, Arguments
<1>9. CASE TestVenv
  BY <1>9 DEF TestVenv, RemotePathExists, Goto, Remote, Arguments
<1>7. CASE Aside
  BY <1>7, AsideFacts
<1>10. CASE CheckHere
  BY <1>10 DEF CheckHere, Goto, Leave, Remote, Arguments
<1>11. CASE Command
  <2>1. UNCHANGED <<here, item, phase>> /\ step = "command" /\ step' = "wait"
    BY <1>11 DEF Command, Goto, Arguments
  <2>2. \A x \in Items : there[x] # "absent" => there'[x] = there[x]
    BY <1>11 DEF Command
  <2>3. item \in Items => there'[item] # "absent"
    BY <1>11 DEF Command
  <2>4. \A k \in Invocations : job'[k].item = job[k].item \/ job'[k].item = item
    BY <1>11 DEF Command, Starts
  <2>5. item # Repo
    BY <2>1 DEF ItemInv
  <2>6. there'[Repo] = there[Repo]
    BY <1>11, <2>5 DEF Command
  <2>7. item # Venv => there'[Venv] = there[Venv]
    BY <1>11 DEF Command
  <2>8. \A k \in Invocations : job'[k].item = Venv => there'[Venv] # "absent"
    BY <2>2, <2>3, <2>4
  <2>9. there'[Repo] = "absent" => there'[Venv] = "absent"
    BY <2>6, <2>7
  <2> QED
    BY <2>1, <2>6, <2>8, <2>9
<1>12. CASE ReplayNode
  <2>1. UNCHANGED <<step, item, phase, here>>
    BY <1>12 DEF ReplayNode, Extracts, MakesVenv, Reworks, Replays, CommandFails, script
  <2>2. \A k \in Invocations : job'[k].item = job[k].item
    BY <1>12, NodeFacts
  <2>3. UNCHANGED there[Repo] /\ (there[Venv] # "absent" => there'[Venv] # "absent")
    BY <1>12 DEF ReplayNode, Extracts, MakesVenv, Reworks, Replays, CommandFails
  <2>4. there[Venv] = "absent" => there'[Venv] = "absent"
    <3>1. ASSUME NEW k \in Invocations, there[Venv] = "absent", job[k].item = Venv PROVE FALSE
      BY <3>1
    <3> QED
      BY <1>12, <3>1 DEF ReplayNode, Extracts, MakesVenv, Reworks, Replays, CommandFails
  <2> QED
    BY <2>1, <2>2, <2>3, <2>4
<1>13. CASE UNCHANGED vars
  BY <1>13 DEF vars, script
<1> HIDE DEF PresentInv, TypeOK
<1> QED
  BY <1>1, <1>2, <1>3, <1>4, <1>5, <1>6, <1>7, <1>8, <1>9, <1>10, <1>11, <1>12, <1>13
    DEF Next, Script, Aside

(* Tests only add to what was taken for absent.                            *)
LEMMA MissedGrows ==
  ASSUME [Next]_vars
  PROVE  missed \subseteq missed' /\ (~Doubted' => ~Doubted)
<1>1. CASE TestTransfer \/ TestTrace \/ TestVenv \/ TestOut \/ Retrieve
  <2>1. \E x : missed' = missed \/ missed' = missed \cup {<<invocations, x>>}
    BY <1>1, Zenon DEF TestTransfer, TestTrace, TestVenv, TestOut, Retrieve, RemotePathExists
  <2> QED
    BY <2>1 DEF Doubted
<1>2. CASE ReplayNode
  BY <1>2 DEF ReplayNode, Extracts, MakesVenv, Reworks, Replays, CommandFails, Doubted
<1>3. CASE Invoke
  BY <1>3 DEF Invoke, Doubted
<1>4. CASE Dies \/ Killed
  BY <1>4 DEF Dies, Killed, Doubted
<1>5. CASE Fetch \/ Fetched \/ Send \/ SendEnds \/ Prerequisites \/ Verify \/ CheckHere
             \/ CheckThere \/ Command \/ CommandReturns
  BY <1>5 DEF Fetch, Fetched, Send, SendEnds, Prerequisites, Verify, CheckHere, CheckThere,
    Command, CommandReturns, Doubted
<1>6. CASE ReplayReturns \/ Retrieved \/ WriteCode \/ UNCHANGED vars
  BY <1>6 DEF ReplayReturns, Retrieved, WriteCode, vars, Doubted
<1> QED
  BY <1>1, <1>2, <1>3, <1>4, <1>5, <1>6 DEF Next, Script

(* Until a test has failed, no step takes a venv that works, and one that  *)
(* is sent or made is not there before.                                    *)
LEMMA VenvStep ==
  ASSUME TypeOK, ItemInv, CallInv, PresentInv, VenvInv, [Next]_vars
  PROVE  /\ VenvInv'
         /\ ~Doubted /\ there[Venv] = "ready" => there'[Venv] = "ready"
<1> USE ItemFacts DEF TypeOK
<1>0. ~Doubted' => ~Doubted
  BY MissedGrows
<1>1. CASE Invoke
  <2>1. item' # Venv /\ step' \in {"fetch", "prereq", "testOut"} /\ UNCHANGED <<there, job>>
    BY <1>1 DEF Invoke, Archive, Repo, Venv
  <2> QED
    BY <1>0, <2>1 DEF VenvInv, SoleVenv, NewVenv, Running
<1>2. CASE Fetch \/ Fetched
  <2>1. /\ UNCHANGED <<there, job, item, preexisting>>
        /\ step \in {"fetch", "fetching"} /\ step' \in {"fetching", "checkHere", "test"}
        /\ step' = "test" => item # Venv
    BY <1>2 DEF Fetch, Fetched, Goto, Remote
  <2> QED
    BY <1>0, <2>1 DEF VenvInv, SoleVenv, NewVenv, Running
<1>3. CASE TestTransfer
  <2>1. UNCHANGED <<there, job, preexisting>> /\ step = "test" /\ item \in StageItems
    BY <1>3 DEF TestTransfer, Remote, ItemInv
  <2>2. ASSUME ~Doubted', item \in {Repo, Venv}
        PROVE  \/ there[item] # "absent" /\ AfterTransfer
               \/ there[item] = "absent" /\ Goto("send", item)
    <3>1. item[1] # "output"
      BY <2>2
    <3> QED
      BY <1>3, <2>1, <2>2, <3>1 DEF TestTransfer, RemotePathExists, Exists, Doubted, ItemInv
  <2>3. ASSUME item \notin {Repo, Venv} PROVE item' \notin {Repo, Venv}
    BY <1>3, <2>1, <2>3 DEF TestTransfer, RemotePathExists, AfterTransfer, Goto
  <2>4. ASSUME ~Doubted', item = Repo PROVE VenvInv'
    BY <1>0, <2>1, <2>2, <2>4 DEF PresentInv, VenvInv, SoleVenv, NewVenv, Running,
      AfterTransfer, Goto
  <2>5. ASSUME ~Doubted', item = Venv PROVE VenvInv'
    <3>1. there[Venv] = "absent"
      BY <1>0, <2>1, <2>5 DEF VenvInv, NewVenv
    <3>2. step' = "send" /\ item' = Venv
      BY <2>2, <2>5, <3>1 DEF Goto
    <3> QED
      BY <1>0, <2>1, <2>5, <3>1, <3>2 DEF PresentInv, VenvInv, SoleVenv, NewVenv, Running
  <2>6. ASSUME ~Doubted', item \notin {Repo, Venv} PROVE VenvInv'
    BY <1>0, <2>1, <2>3, <2>6 DEF VenvInv, SoleVenv, NewVenv, Running
  <2>7. Doubted' => VenvInv'
    BY DEF VenvInv
  <2> QED
    BY <2>1, <2>4, <2>5, <2>6, <2>7
<1>4. CASE Send
  <2>1. UNCHANGED <<job, item, preexisting>> /\ step = "send" /\ step' = "sending"
    BY <1>4 DEF Send, Goto, Remote
  <2>2. there[Venv] # "ready" => there'[Venv] # "ready"
    BY <1>4 DEF Send, Started, Merged
  <2>3. item \notin {Repo, Venv} => UNCHANGED there[Venv]
    BY <1>4 DEF Send, Sent
  <2> QED
    BY <1>0, <2>1, <2>2, <2>3 DEF VenvInv, SoleVenv, NewVenv, Running
<1>5. CASE SendEnds
  <2>1. /\ UNCHANGED <<job, preexisting>> /\ step = "sending" /\ item \in StageItems
        /\ step' \in {"prereq", "command", "testTrace"}
        /\ item' = Venv => item = Venv
    BY <1>5 DEF SendEnds, AfterTransfer, Goto, Remote, ItemInv
  <2>2. there[Venv] # "ready" => there'[Venv] # "ready"
    BY <1>5 DEF SendEnds, Landed, Merged
  <2>3. item \notin {Repo, Venv} => UNCHANGED there[Venv]
    BY <1>5 DEF SendEnds, Sent
  <2> QED
    BY <1>0, <2>1, <2>2, <2>3 DEF VenvInv, SoleVenv, NewVenv, Running
<1>6. CASE Prerequisites
  <2>1. UNCHANGED <<there, job>> /\ step' \in {"idle", "testVenv"}
    BY <1>6 DEF Prerequisites, Goto, Leave, Remote
  <2> QED
    BY <1>0, <2>1 DEF VenvInv, SoleVenv, NewVenv, Running
<1>7. CASE TestVenv
  <2>1. UNCHANGED <<there, job>> /\ step = "testVenv" /\ item' = Venv
    BY <1>7 DEF TestVenv, RemotePathExists, Goto, Remote
  <2>2. ASSUME ~Doubted'
        PROVE  \/ step' = "verify"
               \/ step' = "command" /\ there[Venv] = "absent"
               \/ step' = "fetch" /\ (preexisting' \/ there[Venv] = "absent")
    <3>1. Venv[1] # "output"
      OBVIOUS
    <3> QED
      BY <1>7, <2>1, <2>2, <3>1 DEF TestVenv, RemotePathExists, Exists, Goto, Doubted, ItemInv
  <2> QED
    BY <1>0, <2>1, <2>2 DEF PresentInv, VenvInv, SoleVenv, NewVenv, Running
<1>8. CASE CheckHere
  <2>1. /\ UNCHANGED <<there, job, preexisting>> /\ step = "checkHere" /\ item = Venv
        /\ step' \in {"idle", "checkThere"} \/ (step' = "test" /\ ~preexisting)
    BY <1>8 DEF CheckHere, Goto, Leave, Remote, PresentInv
  <2> QED
    BY <1>0, <2>1 DEF VenvInv, SoleVenv, NewVenv, Running
<1>9. CASE Command
  <2>1. /\ step = "command" /\ step' = "wait" /\ item' = item /\ item # Repo
        /\ invocations \in Invocations
        /\ there'[Venv] = IF item = Venv /\ there[Venv] = "absent" THEN "partial" ELSE there[Venv]
    BY <1>9 DEF Command, Goto, ItemInv
  <2>2. /\ job'[invocations].item = item
        /\ \A k \in Invocations \ {invocations} : job'[k] = job[k]
    BY <1>9, <2>1 DEF Command, Starts
  <2> QED
    BY <1>0, <2>1, <2>2 DEF VenvInv, SoleVenv, NewVenv, Running
<1>10. CASE Aside
  BY <1>0, <1>10, AsideFacts DEF VenvInv, SoleVenv, NewVenv, Running
<1>11. CASE ReplayNode
  <2>1. UNCHANGED <<step, item, preexisting, missed>>
    BY <1>11, NodeFacts DEF script
  <2>2. PICK k \in Invocations :
          Extracts(k) \/ MakesVenv(k) \/ Reworks(k) \/ Replays(k) \/ CommandFails(k)
    BY <1>11 DEF ReplayNode
  <2>3. \A j \in Invocations : job'[j].item = job[j].item /\ (Running(j)' => Running(j))
    BY <1>11, NodeFacts DEF Running
  <2>4. CASE UNCHANGED there[Venv]
    BY <1>0, <2>1, <2>3, <2>4 DEF VenvInv, SoleVenv, NewVenv
  <2>5. CASE MakesVenv(k)
    <3>1. Running(k) /\ job[k].item = Venv /\ there'[Venv] \in {there[Venv], "ready"}
      BY <2>5 DEF MakesVenv
    <3>2. there'[Venv] # there[Venv] => there'[Venv] = "ready" /\ ~Running(k)'
      BY <2>5, EndsFacts DEF MakesVenv, Running
    <3> QED
      BY <1>0, <2>1, <2>3, <2>4, <3>1, <3>2 DEF VenvInv, SoleVenv, NewVenv, PresentInv
  <2>6. CASE Reworks(k)
    <3>1. Running(k) /\ job[k].item = Venv /\ there[Venv] = "ready"
      BY <2>6 DEF Reworks
    <3> QED
      BY <1>0, <3>1 DEF VenvInv, SoleVenv
  <2> QED
    BY <2>2, <2>4, <2>5, <2>6 DEF Extracts, Replays, CommandFails
<1>12. CASE UNCHANGED vars
  BY <1>12 DEF vars, script, VenvInv, SoleVenv, NewVenv, Doubted, Running
<1> HIDE DEF TypeOK
<1> QED
  BY <1>1, <1>2, <1>3, <1>4, <1>5, <1>6, <1>7, <1>8, <1>9, <1>10, <1>11, <1>12
    DEF Next, Script, Aside

(* The script waits for its own command on a venv, or has failed.          *)
LEMMA OwnStep ==
  ASSUME TypeOK, ItemInv, CallInv, OwnInv, [Next]_vars
  PROVE  OwnInv'
<1> USE ItemFacts DEF OwnInv
<1>1. CASE Invoke
  <2>1. UNCHANGED job /\ invocations' = invocations + 1 /\ invocations \in Nat
    BY <1>1 DEF Invoke, TypeOK
  <2>2. \A k \in Invocations : k > invocations' => k > invocations
    BY <2>1 DEF Invocations
  <2>3. invocations' \in Invocations => job[invocations'].item = NoItem
    BY <2>1
  <2> QED
    BY <2>1, <2>2, <2>3
<1>2. CASE Command
  <2>1. /\ step' = "wait" /\ item' = item /\ invocations \in Invocations
        /\ UNCHANGED invocations
    BY <1>2 DEF Command, Goto, ItemInv, Counters
  <2>2. /\ job'[invocations].item = item
        /\ \A k \in Invocations \ {invocations} : job'[k] = job[k]
    BY <1>2, <2>1 DEF Command, Starts, TypeOK
  <2>3. \A k \in Invocations : k > invocations => k # invocations
    BY <2>1 DEF Invocations
  <2> QED
    BY <2>1, <2>2, <2>3
<1>3. CASE Dies \/ Killed
  BY <1>3 DEF Dies, Killed, Leave, Remote, Running
<1>4. CASE Staging \/ TestOut \/ ReplayReturns \/ Retrieve \/ Retrieved \/ WriteCode
  <2>1. UNCHANGED <<job, invocations>> /\ step # "idle"
    BY <1>4, StagingFacts, ReplayFacts DEF Staging, Fetch, Fetched, TestTransfer, Send, SendEnds,
      TestTrace, Prerequisites, TestVenv, Verify, CheckHere, CheckThere, CommandReturns,
      TestOut, ReplayReturns, Retrieve, Retrieved, WriteCode
  <2>2. step = "wait" /\ item = Venv => ~Running(invocations)
    BY <1>4 DEF Staging, Fetch, Fetched, TestTransfer, Send, SendEnds,
      TestTrace, Prerequisites, TestVenv, Verify, CheckHere, CheckThere, CommandReturns,
      TestOut, ReplayReturns, Retrieve, Retrieved, WriteCode
  <2> QED
    BY <2>1, <2>2 DEF CallInv, Running
<1>5. CASE ReplayNode
  <2>1. UNCHANGED <<step, item, exit, invocations>>
    BY <1>5, NodeFacts DEF script
  <2>2. \A k \in Invocations : job'[k].item = job[k].item /\ (Running(k)' => Running(k))
    BY <1>5, NodeFacts DEF Running
  <2>3. invocations \in Invocations => (Running(invocations)' => Running(invocations))
    BY <2>1, <2>2 DEF Running
  <2> QED
    BY <2>1, <2>2, <2>3
<1>6. CASE UNCHANGED vars
  BY <1>6 DEF vars, script, Running
<1> HIDE DEF OwnInv
<1> QED
  BY <1>1, <1>2, <1>3, <1>4, <1>5, <1>6 DEF Next, Script, Staging

(* A call that an earlier command has disturbed stays so until it ends.    *)
LEMMA DisturbedStays ==
  ASSUME TypeOK, ItemInv, Disturbed, [Next]_vars, invocations' = invocations
  PROVE  Disturbed'
<1>1. Doubted'
  BY MissedGrows DEF Disturbed
<1>2. PICK k \in Invocations \ {invocations} :
        job[k].item = Venv /\ (Running(k) \/ job[k].ended = invocations)
  BY DEF Disturbed
<1>3. CASE ReplayNode
  <2>1. job'[k].item = Venv
    BY <1>2, <1>3, NodeFacts
  <2>2. Running(k)' \/ job'[k].ended = invocations
    <3>1. PICK j \in Invocations :
            Extracts(j) \/ MakesVenv(j) \/ Reworks(j) \/ Replays(j) \/ CommandFails(j)
      BY <1>3 DEF ReplayNode
    <3>2. UNCHANGED job \/ (Running(j) /\ \E e : Ends(j, e))
      BY <3>1 DEF Extracts, MakesVenv, Reworks, Replays, CommandFails
    <3> QED
      BY <1>2, <3>2, EndsFacts DEF Running
  <2> QED
    BY <1>1, <1>2, <2>1, <2>2 DEF Disturbed
<1>4. CASE Command
  <2>1. job'[k] = job[k]
    BY <1>2, <1>4 DEF Command, Starts, TypeOK
  <2> QED
    BY <1>1, <1>2, <2>1 DEF Disturbed, Running
<1>5. CASE UNCHANGED job
  BY <1>1, <1>2, <1>5 DEF Disturbed, Running
<1>6. Invoke => FALSE
  BY DEF Invoke, TypeOK
<1> QED
  BY <1>3, <1>4, <1>5, <1>6, StagingFacts, ReplayFacts DEF Next, Script, Staging, vars

(* A runtime that is there and verified stays so until the call ends,      *)
(* unless an earlier command still works on it.                            *)
LEMMA RuntimeStep ==
  ASSUME TypeOK, ItemInv, CallInv, VenvInv, OwnInv, RuntimeInv, [Next]_vars
  PROVE  RuntimeInv'
<1> USE ItemFacts DEF RuntimeInv, RuntimeIsVerified
<1>0. ASSUME invocations' = invocations, there[Venv] = "ready" => there'[Venv] = "ready",
             there[Venv] = "ready" \/ Disturbed
      PROVE  there'[Venv] = "ready" \/ Disturbed'
  BY <1>0, DisturbedStays
<1>1. CASE Invoke
  <2>1. exit' = "none" /\ step' # "wait"
    BY <1>1 DEF Invoke
  <2>2. phase' = "all" => item' \in Items
    BY <1>1 DEF Invoke, Items
  <2>3. Out(runName') \notin Items
    BY <1>1 DEF Invoke
  <2>4. phase' # "prepare-replay" \/ exit' # "zero"
    BY <2>1
  <2> QED
    BY <2>1, <2>2, <2>3
<1>2. CASE Staging
  <2>1. UNCHANGED <<phase, runName, invocations>> /\ Out(runName) \in Outs
    BY <1>2, StagingFacts DEF TypeOK
  <2>2. step # "idle" /\ exit = "none"
    BY <1>2 DEF Staging, Fetch, Fetched, TestTransfer, Send, SendEnds, TestTrace,
      Prerequisites, TestVenv, Verify, CheckHere, CheckThere, CommandReturns, CallInv
  <2>3. CASE StagesOn
    <3>1. step' # "wait" /\ item' \in Items /\ exit' = "none"
      BY <2>2, <2>3 DEF StagesOn, StagingSteps
    <3> QED
      BY <2>1, <3>1
  <2>4. CASE StagingEnds
    BY <2>1, <2>4 DEF StagingEnds, Idles
  <2>5. CASE RuntimeDone
    <3>1. preexisting' \/ there'[Venv] = "ready" \/ Disturbed'
      BY <1>0, <2>1, <2>5 DEF RuntimeDone
    <3>2. step' # "wait"
      BY <2>5 DEF RuntimeDone, Prepared, Goto, Leave
    <3> QED
      BY <3>1, <3>2
  <2> QED
    BY <1>2, <2>3, <2>4, <2>5, StagingMoves
<1>3. CASE Command
  <2>1. /\ UNCHANGED <<phase, runName, preexisting, invocations, item>>
        /\ exit = "none" /\ exit' = "none"
    BY <1>3, ReplayFacts DEF Command, Goto, CallInv
  <2>2. job'[invocations].state = "running"
    BY <1>3 DEF Command, Starts, ItemInv, TypeOK
  <2>3. item = Out(runName) => there' = there
    BY <1>3 DEF Command, TypeOK
  <2> QED
    BY <1>0, <2>1, <2>2, <2>3
<1>4. CASE TestOut \/ ReplayReturns \/ Retrieve \/ Retrieved
  <2>1. UNCHANGED <<phase, runName, preexisting, there, invocations>> /\ exit = "none"
    BY <1>4, ReplayFacts DEF TestOut, ReplayReturns, Retrieve, Retrieved, CallInv
  <2>2. step' # "wait"
    BY <1>4 DEF TestOut, ReplayReturns, Retrieve, Retrieved, RemotePathExists, Goto, Leave
  <2>3. Out(runName) \in Outs
    BY DEF TypeOK
  <2>4. item' = Out(runName) => item = Out(runName)
    BY <1>4, <2>3, ReplayMoves DEF Moves, Idles
  <2>5. exit' # "zero"
    BY <1>4, <2>1, ReplayMoves
  <2> QED
    BY <1>0, <2>1, <2>2, <2>4, <2>5
<1>5. CASE WriteCode \/ Dies \/ Killed
  <2>1. Idles /\ UNCHANGED <<phase, runName, preexisting, there, invocations>>
    BY <1>5, ReplayFacts DEF WriteCode, Dies, Killed, Leave, Idles
  <2>2. exit' = "zero" => item = Out(runName)
    BY <1>5 DEF WriteCode, Dies, Killed, Leave, ItemInv
  <2>3. exit' = "zero" => phase # "prepare-replay"
    BY <1>5 DEF WriteCode, Dies, Killed, Leave, ItemInv, CallInv
  <2>4. Out(runName) # NoItem
    BY DEF TypeOK
  <2> QED
    BY <1>0, <2>1, <2>2, <2>3, <2>4 DEF Idles
<1>6. CASE ReplayNode
  <2>1. UNCHANGED <<step, item, phase, runName, preexisting, exit, invocations>>
    BY <1>6, NodeFacts DEF script
  <2>2. PICK k \in Invocations :
          Extracts(k) \/ MakesVenv(k) \/ Reworks(k) \/ Replays(k) \/ CommandFails(k)
    BY <1>6 DEF ReplayNode
  <2>3. there[Venv] = "ready" /\ there'[Venv] # "ready" => Reworks(k)
    BY <2>2 DEF Extracts, MakesVenv, Reworks, Replays, CommandFails, TypeOK
  <2>4. ASSUME there[Venv] = "ready", Reworks(k), k # invocations PROVE Disturbed'
    <3>1. Running(k) /\ job[k].item = Venv
      BY <2>4 DEF Reworks
    <3>2. Disturbed
      BY <2>4, <3>1 DEF VenvInv, SoleVenv, Disturbed
    <3> QED
      BY <2>1, <3>2, DisturbedStays
  <2>5. ASSUME there[Venv] = "ready" \/ Disturbed, ~Reworks(invocations)
        PROVE  there'[Venv] = "ready" \/ Disturbed'
    BY <1>0, <2>1, <2>3, <2>4, <2>5
  <2>6. ASSUME step = "wait", item = Venv, job'[invocations].state = "zero"
        PROVE  there'[Venv] = "ready" \/ Disturbed'
    <3>1. invocations \in Invocations /\ job[invocations].item = Venv
      BY <2>6 DEF ItemInv, CallInv
    <3>2. CASE job[invocations].state = "zero"
      BY <2>5, <2>6, <3>2 DEF Reworks, Running
    <3>3. CASE job[invocations].state # "zero"
      <4>1. k = invocations
        BY <2>2, <2>6, <3>1, <3>3, EndsFacts DEF Extracts, MakesVenv, Reworks, Replays,
          CommandFails
      <4> QED
        BY <2>2, <2>6, <3>1, <3>3, <4>1, EndsFacts DEF Extracts, MakesVenv, Reworks, Replays,
          CommandFails, TypeOK
    <3> QED
      BY <3>2, <3>3
  <2>7. ASSUME \/ phase = "prepare-replay" /\ exit = "zero"
               \/ phase = "all" /\ (exit = "zero" \/ item = Out(runName)),
               ~preexisting
        PROVE  there'[Venv] = "ready" \/ Disturbed'
    <3>1. ~(step = "wait" /\ item = Venv) /\ exit # "nonzero"
      <4>1. Out(runName) # Venv /\ Out(runName) # NoItem
        BY DEF TypeOK
      <4> QED
        BY <2>7, <4>1 DEF CallInv
    <3>2. ~Reworks(invocations) \/ invocations \notin Invocations
      BY <3>1 DEF OwnInv, Reworks
    <3>3. there[Venv] = "ready" \/ Disturbed
      BY <2>7
    <3> QED
      BY <1>0, <2>1, <2>3, <2>4, <3>2, <3>3
  <2> QED
    BY <2>1, <2>6, <2>7
<1>7. CASE UNCHANGED vars
  BY <1>7 DEF vars, script, Disturbed, Doubted, Running
<1> HIDE DEF RuntimeInv
<1> QED
  BY <1>1, <1>2, <1>3, <1>4, <1>5, <1>6, <1>7 DEF Next, Script, Staging

(* A command that wrote its output and ended with 0 is what the call       *)
(* reports and retrieves.                                                  *)
LEMMA ResultStep ==
  ASSUME TypeOK, ItemInv, CallInv, RuntimeInv, ResultInv, [Next]_vars
  PROVE  ResultInv'
<1> USE ItemFacts DEF ResultInv, ZeroIsReplayed, OwnZero
<1>1. CASE Invoke
  <2>1. /\ exit' = "none" /\ step' \notin {"testResult", "retrieving", "code"}
        /\ UNCHANGED <<job, wrote>>
    BY <1>1 DEF Invoke, results
  <2> QED
    BY <2>1
<1>2. CASE Staging
  <2>1. UNCHANGED <<phase, job, wrote>> /\ exit = "none"
    BY <1>2, StagingFacts DEF Staging, Fetch, Fetched, TestTransfer, Send, SendEnds,
      TestTrace, Prerequisites, TestVenv, Verify, CheckHere, CheckThere,
      CommandReturns, CallInv
  <2>2. step' \notin {"testResult", "retrieving", "code"}
    BY <1>2, StagingMoves DEF StagesOn, StagingSteps, StagingEnds, RuntimeDone, Prepared,
      Idles, Goto, Leave
  <2>3. ~(phase \in {"replay", "all"} /\ exit' = "zero")
    BY <1>2, <2>1, StagingMoves DEF StagesOn, StagingEnds, RuntimeDone, Prepared, Goto,
      Leave
  <2> QED
    BY <2>1, <2>2, <2>3
<1>3. CASE Command
  <2>1. exit' = "none" /\ step' = "wait" /\ UNCHANGED wrote
    BY <1>3, ReplayFacts DEF Command, Goto, CallInv
  <2>2. /\ invocations \in Invocations /\ job'[invocations].state = "running"
        /\ \A k \in Invocations \ {invocations} : job'[k] = job[k]
    BY <1>3 DEF Command, Starts, ItemInv, TypeOK
  <2> QED
    BY <2>1, <2>2
<1>4. CASE TestOut
  <2>1. step # "idle" /\ UNCHANGED <<job, wrote>>
    BY <1>4, ReplayFacts DEF TestOut
  <2>2. step' \in {"idle", "command"} /\ exit' \in {exit, "nonzero"}
    BY <1>4 DEF TestOut, RemotePathExists, Goto, Leave
  <2> QED
    BY <2>1, <2>2 DEF CallInv
<1>5. CASE ReplayReturns
  <2>0. UNCHANGED <<runName, job, wrote, invocations>>
    BY <1>5, ReplayFacts
  <2>1. exit' = "none" /\ step' = "testResult"
    BY <1>5 DEF ReplayReturns, Goto, CallInv
  <2>2. status' = "zero" => step = "wait" /\ job[invocations].state = "zero"
    BY <1>5 DEF ReplayReturns
  <2>3. step = "wait" => item = Out(runName) /\ job[invocations].item = item
    BY <1>5 DEF ReplayReturns, ItemInv, CallInv, TypeOK
  <2> QED
    BY <2>0, <2>1, <2>2, <2>3
<1>6. CASE Retrieve
  <2>1. /\ exit' = "none" /\ UNCHANGED <<runName, status, job, wrote, invocations>>
        /\ runName \in RunNames /\ invocations \in Invocations
        /\ step = "testResult" /\ item = Out(runName)
    BY <1>6, ReplayFacts DEF Retrieve, Goto, RemotePathExists, CallInv, ItemInv, TypeOK
  <2>2. status = "zero" => OwnZero /\ invocations \in wrote[runName]
    BY <2>1
  <2>3. CASE step' = "retrieving"
    <3>1. back' = [back EXCEPT ![runName] = {k \in wrote[runName] : ~Running(k)}]
      BY <1>6, <2>3 DEF Retrieve, RemotePathExists, Goto
    <3>2. status = "zero" => invocations \in back'[runName]
      BY <2>1, <2>2, <3>1 DEF TypeOK, Running
    <3> QED
      BY <2>1, <2>2, <2>3, <3>2
  <2>4. CASE step' = "code"
    <3>1. ~Exists(item) \/ <<invocations, item>> \in missed'
      BY <1>6, <2>4 DEF Retrieve, RemotePathExists, Goto
    <3>2. status = "zero" => <<invocations, Out(runName)>> \in missed'
      BY <2>1, <2>2, <3>1 DEF Exists
    <3> QED
      BY <2>1, <2>2, <2>4, <3>2
  <2> QED
    BY <1>6, <2>3, <2>4 DEF Retrieve, RemotePathExists, Goto
<1>7. CASE Retrieved
  <2>1. exit' = "none" /\ step' = "code" /\ UNCHANGED <<runName, job, wrote, invocations>>
    BY <1>7, ReplayFacts DEF Retrieved, Goto, CallInv
  <2>2. status' = "zero" => status = "zero" /\ UNCHANGED back
    BY <1>7 DEF Retrieved
  <2> QED
    BY <1>7, <2>1, <2>2 DEF Retrieved
<1>8. CASE WriteCode
  <2>1. /\ step' = "idle" /\ step = "code"
        /\ UNCHANGED <<runName, job, wrote, back, missed, invocations>>
        /\ exit' = "zero" => status = "zero"
    BY <1>8, ReplayFacts DEF WriteCode, Leave
  <2> QED
    BY <2>1
<1>9. CASE Dies \/ Killed
  <2>1. step' = "idle" /\ exit' = "nonzero" /\ UNCHANGED <<job, wrote>>
    BY <1>9, ReplayFacts DEF Dies, Killed, Leave
  <2> QED
    BY <2>1
<1>10. CASE ReplayNode
  <2>1. UNCHANGED <<step, phase, runName, status, exit, invocations, back, missed>>
    BY <1>10, NodeFacts DEF script
  <2>2. OwnZero /\ invocations \in Invocations => OwnZero'
    BY <1>10, <2>1, NodeFacts
  <2>3. exit = "zero" \/ step # "idle" => invocations \in Invocations
    BY DEF CallInv, ItemInv
  <2>4. ASSUME NEW j \in Invocations, NEW r \in RunNames,
               job'[j].item = Out(r), job'[j].state = "zero"
        PROVE  j \in wrote'[r]
    <3>1. job[j].item = Out(r)
      BY <1>10, <2>4, NodeFacts
    <3>2. CASE job[j].state = "zero"
      BY <1>10, <2>4, <3>1, <3>2, NodeFacts
    <3>3. CASE job[j].state # "zero"
      <4>1. PICK k \in Invocations :
              Extracts(k) \/ MakesVenv(k) \/ Reworks(k) \/ Replays(k) \/ CommandFails(k)
        BY <1>10 DEF ReplayNode
      <4>2. k = j /\ Replays(k)
        BY <2>4, <3>1, <3>3, <4>1, EndsFacts DEF Extracts, MakesVenv, Reworks, Replays,
          CommandFails, TypeOK
      <4> QED
        BY <2>4, <3>1, <3>3, <4>2, EndsFacts DEF Replays, Running
    <3> QED
      BY <3>2, <3>3
  <2> QED
    BY <2>1, <2>2, <2>3, <2>4
<1>11. CASE UNCHANGED vars
  BY <1>11 DEF vars, script, results
<1> HIDE DEF ResultInv
<1> QED
  BY <1>1, <1>2, <1>3, <1>4, <1>5, <1>6, <1>7, <1>8, <1>9, <1>10, <1>11
    DEF Next, Script, Staging

FinalStays ==
  \A r \in RunNames : code[r] \in {"zero", "nonzero"} =>
    code'[r] = code[r] /\ back'[r] = back[r]

(* A replay is refused under a run name that has a result directory, and   *)
(* what was retrieved under it is not written again.                       *)
LEMMA NewStep ==
  ASSUME TypeOK, ItemInv, CallInv, RuntimeInv, NewInv, [Next]_vars
  PROVE  NewInv' /\ FinalStays
<1> USE ItemFacts DEF NewInv, FinalStays
<1>0. runName \in RunNames /\ Out(runName) \notin Items /\ Out(runName) # NoItem
  BY DEF TypeOK
<1>1. CASE Invoke
  <2>1. step' \in {"fetch", "prereq", "testOut"} /\ UNCHANGED <<back, code>>
    BY <1>1 DEF Invoke, results
  <2> QED
    BY <2>1
<1>2. CASE Staging
  <2>1. UNCHANGED <<runName, back, code>>
    BY <1>2, StagingFacts
  <2>2. \/ item' \in Items /\ step' \notin {"retrieving", "code"}
        \/ step' \in {"idle", "testOut"}
    BY <1>2, StagingMoves DEF StagesOn, StagingSteps, StagingEnds, RuntimeDone, Prepared,
      Idles, Goto, Leave
  <2> QED
    BY <1>0, <2>1, <2>2
<1>3. CASE Command
  <2>1. UNCHANGED <<runName, item, back, code>> /\ step = "command" /\ step' = "wait"
    BY <1>3 DEF Command, Goto, Arguments, results
  <2> QED
    BY <2>1
<1>4. CASE TestOut
  <2>1. UNCHANGED <<runName, back, code>>
    BY <1>4 DEF TestOut, Arguments, Remote, results
  <2>2. step' = "idle" \/ (step' = "command" /\ code[runName] = "none")
    BY <1>4 DEF TestOut, RemotePathExists, Goto, Leave
  <2> QED
    BY <2>1, <2>2
<1>5. CASE ReplayReturns
  <2>1. /\ UNCHANGED <<runName, item, back, code>> /\ step' = "testResult"
        /\ step \in {"command", "wait"} /\ item = Out(runName)
    BY <1>5 DEF ReplayReturns, Goto, Arguments, Remote, results, ItemInv, TypeOK
  <2> QED
    BY <2>1
<1>6. CASE Retrieve
  <2>1. /\ UNCHANGED runName /\ step = "testResult" /\ code[runName] = "none"
    BY <1>6 DEF Retrieve, Arguments, ItemInv
  <2>2. \/ /\ step' = "retrieving" /\ code' = [code EXCEPT ![runName] = "dir"]
           /\ back' = [back EXCEPT ![runName] = {k \in wrote[runName] : ~Running(k)}]
        \/ step' = "code" /\ UNCHANGED <<back, code>>
    BY <1>6 DEF Retrieve, RemotePathExists, Goto
  <2> QED
    BY <1>0, <2>1, <2>2 DEF TypeOK
<1>7. CASE Retrieved
  <2>1. /\ UNCHANGED <<runName, code>> /\ step = "retrieving" /\ step' = "code"
        /\ back' = back \/ back' = [back EXCEPT ![runName] = {}]
    BY <1>7 DEF Retrieved, Goto, Arguments
  <2> QED
    BY <1>0, <2>1 DEF TypeOK
<1>8. CASE WriteCode
  <2>1. /\ UNCHANGED back /\ step = "code" /\ step' = "idle"
        /\ \A r \in RunNames \ {runName} : code'[r] = code[r]
    BY <1>0, <1>8 DEF WriteCode, Leave, TypeOK
  <2> QED
    BY <1>0, <2>1
<1>9. CASE Dies \/ Killed
  <2>1. /\ step' = "idle" /\ UNCHANGED code
        /\ back' = back \/ (step = "retrieving" /\ back' = [back EXCEPT ![runName] = {}])
    BY <1>9 DEF Dies, Killed, Leave, results
  <2> QED
    BY <1>0, <2>1 DEF TypeOK
<1>10. CASE ReplayNode
  <2>1. UNCHANGED <<step, item, runName, back, code>>
    BY <1>10, NodeFacts DEF script
  <2> QED
    BY <2>1
<1>11. CASE UNCHANGED vars
  BY <1>11 DEF vars, script, results
<1> HIDE DEF NewInv, FinalStays
<1> QED
  BY <1>1, <1>2, <1>3, <1>4, <1>5, <1>6, <1>7, <1>8, <1>9, <1>10, <1>11
    DEF Next, Script, Staging

(* What a call has done, throughout.                                       *)
LEMMA CallInductive ==
  Spec => [](CallInv /\ PresentInv /\ VenvInv /\ OwnInv /\ RuntimeInv /\ ResultInv /\ NewInv)
<1> DEFINE Inv ==
      CallInv /\ PresentInv /\ VenvInv /\ OwnInv /\ RuntimeInv /\ ResultInv /\ NewInv
<1>1. Init => Inv
  <2> SUFFICES ASSUME Init PROVE Inv
    OBVIOUS
  <2>1. CallInv /\ RuntimeInv
    BY ItemFacts DEF Init, CallInv, RuntimeInv, RuntimeIsVerified
  <2>2. \A k \in Invocations : job[k].state = "none" /\ job[k].item = NoItem
    BY DEF Init, NoJob
  <2>4. PresentInv /\ VenvInv /\ OwnInv
    BY <2>2, ItemFacts DEF Init, PresentInv, VenvInv, SoleVenv, NewVenv, OwnInv, Running
  <2>3. ResultInv /\ NewInv
    BY <2>2 DEF Init, ResultInv, OwnZero, ZeroIsReplayed, NewInv
  <2> QED
    BY <2>1, <2>3, <2>4
<1>2. IInv /\ Inv /\ [Next]_vars => Inv'
  BY CallStep, PresentStep, VenvStep, OwnStep, RuntimeStep, ResultStep, NewStep DEF IInv
<1> QED
  BY <1>1, <1>2, StagedInvariant, PTL DEF Spec

(* With rsync, whatever fails, is killed and called again, and however     *)
(* late an earlier remote command goes on, an archive, a trace or a        *)
(* repository that is whole at the replay node is never touched again, and *)
(* a venv that works only once a test of the repository or the venv has    *)
(* failed.  It rests on the tests for existence, on --ignore-existing, on  *)
(* tar --keep-old-files, and on the venv being sent and made where there   *)
(* is none.                                                                *)
THEOREM NothingIsOverwritten == Method = "rsync" /\ Spec => NothingOverwritten
<1> SUFFICES ASSUME Method = "rsync" PROVE Spec => NothingOverwritten
  OBVIOUS
<1>1. IInv /\ CallInv /\ PresentInv /\ VenvInv /\ [Next]_vars =>
        [\A x \in Items : there[x] \in {"complete", "ready"} =>
           there'[x] = there[x] \/ (x = Venv /\ Doubted)]_vars
  <2> SUFFICES ASSUME IInv, CallInv, PresentInv, VenvInv, [Next]_vars, NEW x \in Items,
                      there[x] \in {"complete", "ready"}, ~(x = Venv /\ Doubted)
               PROVE  there'[x] = there[x]
    OBVIOUS
  <2>1. CASE x # Venv
    BY <2>1, KindStep DEF IInv, WholeStays
  <2>2. CASE x = Venv
    BY <2>2, VenvStep DEF IInv, KindInv
  <2> QED
    BY <2>1, <2>2
<1> QED
  BY <1>1, StagedInvariant, CallInductive, PTL DEF Spec, NothingOverwritten

(* Exit code 0 of prepare-replay, and a replay of all, mean a runtime that *)
(* passed its checks: nothing this call sends takes that back before it    *)
(* ends, and what an earlier one left running only after a failed test.    *)
THEOREM RuntimeVerified == Spec => []RuntimeIsVerified
<1>1. RuntimeInv => RuntimeIsVerified
  BY DEF RuntimeInv
<1> QED
  BY <1>1, CallInductive, PTL

(* Exit code 0 of a replay is that of the remote command of this very      *)
(* call, whose output is at the controller unless the test for it failed.  *)
THEOREM ZeroReplayed == Spec => []ZeroIsReplayed
<1>1. ResultInv => ZeroIsReplayed
  BY DEF ResultInv
<1> QED
  BY <1>1, CallInductive, PTL

(* A result directory at the controller is the work of one call: no later  *)
(* one with its run name touches it.                                       *)
THEOREM RetrievedFinal == Spec => RetrievedIsFinal
<1>1. IInv /\ CallInv /\ RuntimeInv /\ NewInv /\ [Next]_vars =>
        [\A r \in RunNames : code[r] \in {"zero", "nonzero"} =>
           code'[r] = code[r] /\ back'[r] = back[r]]_vars
  BY NewStep DEF IInv, FinalStays
<1> QED
  BY <1>1, StagedInvariant, CallInductive, PTL DEF Spec, RetrievedIsFinal

=============================================================================
