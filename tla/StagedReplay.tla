----------------------------- MODULE StagedReplay -----------------------------
(***************************************************************************)
(* Staged remote replay: benchmarks/replayer/staged_remote_replay.sh, run  *)
(* again and again on a controller node against one isolated replay node.  *)
(*                                                                         *)
(* Everything the script keeps is on the two file systems, and all it asks *)
(* of a path is whether it exists.  A connection can fail at every ssh,    *)
(* rsync and scp, the script can be killed at every step, and a remote     *)
(* command whose ssh is gone may go on.                                    *)
(***************************************************************************)
EXTENDS Naturals, FiniteSets

CONSTANTS
  Assets,          \* the trace archives
  RunNames,        \* the names given with --run-name
  Method,          \* transfer_method
  MaxInvocations,  \* bound: calls of the script
  MaxFailures      \* bound: connections lost, commands failed, kills

ASSUME StagedAssumption ==
  /\ IsFiniteSet(Assets) /\ IsFiniteSet(RunNames)
  /\ Method \in {"rsync", "scp"}
  /\ MaxInvocations \in Nat /\ MaxFailures \in Nat

(* What is staged, and the output directory of a run.                      *)
Archive(a) == <<"archive", a>>
Trace(a) == <<"trace", a>>
Repo == <<"repo", "repo">>
Venv == <<"venv", "venv">>
Out(r) == <<"output", r>>
NoItem == <<"none", "none">>
Items == {Archive(a) : a \in Assets} \cup {Trace(a) : a \in Assets} \cup {Repo, Venv}
Outs == {Out(r) : r \in RunNames}
Targets == Items \cup Outs \cup {NoItem}

Phases == {"check-prerequisites", "prepare-trace", "prepare-replay", "replay", "all"}
Invocations == 1 .. MaxInvocations

VARIABLES
  step,         \* where the script is
  item,         \* what it is working on there
  mode,         \* runtime_mode of the topology, which all calls are given
  phase, assets, runName,  \* its arguments
  todo,         \* the assets it has still to stage
  preexisting,  \* remote_venv_preexisting
  status,       \* replay_status, or "lost": that is 0, retrieve_status is not
  exit,         \* the exit status of the script
  here,         \* [Items -> content at the controller]
  there,        \* [Items -> content at the replay node]
  job,          \* [Invocations -> the last remote command of that call]
  wrote,        \* [RunNames -> calls whose command wrote to the remote output]
  back,         \* [RunNames -> calls whose whole output is at the controller]
  code,         \* [RunNames -> remote_exit_code, or "none", or "dir" without it]
  missed,       \* (history) <<call, path>>: it was there, and taken for absent
  invocations, failures  \* (bounds)

script == <<step, item, mode, phase, assets, runName, todo, preexisting, status, exit>>
results == <<wrote, back, code>>
vars == <<script, here, there, job, results, missed, invocations, failures>>

(* "copied" is a venv that still has the paths of the controller in it.    *)
Contents == {"absent", "partial", "complete", "copied", "ready"}
Steps == {"idle", "fetch", "fetching", "test", "send", "sending", "testTrace",
          "prereq", "testVenv", "checkHere", "checkThere", "command", "wait",
          "verify", "testOut", "testResult", "retrieving", "code"}
Jobs == [item : Targets, fresh : BOOLEAN,
         state : {"none", "running", "zero", "nonzero"},
         ended : 0 .. MaxInvocations]   \* (history) the call meanwhile
NoJob == [item |-> NoItem, fresh |-> FALSE, state |-> "none", ended |-> 0]

TypeOK ==
  /\ step \in Steps
  /\ item \in Targets /\ mode \in {"remote_install", "copy_venv"}
  /\ phase \in Phases \cup {"none"}
  /\ assets \in SUBSET Assets /\ todo \in SUBSET assets
  /\ runName \in RunNames
  /\ preexisting \in BOOLEAN /\ missed \in SUBSET (Invocations \X Targets)
  /\ status \in {"zero", "nonzero", "lost"}
  /\ exit \in {"none", "zero", "nonzero"}
  /\ here \in [Items -> {"absent", "partial", "complete"}]
  /\ there \in [Items -> Contents]
  /\ job \in [Invocations -> Jobs]
  /\ wrote \in [RunNames -> SUBSET Invocations]
  /\ back \in [RunNames -> SUBSET Invocations]
  /\ code \in [RunNames -> {"none", "dir", "zero", "nonzero"}]
  /\ invocations \in 0 .. MaxInvocations /\ failures \in 0 .. MaxFailures

(* The controller may have archives, a checkout and its venv already; the  *)
(* replay node starts with nothing.                                        *)
Init ==
  /\ step = "idle" /\ item = NoItem /\ phase = "none"
  /\ mode \in {"remote_install", "copy_venv"}
  /\ assets = {} /\ todo = {}
  /\ runName \in RunNames /\ preexisting = FALSE /\ status = "zero" /\ exit = "none"
  /\ here \in [Items -> {"absent", "complete"}]
  /\ \A a \in Assets : here[Trace(a)] = "absent"
  /\ here[Repo] = "absent" => here[Venv] = "absent"
  /\ there = [x \in Items |-> "absent"]
  /\ job = [k \in Invocations |-> NoJob]
  /\ wrote = [r \in RunNames |-> {}] /\ back = [r \in RunNames |-> {}]
  /\ code = [r \in RunNames |-> "none"]
  /\ missed = {} /\ invocations = 0 /\ failures = 0

Failure == failures < MaxFailures /\ failures' = failures + 1
Goto(s, x) == step' = s /\ item' = x /\ UNCHANGED exit
Leave(e) == step' = "idle" /\ item' = NoItem /\ exit' = e

-----------------------------------------------------------------------------
(* The phases: what follows once an asset, then the runtime is prepared.   *)

NextAsset ==
  \/ /\ todo # {}
     /\ \E a \in todo : Goto("fetch", Archive(a)) /\ todo' = todo \ {a}
  \/ /\ todo = {} /\ UNCHANGED todo
     /\ IF phase = "all" THEN Goto("fetch", Repo) ELSE Leave("zero")

Prepared == IF phase = "all" THEN Goto("testOut", Out(runName)) ELSE Leave("zero")

Invoke ==
  /\ step = "idle" /\ invocations < MaxInvocations
  /\ invocations' = invocations + 1
  /\ runName' \in RunNames
  /\ preexisting' = FALSE /\ status' = "zero" /\ exit' = "none"
  /\ \/ /\ phase' \in {"prepare-trace", "all"}
        /\ assets' \in SUBSET Assets \ {{}}
        /\ \E a \in assets' : /\ step' = "fetch" /\ item' = Archive(a)
                             /\ todo' = assets' \ {a}
     \/ /\ assets' = {} /\ todo' = {}
        /\ \/ phase' = "check-prerequisites" /\ step' = "prereq" /\ item' = Repo
           \/ phase' = "prepare-replay" /\ step' = "fetch" /\ item' = Repo
           \/ phase' = "replay" /\ step' = "testOut" /\ item' = Out(runName')
  /\ UNCHANGED <<mode, here, there, job, results, missed, failures>>

(* remote_path_exists as the condition of an if: 255 of an ssh that cannot *)
(* connect is not 0 either.                                                *)
Exists(x) == IF x[1] = "output" THEN wrote[x[2]] # {} ELSE there[x] # "absent"

RemotePathExists(x, Yes, No) ==
  \/ Exists(x) /\ Yes /\ UNCHANGED <<missed, failures>>
  \/ ~Exists(x) /\ No /\ UNCHANGED <<missed, failures>>
  \/ Failure /\ No /\ missed' = IF Exists(x) THEN missed \cup {<<invocations, x>>} ELSE missed

(* set -e: an ssh, a transfer or a command of the controller fails.  git   *)
(* removes an unfinished clone, a download may fail before its copy.       *)
Dies ==
  /\ step \in {"fetching", "send", "sending", "prereq", "checkThere", "command",
               "wait", "verify"}
  /\ ~(step \in {"command", "wait"} /\ item[1] = "output")
  /\ Failure /\ Leave("nonzero")
  /\ \/ UNCHANGED here /\ ~(step = "fetching" /\ item = Repo)
     \/ /\ step = "fetching" /\ item # Venv
        /\ here' = [here EXCEPT ![item] = "absent"]
  /\ UNCHANGED <<mode, phase, assets, runName, todo, preexisting, status, there, job,
                 results, missed, invocations>>

(* Ctrl-C, a lost terminal, a reboot of the controller.                    *)
Killed ==
  /\ step # "idle" /\ Failure /\ Leave("nonzero")
  /\ back' = IF step = "retrieving" THEN [back EXCEPT ![runName] = {}] ELSE back
  /\ UNCHANGED <<mode, phase, assets, runName, todo, preexisting, status, here, there, job,
                 wrote, code, missed, invocations>>

-----------------------------------------------------------------------------
(* An archive, the repository, a venv: made at the controller unless the   *)
(* path is there, sent to the replay node unless the path is there.        *)

Arguments == <<mode, phase, assets, runName>>
Remote == <<job, results>>
Counters == <<invocations, failures>>

Fetch ==
  /\ step = "fetch"
  /\ IF here[item] # "absent"
       THEN /\ Goto(IF item = Venv THEN "checkHere" ELSE "test", item)
            /\ UNCHANGED here
       ELSE /\ Goto("fetching", item)
            /\ here' = [here EXCEPT ![item] = "partial"]
  /\ UNCHANGED <<Arguments, todo, preexisting, status, there, Remote, missed, Counters>>

Fetched ==
  /\ step = "fetching"
  /\ here' = [here EXCEPT ![item] = "complete"]
  /\ Goto(IF item = Venv THEN "checkHere" ELSE "test", item)
  /\ UNCHANGED <<Arguments, todo, preexisting, status, there, Remote, missed, Counters>>

AfterTransfer ==
  CASE item = Repo -> Goto("prereq", Repo)
    [] item = Venv -> Goto("command", Venv)
    [] OTHER -> Goto("testTrace", Trace(item[2]))

TestTransfer ==
  /\ step = "test"
  /\ RemotePathExists(item, AfterTransfer, Goto("send", item))
  /\ UNCHANGED <<Arguments, todo, preexisting, status, here, there, Remote, invocations>>

(* The checkout is sent with the .venv inside it.                          *)
Sent == IF item = Repo /\ here[Venv] # "absent" THEN {Repo, Venv} ELSE {item}

(* What rsync --ignore-existing adds to a venv that works may break it.    *)
Merged(x, works) == IF there[x] = "ready" /\ ~works THEN "partial" ELSE there[x]

(* It writes a file under another name first, and what it finds of a       *)
(* directory it completes; scp truncates what there is.                    *)
Started(x, works) ==
  IF Method = "scp" \/ (there[x] = "absent" /\ x \in {Repo, Venv})
    THEN "partial" ELSE Merged(x, works)

Landed(x, works) ==
  LET sent == IF x = Venv /\ here[x] = "complete" THEN "copied" ELSE here[x]
      fill == there[x] = "absent" \/ (there[x] = "partial" /\ x \in {Repo, Venv})
  IN  IF Method = "scp" \/ fill THEN sent ELSE Merged(x, works)

Send ==
  /\ step = "send" /\ Goto("sending", item)
  /\ \E works \in BOOLEAN :
       there' = [x \in Items |-> IF x \in Sent THEN Started(x, works) ELSE there[x]]
  /\ UNCHANGED <<Arguments, todo, preexisting, status, here, Remote, missed, Counters>>

SendEnds ==
  /\ step = "sending" /\ AfterTransfer
  /\ \E works \in BOOLEAN :
       there' = [x \in Items |-> IF x \in Sent THEN Landed(x, works) ELSE there[x]]
  /\ UNCHANGED <<Arguments, todo, preexisting, status, here, Remote, missed, Counters>>

(* prepare_trace_asset, once the archive is over.                          *)
TestTrace ==
  /\ step = "testTrace"
  /\ RemotePathExists(item, NextAsset, Goto("command", item) /\ UNCHANGED todo)
  /\ UNCHANGED <<Arguments, preexisting, status, here, there, Remote, invocations>>

-----------------------------------------------------------------------------
(* prepare_replay, once the repository is over.                            *)

Prerequisites ==
  /\ step = "prereq"
  /\ IF phase = "check-prerequisites" THEN Leave("zero") ELSE Goto("testVenv", Venv)
  /\ UNCHANGED <<Arguments, todo, preexisting, status, here, there, Remote, missed, Counters>>

(* Mutant: a venv that exists is not verified.                             *)
TestVenv_NoVerify ==
  /\ step = "testVenv"
  /\ \/ /\ mode = "remote_install"
        /\ RemotePathExists(Venv, Prepared, Goto("command", Venv))
        /\ UNCHANGED preexisting
     \/ /\ mode = "copy_venv" /\ Goto("fetch", Venv)
        /\ RemotePathExists(Venv, preexisting' = TRUE, UNCHANGED preexisting)
  /\ UNCHANGED <<Arguments, todo, status, here, there, Remote, invocations>>

(* remote_install verifies a venv that exists, copy_venv only remembers it.*)
TestVenv ==
  /\ step = "testVenv"
  /\ \/ /\ mode = "remote_install"
        /\ RemotePathExists(Venv, Goto("verify", Venv), Goto("command", Venv))
        /\ UNCHANGED preexisting
     \/ /\ mode = "copy_venv" /\ Goto("fetch", Venv)
        /\ RemotePathExists(Venv, preexisting' = TRUE, UNCHANGED preexisting)
  /\ UNCHANGED <<Arguments, todo, status, here, there, Remote, invocations>>

(* verify_remote_runtime: version, imports, pip check.                     *)
Verify ==
  /\ step = "verify"
  /\ IF there[Venv] = "ready" THEN Prepared ELSE Leave("nonzero")
  /\ UNCHANGED <<Arguments, todo, preexisting, status, here, there, Remote, missed, Counters>>

(* The python of the controller's venv runs; an unfinished venv may have   *)
(* one.                                                                    *)
CheckHere ==
  /\ step = "checkHere"
  /\ \/ Goto(IF preexisting THEN "checkThere" ELSE "test", Venv)
     \/ here[Venv] = "partial" /\ Leave("nonzero")
  /\ UNCHANGED <<Arguments, todo, preexisting, status, here, there, Remote, missed, Counters>>

(* All that is asked of a remote venv that was there: test -x bin/python.  *)
CheckThere ==
  /\ step = "checkThere"
  /\ \/ Prepared
     \/ there[Venv] # "ready" /\ Leave("nonzero")
  /\ UNCHANGED <<Arguments, todo, preexisting, status, here, there, Remote, missed, Counters>>

-----------------------------------------------------------------------------
(* Commands at the replay node: tar, setup_runtime.sh or the repair of a   *)
(* copied venv, the replay.                                                *)

Starts ==
  job' = [job EXCEPT ![invocations] =
    [item |-> item, state |-> "running", ended |-> 0,
     fresh |-> item \in Items /\ there[item] = "absent"]]

(* Mutant: a command starts over, without --keep-old-files.                *)
Command_Afresh ==
  /\ step = "command" /\ Goto("wait", item) /\ Starts
  /\ there' = IF item \in Items THEN [there EXCEPT ![item] = "partial"] ELSE there
  /\ UNCHANGED <<Arguments, todo, preexisting, status, here, results, missed, Counters>>

Command ==
  /\ step = "command" /\ Goto("wait", item) /\ Starts
  /\ there' = IF item \in Items /\ there[item] = "absent"
                THEN [there EXCEPT ![item] = "partial"] ELSE there
  /\ UNCHANGED <<Arguments, todo, preexisting, status, here, results, missed, Counters>>

Running(k) == job[k].state = "running"
Ends(k, s) == job' = [job EXCEPT ![k].state = s, ![k].ended = invocations]

(* tar --keep-old-files fails on a file that is there.                     *)
Extracts(k) ==
  /\ Running(k) /\ job[k].item[1] = "trace"
  /\ IF job[k].fresh /\ there[Archive(job[k].item[2])] = "complete"
       THEN there' = [there EXCEPT ![job[k].item] = "complete"] /\ Ends(k, "zero")
       ELSE UNCHANGED there /\ Ends(k, "nonzero")
  /\ UNCHANGED <<script, here, results, missed, Counters>>

(* setup_runtime.sh completes what there is; the repair ends with the      *)
(* import and pip checks.                                                  *)
MakesVenv(k) ==
  /\ Running(k) /\ job[k].item = Venv
  /\ IF mode = "remote_install" \/ there[Venv] \in {"copied", "ready"}
       THEN there' = [there EXCEPT ![Venv] = "ready"] /\ Ends(k, "zero")
       ELSE UNCHANGED there /\ Ends(k, "nonzero")
  /\ UNCHANGED <<script, here, results, missed, Counters>>

(* They change a venv that works as well: pip installs into it and links   *)
(* and paths are written again, and it need not work until they end.       *)
Reworks(k) ==
  /\ Running(k) /\ job[k].item = Venv /\ there[Venv] = "ready"
  /\ there' = [there EXCEPT ![Venv] = IF mode = "remote_install" THEN "partial" ELSE "copied"]
  /\ UNCHANGED <<script, here, job, results, missed, Counters>>

(* cd to the repository, then the command after --.                        *)
Replays(k) ==
  /\ Running(k) /\ job[k].item[1] = "output"
  /\ LET r == job[k].item[2] IN
     \/ there[Repo] = "absent" /\ Ends(k, "nonzero") /\ UNCHANGED wrote
     \/ /\ there[Repo] # "absent" /\ k \notin wrote[r]
        /\ wrote' = [wrote EXCEPT ![r] = @ \cup {k}] /\ UNCHANGED job
     \/ k \in wrote[r] /\ Ends(k, "zero") /\ UNCHANGED wrote
  /\ UNCHANGED <<script, here, there, back, code, missed, Counters>>

CommandFails(k) ==
  /\ Running(k) /\ Failure /\ Ends(k, "nonzero")
  /\ UNCHANGED <<script, here, there, results, missed, invocations>>

AfterCommand ==
  CASE item[1] = "trace" -> NextAsset
    [] item = Venv /\ mode = "remote_install" -> Goto("verify", Venv) /\ UNCHANGED todo
    [] OTHER -> Prepared /\ UNCHANGED todo

CommandReturns ==
  /\ step = "wait" /\ ~Running(invocations) /\ item[1] # "output"
  /\ IF job[invocations].state = "zero"
       THEN AfterCommand ELSE Leave("nonzero") /\ UNCHANGED todo
  /\ UNCHANGED <<Arguments, preexisting, status, here, there, Remote, missed, Counters>>

-----------------------------------------------------------------------------
(* replay_run.                                                             *)

(* Mutant: the directory at the controller is not tested.                  *)
TestOut_RemoteOnly ==
  /\ step = "testOut"
  /\ RemotePathExists(item, Leave("nonzero"), Goto("command", item))
  /\ UNCHANGED <<Arguments, todo, preexisting, status, here, there, Remote, invocations>>

TestOut ==
  /\ step = "testOut"
  /\ RemotePathExists(item, Leave("nonzero"),
       IF code[runName] = "none" THEN Goto("command", item) ELSE Leave("nonzero"))
  /\ UNCHANGED <<Arguments, todo, preexisting, status, here, there, Remote, invocations>>

(* set +e: also the 255 of an ssh that cannot connect, or that is gone.    *)
ReplayReturns ==
  /\ item[1] = "output" /\ Goto("testResult", item)
  /\ \/ /\ step = "wait" /\ ~Running(invocations)
        /\ status' = job[invocations].state
        /\ UNCHANGED failures
     \/ /\ step \in {"command", "wait"} /\ Failure
        /\ status' = "nonzero"
  /\ UNCHANGED <<Arguments, todo, preexisting, here, there, Remote, missed, invocations>>

(* What a command that still runs has written so far is not whole.         *)
Retrieve ==
  /\ step = "testResult"
  /\ RemotePathExists(item,
       /\ Goto("retrieving", item)
       /\ code' = [code EXCEPT ![runName] = "dir"]
       /\ back' = [back EXCEPT ![runName] = {k \in wrote[runName] : ~Running(k)}],
       Goto("code", item) /\ UNCHANGED <<back, code>>)
  /\ UNCHANGED <<Arguments, todo, preexisting, status, here, there, job, wrote, invocations>>

Retrieved ==
  /\ step = "retrieving" /\ Goto("code", item)
  /\ \/ UNCHANGED <<status, back, failures>>
     \/ /\ Failure
        /\ back' = [back EXCEPT ![runName] = {}]
        /\ status' = IF status = "zero" THEN "lost" ELSE status
  /\ UNCHANGED <<Arguments, todo, preexisting, here, there, job, wrote, code, missed,
                 invocations>>

(* Mutant: the status of the retrieval is not returned.                    *)
WriteCode_DropRetrieve ==
  /\ step = "code"
  /\ code' = [code EXCEPT ![runName] = IF status = "lost" THEN "zero" ELSE status]
  /\ Leave(IF status = "lost" THEN "zero" ELSE status)
  /\ UNCHANGED <<Arguments, todo, preexisting, status, here, there, job, wrote, back,
                 missed, Counters>>

WriteCode ==
  /\ step = "code"
  /\ code' = [code EXCEPT ![runName] = IF status = "lost" THEN "zero" ELSE status]
  /\ Leave(IF status = "zero" THEN "zero" ELSE "nonzero")
  /\ UNCHANGED <<Arguments, todo, preexisting, status, here, there, job, wrote, back,
                 missed, Counters>>

Script ==
  \/ Fetch \/ Fetched \/ TestTransfer \/ Send \/ SendEnds \/ TestTrace
  \/ Prerequisites \/ TestVenv \/ Verify \/ CheckHere \/ CheckThere
  \/ Command \/ CommandReturns
  \/ TestOut \/ ReplayReturns \/ Retrieve \/ Retrieved \/ WriteCode

ReplayNode ==
  \E k \in Invocations :
    Extracts(k) \/ MakesVenv(k) \/ Reworks(k) \/ Replays(k) \/ CommandFails(k)

Next == Invoke \/ Script \/ Dies \/ Killed \/ ReplayNode

Spec == Init /\ [][Next]_vars

-----------------------------------------------------------------------------
(* Properties.                                                             *)

(* An existence test of the repository or the venv failed, in any call so  *)
(* far, although the path was there.                                       *)
Doubted == \E k \in Invocations : <<k, Repo>> \in missed \/ <<k, Venv>> \in missed

(* What is whole at the replay node is never touched again, whatever       *)
(* fails, is killed and called again, and whatever an earlier command      *)
(* still does.  A venv that works is, once a test has failed: it is        *)
(* installed or repaired again, or completed with that of the controller.  *)
NothingOverwritten ==
  [][\A x \in Items : there[x] \in {"complete", "ready"} =>
       there'[x] = there[x] \/ (x = Venv /\ Doubted)]_vars

(* After such a test, a command of an earlier call was still at work on    *)
(* the venv during this one.                                               *)
Disturbed ==
  /\ Doubted
  /\ \E k \in Invocations \ {invocations} :
       job[k].item = Venv /\ (Running(k) \/ job[k].ended = invocations)

(* Exit code 0 of prepare-replay, and a replay of all, mean a runtime that *)
(* passed the import and pip checks, unless copy_venv found one, or an     *)
(* earlier command has changed it meanwhile.                               *)
RuntimeIsVerified ==
  /\ \/ phase = "prepare-replay" /\ exit = "zero"
     \/ phase = "all" /\ (exit = "zero" \/ item = Out(runName))
  /\ ~preexisting
  => there[Venv] = "ready" \/ Disturbed

(* Exit code 0 of a replay means that the remote command of this very call *)
(* ended with 0, and that its whole output is at the controller unless a   *)
(* connection failed in this call's test for it.                           *)
ZeroIsReplayed ==
  phase \in {"replay", "all"} /\ exit = "zero" =>
    /\ job[invocations].item = Out(runName) /\ job[invocations].state = "zero"
    /\ invocations \in back[runName] \/ <<invocations, Out(runName)>> \in missed

(* A result directory at the controller is the work of one call: a later   *)
(* call with the same run name does not change it.                         *)
RetrievedIsFinal ==
  [][\A r \in RunNames : code[r] \in {"zero", "nonzero"} =>
       code'[r] = code[r] /\ back'[r] = back[r]]_vars

-----------------------------------------------------------------------------
(* What a document says and the code does not do (README, section 8).      *)

(* "기존 runtime을 자동으로 삭제하거나 덮어쓰지 않습니다" (staged-remote-replay.md: *)
(* 273-274): a runtime that is there is not overwritten.                   *)
VenvIsKept == [][there[Venv] = "ready" => there'[Venv] = "ready"]_vars

(* Usage, staged_remote_replay.sh:30-31: prepare-trace transfers and       *)
(* extracts the archives.                                                  *)
PreparedTraceIsWhole ==
  phase = "prepare-trace" /\ exit = "zero" =>
    \A a \in assets : there[Trace(a)] = "complete"

(* staged-remote-replay.md:159: only copy_venv sends the venv of the       *)
(* controller.                                                             *)
OnlyCopySendsVenv == mode = "remote_install" => there[Venv] # "copied"

(* staged-remote-replay.md:205: with copy_venv, a venv the replay node has *)
(* is verified.                                                            *)
CopiedRuntimeWorks ==
  phase = "prepare-replay" /\ exit = "zero" => there[Venv] = "ready"

(* staged-remote-replay.md:249-251: the output of the remote command is    *)
(* retrieved, whether it succeeds or fails.                                *)
ZeroIsRetrieved ==
  phase = "replay" /\ exit = "zero" => invocations \in back[runName]

(* staged-remote-replay.md:275: no replay starts when the remote output of *)
(* its run name exists.                                                    *)
NoReplayOverOutput ==
  [][\A r \in RunNames : \A k \in Invocations :
       ~Running(k) /\ job'[k].state = "running" /\ job'[k].item = Out(r)
         => wrote[r] = {}]_vars

=============================================================================
