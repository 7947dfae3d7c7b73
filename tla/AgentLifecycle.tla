---------------------------- MODULE AgentLifecycle ----------------------------
(***************************************************************************)
(* What one remote profiler agent promises its controller, whatever it     *)
(* measures: it leaves a pid file before it announces READY, it obeys a    *)
(* stop once it serves, and a summary is there only after it stopped in    *)
(* order.  A stop that comes earlier is lost, or kills the agent.          *)
(***************************************************************************)
VARIABLES
  phase,    \* where the agent is
  summary   \* summary.json: "none", or "complete"

Phases == {"booting", "pidWritten", "announced", "serving", "stopping",
           "done", "killed"}

(* The phases in which agent.pid exists.                                   *)
PidFilePhases == Phases \ {"booting", "done"}

(* An agent moves on by itself, ...                                        *)
Advance(a) ==
  CASE a = "booting"    -> {"pidWritten"}
    [] a = "pidWritten" -> {"announced"}
    [] a = "announced"  -> {"serving"}
    [] OTHER            -> {}

(* ... and SIGTERM, sent to the pid of its pid file, has its default effect *)
(* until the trap is installed.                                            *)
Signalled(a) ==
  CASE a \in {"pidWritten", "announced"} -> "killed"
    [] a = "serving" -> "stopping"
    [] OTHER -> a

Init == phase = "booting" /\ summary = "none"

Step ==
  /\ phase' \in Advance(phase)
  /\ UNCHANGED summary

Stop ==
  /\ phase' = Signalled(phase)
  /\ UNCHANGED summary

Summarise ==
  /\ phase = "stopping" /\ phase' = phase
  /\ summary' = "complete"

Finish ==
  /\ phase = "stopping" /\ phase' = "done"
  /\ summary = "complete" /\ UNCHANGED summary

Next == Step \/ Stop \/ Summarise \/ Finish

Spec == Init /\ [][Next]_<<phase, summary>>
===============================================================================
