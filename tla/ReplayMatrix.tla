----------------------------- MODULE ReplayMatrix -----------------------------
(***************************************************************************)
(* A sweep for each of several workloads or backends:                      *)
(* benchmarks/replayer/replay_workload_sweep.sh and                        *)
(* replay_backend_sweep.sh, composed with the sweeps of ReplaySweep, which *)
(* can also be called alone.                                               *)
(*                                                                         *)
(* All their output goes through a tee for each script.  Ctrl-C ends the   *)
(* tees first, and the scripts with their next message; a signal to the    *)
(* inner sweep alone ends that one only.                                   *)
(***************************************************************************)
EXTENDS ReplaySweep

CONSTANT Matrices  \* [kind, items]: a sequence of calls of the inner sweep, with one list

ASSUME MatrixAssumption ==
  /\ Matrices # {}
  /\ \A m \in Matrices : m.kind \in {"workloads", "backends"} /\ m.items \in Seq(Calls)
  /\ \A m \in Matrices : \A i, j \in DOMAIN m.items : m.items[i].entries = m.items[j].entries

VARIABLES
  matrix,        \* where the outer sweep is
  current,       \* its options
  left,          \* what can still be read of its list
  records,       \* workload-results.jsonl or backend-results.jsonl
  outerStatus,   \* overall_status
  outerExit,     \* its exit status, "broken" if it does not reach its end
  before         \* (history) the replays before it

matrixVars == <<matrix, current, left, records, outerStatus, outerExit, before>>

Codes == {"zero", "nonzero"}

MatrixTypeOK ==
  /\ TypeOK
  /\ matrix \in {"idle", "next", "inner"} /\ current \in Matrices
  /\ \E i \in 1 .. Len(current.items) + 1 : left = SubSeq(current.items, i, Len(current.items))
  /\ records \in Seq([item : ToSet(current.items), returncode : Codes])
  /\ outerStatus \in Codes /\ outerExit \in Codes \cup {"none", "broken"}
  /\ before \in 0 .. replay

MatrixInit ==
  /\ Init /\ matrix = "idle" /\ current = (CHOOSE m \in Matrices : TRUE) /\ left = <<>>
  /\ records = <<>> /\ outerStatus = "zero" /\ outerExit = "none" /\ before = 0

OuterExits(e) == matrix' = "idle" /\ outerExit' = e

Matrix(m) ==
  /\ matrix = "idle" /\ at = "idle" /\ sweeps + Len(m.items) <= MaxSweeps
  /\ matrix' = "next" /\ current' = m /\ left' = m.items
  /\ records' = <<>> /\ outerStatus' = "zero" /\ outerExit' = "none" /\ before' = replay
  /\ UNCHANGED vars

(* Mutant: the loop ends.                                                  *)
Continue_Not == <<>>

(* The list behind the current item.                                       *)
Continue == Tail(left)

RecordItem(code) ==
  records' = Append(records, [item |-> Head(left), returncode |-> code])

(* Mutant: an item that is left out is no failure.                         *)
Failed_Inner(code) == IF code = "nonzero" /\ matrix = "inner" THEN "nonzero" ELSE outerStatus

(* overall_status, which the workloads have; the backends count the codes. *)
Failed(code) == IF code = "nonzero" THEN "nonzero" ELSE outerStatus

(* The trace of the workload, or the configuration of the backend, is not  *)
(* there.                                                                  *)
Missing ==
  /\ matrix = "next" /\ left # <<>> /\ Failure
  /\ RecordItem("nonzero") /\ outerStatus' = Failed("nonzero") /\ left' = Continue
  /\ UNCHANGED <<at, call, input, entry, path, overallStatus, exit, results, csv, l2, out, stats,
                 replay, first, succeeded, orphans, sweeps>>
  /\ UNCHANGED <<matrix, current, outerExit, before>>

(* The inner sweep starts.                                                 *)
Inner ==
  /\ matrix = "next" /\ left # <<>> /\ matrix' = "inner" /\ Sweep(Head(left))
  /\ UNCHANGED <<current, left, records, outerStatus, outerExit, before>>

InnerReturns ==
  /\ matrix = "inner" /\ at = "idle" /\ matrix' = "next"
  /\ RecordItem(exit) /\ outerStatus' = Failed(exit) /\ left' = Continue
  /\ UNCHANGED <<current, outerExit, before>> /\ UNCHANGED vars

(* The summary, and the exit status.                                       *)
MatrixReport ==
  /\ matrix = "next" /\ left = <<>>
  /\ OuterExits(IF current.kind = "workloads" THEN outerStatus
                ELSE IF \E r \in ToSet(records) : r.returncode # "zero" THEN "nonzero" ELSE "zero")
  /\ UNCHANGED <<current, left, records, outerStatus, before>> /\ UNCHANGED vars

(* Ctrl-C during a replay.                                                 *)
MatrixInterrupted ==
  /\ matrix = "inner" /\ Interrupted /\ OuterExits("broken")
  /\ UNCHANGED <<current, left, records, outerStatus, before>>

(* A signal to the outer sweep alone, or a record that cannot be written.  *)
(* An inner sweep goes on.                                                 *)
MatrixDies ==
  /\ matrix # "idle" /\ Failure /\ OuterExits("broken")
  /\ UNCHANGED <<at, call, input, entry, path, overallStatus, exit, results, csv, l2, out, stats,
                 replay, first, succeeded, orphans, sweeps>>
  /\ UNCHANGED <<current, left, records, outerStatus, before>>

(* A sweep that is called alone.                                           *)
Alone(c) ==
  /\ matrix = "idle" /\ Sweep(c) /\ outerExit' = "none"
  /\ UNCHANGED <<matrix, current, left, records, outerStatus, before>>

MatrixNext ==
  \/ \E m \in Matrices : Matrix(m)
  \/ Missing \/ Inner \/ InnerReturns \/ MatrixReport \/ MatrixInterrupted \/ MatrixDies
  \/ \E c \in Calls : Alone(c)
  \/ Running /\ UNCHANGED matrixVars

MatrixSpec == MatrixInit /\ [][MatrixNext]_<<vars, matrixVars>>

-----------------------------------------------------------------------------
(* Properties.                                                             *)

(* "한 workload가 실패해도 나머지 workload를 계속 실행하며, 마지막에 전체 exit code로 실패를 알립니다"       *)
(* (replayer.md:167-168): when the outer sweep reaches its end there is a  *)
(* record for each item, in order, whatever failed or was interrupted, and *)
(* exit code 0 only if nothing has.                                        *)
TriesAll ==
  outerExit \in Codes =>
    /\ [i \in DOMAIN records |-> records[i].item] = current.items
    /\ outerExit = "zero" <=> \A i \in DOMAIN records : records[i].returncode = "zero"

(* Exit code 0 of the outer sweep: each case of each item has a replay of  *)
(* this call that ended with 0, also the items before the last one.        *)
MatrixZeroIsAll ==
  outerExit = "zero" => \A c \in ToSet(current.items) : \A e \in ToSet(c.entries) :
    \E rec \in ToSet(results[File(c)]) :
      rec.entry = e /\ rec.returncode = "zero" /\ rec.replay > before

(* What the exit codes of the sweeps mean, inner and outer ones.           *)
ExitCodesInv == MatrixTypeOK /\ ZeroIsAll /\ TriesAll /\ MatrixZeroIsAll

=============================================================================
