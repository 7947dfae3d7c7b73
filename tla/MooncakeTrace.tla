---------------------------- MODULE MooncakeTrace ----------------------------
(***************************************************************************)
(* The Mooncake traces below a mountpoint: src/recorder/mooncake.py, as    *)
(* called by run_live and by mooncake_cli.py, from any number of processes.*)
(*                                                                         *)
(* A call that finds no trace downloads it to a temporary file and renames *)
(* it.  It then reads the file twice, to count the requests and to         *)
(* summarise the selected ones, and the client of vLLM reads it once more. *)
(* A pass reads the file it has opened: a rename meanwhile does not change *)
(* what it sees, so that a pass is one step.                               *)
(***************************************************************************)
EXTENDS Integers, Sequences

CONSTANTS
  Recorders,   \* processes of recorder.main
  Checkers,    \* processes of recorder.mooncake_cli
  AllTraces,   \* <<"conversation", "toolagent">>
  Versions,    \* what an URL can serve: sequences of entries
  Selections,  \* [percent, requests], each None or a number
  Percent,     \* one percent, in the unit the percentages are written in
  Slack,       \* how far a product of floats is off, in 1 / (100 * Percent) requests
  None,        \* no percent, no number of requests, no file
  Bad,         \* a line that is not a valid entry
  MaxModelLen, \* model.max_model_len
  MaxCalls,    \* bound: calls
  MaxFailures, \* bound: exceptions, interrupts, kills, cut connections, but for a
               \* second one while the first is handled
  MaxChanges   \* bound: new versions

Traces == {AllTraces[i] : i \in DOMAIN AllTraces}
Callers == Recorders \cup Checkers
Entries == [time : Nat, tokens : Nat] \cup {Bad}

(* dataset_percent is above 0 and at most 100, num_requests is positive.   *)
(* What floats are off is less than a request.                             *)
ASSUME MooncakeAssumption ==
  /\ Recorders \cap Checkers = {}
  /\ AllTraces \in Seq(Traces) /\ AllTraces # <<>>
  /\ Versions \subseteq Seq(Entries)
  /\ None \notin Nat /\ None \notin Seq(Entries)
  /\ Percent \in Nat \ {0} /\ Slack \in Nat /\ Slack < 100 * Percent /\ Selections # {}
  /\ \A w \in Selections :
       w.percent \in (1 .. 100 * Percent) \cup {None} /\ w.requests \in (Nat \ {0}) \cup {None}
  /\ MaxModelLen \in Nat /\ MaxCalls \in Nat /\ MaxFailures \in Nat /\ MaxChanges \in Nat

VARIABLES
  file,       \* [Traces -> the content at its path, or None]
  upstream,   \* [Traces -> the version its URL serves]
  pc,         \* where a call is
  todo,       \* the traces a call has left, the current one first
  want,       \* dataset_percent and num_requests
  source,     \* the response a download reads
  temp,       \* the content of its temporary file, or None
  total, limit,  \* total_requests, selected_limit
  plan,       \* the entries the plan summarises
  rows,       \* the entries request_stats.jsonl is about
  result,     \* how the last call ended
  parts,      \* temporary files nobody removes any more
  kills,      \* (history) downloads that were killed
  lapses,     \* (history) downloads interrupted where the file is not unlinked
  fetched,    \* (history) [Traces -> responses read to their end]
  opened,     \* (history) what the second pass has read
  replaced,   \* (history) the file was replaced since the second pass
  calls, failures, changes  \* (bounds)

vars == <<file, upstream, pc, todo, want, source, temp, total, limit, plan, rows, result,
          parts, kills, lapses, fetched, opened, replaced, calls, failures, changes>>
locals == <<todo, want, source, temp, total, limit, plan, rows, result, opened>>
shared == <<file, upstream, parts, kills, lapses, fetched, replaced, calls, failures, changes>>

Points ==
  {"idle", "ensure", "made", "download", "replace", "unlink", "count", "sum", "client", "stats"}

TypeOK ==
  /\ file \in [Traces -> Seq(Entries) \cup {None}]
  /\ upstream \in [Traces -> Versions]
  /\ pc \in [Callers -> Points] /\ todo \in [Callers -> Seq(Traces)]
  /\ want \in [Callers -> Selections]
  /\ source \in [Callers -> Seq(Entries)] /\ temp \in [Callers -> Seq(Entries) \cup {None}]
  /\ total \in [Callers -> Nat] /\ limit \in [Callers -> Nat]
  /\ \A c \in Callers : pc[c] \in {"sum", "client", "stats"} => limit[c] \in 0 .. total[c]
  /\ plan \in [Callers -> Seq(Entries)] /\ rows \in [Callers -> Seq(Entries)]
  /\ result \in [Callers -> {"none", "ok", "error"}]
  /\ parts \in Nat /\ kills \in Nat /\ lapses \in Nat
  /\ fetched \in [Traces -> SUBSET Seq(Entries)]
  /\ opened \in [Callers -> Seq(Entries)] /\ replaced \in [Callers -> BOOLEAN]
  /\ calls \in 0 .. MaxCalls /\ failures \in 0 .. MaxFailures /\ changes \in 0 .. MaxChanges

Init ==
  /\ file = [t \in Traces |-> None] /\ upstream \in [Traces -> Versions]
  /\ pc = [c \in Callers |-> "idle"] /\ todo = [c \in Callers |-> <<>>]
  /\ want = [c \in Callers |-> CHOOSE w \in Selections : TRUE] /\ source = [c \in Callers |-> <<>>]
  /\ temp = [c \in Callers |-> None]
  /\ total = [c \in Callers |-> 0] /\ limit = [c \in Callers |-> 0]
  /\ plan = [c \in Callers |-> <<>>] /\ rows = [c \in Callers |-> <<>>]
  /\ result = [c \in Callers |-> "none"] /\ parts = 0 /\ kills = 0
  /\ lapses = 0
  /\ fetched = [t \in Traces |-> {}] /\ opened = [c \in Callers |-> <<>>]
  /\ replaced = [c \in Callers |-> FALSE]
  /\ calls = 0 /\ failures = 0 /\ changes = 0

Failure == failures < MaxFailures /\ failures' = failures + 1
Goto(c, p) == pc' = [pc EXCEPT ![c] = p]
Ends(c, r) == Goto(c, "idle") /\ result' = [result EXCEPT ![c] = r]
Current(c) == file[Head(todo[c])]

-----------------------------------------------------------------------------
(* main records one trace; mooncake_cli takes one, or all of them.         *)
Lists(c) == {<<t>> : t \in Traces} \cup (IF c \in Checkers THEN {AllTraces} ELSE {})

Begin(c, ts, w) ==
  /\ pc[c] = "idle" /\ calls < MaxCalls /\ calls' = calls + 1
  /\ w.requests # None => c \in Recorders
  /\ todo' = [todo EXCEPT ![c] = ts] /\ want' = [want EXCEPT ![c] = w]
  /\ plan' = [plan EXCEPT ![c] = <<>>] /\ rows' = [rows EXCEPT ![c] = <<>>]
  /\ total' = [total EXCEPT ![c] = 0] /\ limit' = [limit EXCEPT ![c] = 0]
  /\ opened' = [opened EXCEPT ![c] = <<>>]
  /\ IF w.percent # None /\ w.requests # None
       THEN Ends(c, "error")
       ELSE Goto(c, "ensure") /\ result' = [result EXCEPT ![c] = "none"]
  /\ UNCHANGED <<file, upstream, source, temp, parts, kills, lapses, fetched, replaced,
                 failures, changes>>

(* The file is there; or it is not, and a temporary file is made, if       *)
(* download_if_missing says so.                                            *)
Ensure(c) ==
  /\ pc[c] = "ensure"
  /\ IF Current(c) # None
       THEN Goto(c, "count") /\ UNCHANGED <<temp, result>>
       ELSE \/ Goto(c, "made") /\ temp' = [temp EXCEPT ![c] = <<>>] /\ UNCHANGED result
            \/ Ends(c, "error") /\ UNCHANGED temp
  /\ plan' = [plan EXCEPT ![c] = <<>>]
  /\ UNCHANGED <<file, upstream, todo, want, source, total, limit, rows, parts, kills,
                 lapses, fetched, opened, replaced, calls, failures, changes>>

(* temporary_path is known from here on, and the URL is opened.            *)
Opens(c) ==
  /\ pc[c] = "made" /\ Goto(c, "download")
  /\ source' = [source EXCEPT ![c] = upstream[Head(todo[c])]]
  /\ UNCHANGED <<todo, want, temp, total, limit, plan, rows, result, opened>> /\ UNCHANGED shared

(* Mutant: the response is written to the path itself.                     *)
Copied_InPlace(c, s) ==
  /\ temp' = [temp EXCEPT ![c] = s]
  /\ file' = [file EXCEPT ![Head(todo[c])] = s]

(* What copyfileobj has copied so far.                                     *)
Copied(c, s) == temp' = [temp EXCEPT ![c] = s] /\ UNCHANGED file

Copy(c) ==
  /\ pc[c] = "download" /\ Len(temp[c]) < Len(source[c])
  /\ Copied(c, SubSeq(source[c], 1, Len(temp[c]) + 1))
  /\ UNCHANGED <<upstream, pc, todo, want, source, total, limit, plan, rows, result,
                 parts, kills, lapses, fetched, opened, replaced, calls, failures,
                 changes>>

(* The end of the response.                                                *)
Downloaded(c) ==
  /\ pc[c] = "download" /\ temp[c] = source[c] /\ Goto(c, "replace")
  /\ fetched' = [fetched EXCEPT ![Head(todo[c])] = @ \cup {temp[c]}]
  /\ UNCHANGED <<file, upstream, parts, kills, lapses, replaced, calls, failures,
                 changes>>
  /\ UNCHANGED locals

(* A connection closed early, perhaps in a line: read(n) of http.client    *)
(* returns no data then, which copyfileobj takes for the end.              *)
ConnectionCut(c) ==
  /\ pc[c] = "download" /\ Len(temp[c]) < Len(source[c]) /\ Failure /\ Goto(c, "replace")
  /\ \E line \in {<<>>, <<Bad>>} :
       /\ temp' = [temp EXCEPT ![c] = @ \o line]
       /\ fetched' = [fetched EXCEPT ![Head(todo[c])] = @ \cup {temp[c] \o line}]
  /\ UNCHANGED <<file, upstream, todo, want, source, total, limit, plan, rows, result,
                 parts, kills, lapses, opened, replaced, calls, changes>>

(* os.replace.                                                             *)
Replace(c) ==
  /\ pc[c] = "replace" /\ Goto(c, "count")
  /\ file' = [file EXCEPT ![Head(todo[c])] = temp[c]]
  /\ temp' = [temp EXCEPT ![c] = None] /\ source' = [source EXCEPT ![c] = <<>>]
  /\ replaced' = [d \in Callers |->
       replaced[d] \/ (pc[d] = "client" /\ Head(todo[d]) = Head(todo[c]))]
  /\ UNCHANGED <<upstream, todo, want, total, limit, plan, rows, result, parts, kills,
                 lapses, fetched, opened, calls, failures, changes>>

(* An error of the connection or the disk, or an interrupt: BaseException. *)
DownloadFails(c) ==
  /\ pc[c] \in {"download", "replace"} /\ Failure /\ Goto(c, "unlink")
  /\ UNCHANGED <<file, upstream, parts, kills, lapses, fetched, replaced, calls,
                 changes>>
  /\ UNCHANGED locals

(* Mutant: an exception leaves the temporary file.                         *)
Unlink_Not(c) == temp' = [temp EXCEPT ![c] = None] /\ parts' = parts + 1

(* The temporary file is unlinked.                                         *)
Unlink(c) == temp' = [temp EXCEPT ![c] = None] /\ UNCHANGED parts

(* The except clause.                                                      *)
CleansUp(c) ==
  /\ pc[c] = "unlink" /\ Ends(c, "error") /\ Unlink(c)
  /\ UNCHANGED <<file, upstream, todo, want, source, total, limit, plan, rows, kills,
                 lapses, fetched, opened, replaced, calls, failures, changes>>

(* An interrupt before temporary_path is known, or a second one, or an     *)
(* error, before the file is unlinked: nobody removes it.                  *)
Lapses(c) ==
  /\ \/ pc[c] = "made" /\ Failure
     \/ pc[c] = "unlink" /\ UNCHANGED failures
  /\ Ends(c, "error")
  /\ temp' = [temp EXCEPT ![c] = None] /\ parts' = parts + 1 /\ lapses' = lapses + 1
  /\ UNCHANGED <<file, upstream, todo, want, source, total, limit, plan, rows, kills,
                 fetched, opened, replaced, calls, changes>>

-----------------------------------------------------------------------------
(* _validated_entries yields the first n of them without an error.         *)
Validated(s, n) ==
  \A i \in 1 .. n :
    /\ s[i] # Bad
    /\ i > 1 => s[i - 1].time <= s[i].time

AtMost(a, b) == IF a <= b THEN a ELSE b

(* u / (100 * Percent) requests, rounded up to whole ones.                 *)
Ceil(u) == (u + 100 * Percent - 1) \div (100 * Percent)

(* total * percent / 100, rounded up.                                      *)
Exact(n, p) == Ceil(n * p)

(* What the product in floating point is off: nothing that a ceil tells,   *)
(* if the percentage is whole.                                             *)
Off(p) == IF p % Percent = 0 THEN 0 ELSE Slack

(* selected_limit: the ceil is that of a product of floats, above the      *)
(* exact one (64.4 percent of 250 give 162) or below it (3 requests times  *)
(* 33.333333333333336 percent give 1), but never above total.              *)
Limits(n, w) ==
  IF w.percent # None
    THEN {AtMost(n, Ceil(u)) :
            u \in n * w.percent - Off(w.percent) .. n * w.percent + Off(w.percent)}
  ELSE IF w.requests = None THEN {n} ELSE {w.requests}

(* Mutant: a trace that is refused is ensured once more.                   *)
Refuse_Retry(c) == Goto(c, "ensure") /\ UNCHANGED result

(* The trace is not valid, empty or too short.                             *)
Refuse(c) == Ends(c, "error")

(* The first pass: everything is counted, and the limit follows.           *)
Count(c) ==
  /\ pc[c] = "count"
  /\ LET s == Current(c) n == Len(Current(c)) IN
       IF Validated(s, n) /\ n > 0
         THEN \E l \in Limits(n, want[c]) :
                /\ total' = [total EXCEPT ![c] = n] /\ limit' = [limit EXCEPT ![c] = l]
                /\ IF n < l THEN Refuse(c) ELSE Goto(c, "sum") /\ UNCHANGED result
         ELSE Refuse(c) /\ UNCHANGED <<total, limit>>
  /\ UNCHANGED <<todo, want, source, temp, plan, rows, opened>> /\ UNCHANGED shared

(* Mutant: the entry after the last one is taken before the loop ends.     *)
Selected_OneMore(s, l) == AtMost(l + 1, Len(s))

(* How many entries the second pass takes.                                 *)
Selected(s, l) == AtMost(l, Len(s))

(* The loop has the next entry when it finds the limit reached.            *)
Sum(c) ==
  /\ pc[c] = "sum"
  /\ LET s == Current(c) n == Selected(s, limit[c]) IN
       /\ opened' = [opened EXCEPT ![c] = s]
       /\ IF Validated(s, AtMost(limit[c] + 1, Len(s))) /\ n > 0
            THEN /\ plan' = [plan EXCEPT ![c] = SubSeq(s, 1, n)]
                 /\ \/ /\ c \in Recorders /\ UNCHANGED todo
                       /\ IF \E i \in 1 .. n : s[i].tokens > MaxModelLen
                            THEN Ends(c, "error")
                            ELSE Goto(c, "client") /\ UNCHANGED result
                    \/ /\ c \in Checkers /\ todo' = [todo EXCEPT ![c] = Tail(@)]
                       /\ IF Tail(todo[c]) = <<>>
                            THEN Ends(c, "ok")
                            ELSE Goto(c, "ensure") /\ UNCHANGED result
            ELSE Ends(c, "error") /\ UNCHANGED <<todo, plan>>
  /\ replaced' = [replaced EXCEPT ![c] = FALSE]
  /\ UNCHANGED <<file, upstream, want, source, temp, total, limit, rows, parts, kills,
                 lapses, fetched, calls, failures, changes>>

(* Mutant: the whole trace is asked for.                                   *)
NumPrompts_Total(c) == total[c]

(* --num-prompts of the client's command.                                  *)
NumPrompts(c) == Len(plan[c])

(* vllm bench serve reads the trace and sends its first requests.          *)
Client(c) ==
  /\ pc[c] = "client"
  /\ LET s == Current(c) n == AtMost(NumPrompts(c), Len(Current(c))) IN
       IF Validated(s, n)
         THEN Goto(c, "stats") /\ rows' = [rows EXCEPT ![c] = SubSeq(s, 1, n)]
              /\ UNCHANGED result
         ELSE Ends(c, "error") /\ UNCHANGED rows
  /\ UNCHANGED <<todo, want, source, temp, total, limit, plan, opened>> /\ UNCHANGED shared

(* Its result is read: one entry per request in each array, or an error.   *)
WriteStats(c) ==
  /\ pc[c] = "stats"
  /\ \/ Ends(c, "ok") /\ UNCHANGED failures
     \/ Failure /\ Ends(c, "error")
  /\ UNCHANGED <<file, upstream, todo, want, source, temp, total, limit, plan, rows,
                 parts, kills, lapses, fetched, opened, replaced, calls, changes>>

Steps(c) ==
  \/ Ensure(c) \/ Opens(c) \/ Copy(c) \/ Downloaded(c) \/ Replace(c) \/ CleansUp(c)
  \/ Count(c) \/ Sum(c) \/ Client(c) \/ WriteStats(c)

(* SIGKILL: a temporary file stays.                                        *)
Killed(c) ==
  /\ pc[c] # "idle" /\ Failure /\ Ends(c, "error")
  /\ temp' = [temp EXCEPT ![c] = None]
  /\ IF temp[c] = None THEN UNCHANGED <<parts, kills, lapses>>
     ELSE parts' = parts + 1 /\ kills' = kills + 1 /\ UNCHANGED lapses
  /\ UNCHANGED <<file, upstream, todo, want, source, total, limit, plan, rows, fetched,
                 opened, replaced, calls, changes>>

NewVersion(t, v) ==
  /\ changes < MaxChanges /\ changes' = changes + 1
  /\ upstream' = [upstream EXCEPT ![t] = v]
  /\ UNCHANGED <<file, pc, parts, kills, lapses, fetched, replaced, calls, failures>> /\ UNCHANGED locals

Next ==
  \/ \E c \in Callers, w \in Selections : \E ts \in Lists(c) : Begin(c, ts, w)
  \/ \E c \in Callers : Steps(c) \/ ConnectionCut(c) \/ DownloadFails(c) \/ Lapses(c) \/ Killed(c)
  \/ \E t \in Traces, v \in Versions : NewVersion(t, v)

Spec == Init /\ [][Next]_vars
FairSpec == Spec /\ \A c \in Callers : WF_vars(Steps(c))

-----------------------------------------------------------------------------
(* Properties.                                                             *)

(* Whatever fails, is killed or runs at the same time, what is at the path *)
(* of a trace is one response from its beginning to what the code took for *)
(* its end: never a part of a download, never two mixed ("atomically       *)
(* downloading", mooncake.py:55).                                          *)
FileIsAResponse ==
  \A t \in Traces : file[t] # None => file[t] \in fetched[t]

(* A plan is about the beginning of one file, in order and without gaps:   *)
(* never the counts of one version with the tokens of another, also when   *)
(* the file is replaced between the passes.  It has as many requests as    *)
(* were asked for, and fewer only if the second file is shorter.           *)
PlanIsPrefix ==
  \A c \in Callers : plan[c] # <<>> =>
    /\ plan[c] = SubSeq(opened[c], 1, Len(plan[c]))
    /\ Len(plan[c]) = limit[c] \/ Len(plan[c]) = Len(opened[c])
    /\ Len(plan[c]) <= limit[c] /\ Len(plan[c]) <= total[c]

(* A whole percentage selects what it says of the counted requests,        *)
(* rounded up; another one at most one request more or less.               *)
PercentIsKept ==
  \A c \in Callers : (pc[c] = "sum" /\ want[c].percent # None) =>
    LET e == Exact(total[c], want[c].percent) IN
      /\ limit[c] \in e - 1 .. e + 1
      /\ want[c].percent % Percent = 0 => limit[c] = e

(* What is recorded is what was planned, and fits the model, unless        *)
(* another call has replaced the trace in between.                         *)
RecordedIsPlanned ==
  \A c \in Recorders : (result[c] = "ok" /\ ~replaced[c]) =>
    /\ rows[c] = plan[c]
    /\ \A i \in DOMAIN rows[c] : rows[c][i].tokens <= MaxModelLen

(* A temporary file is that of a running download, or of one that was      *)
(* killed, or interrupted before its path was known or while it was being  *)
(* cleaned up: no error of the connection or the disk, no cut connection,  *)
(* and no interrupt of the download itself leaves one.                     *)
PartsAreExplained ==
  /\ parts = kills + lapses
  /\ \A c \in Callers : temp[c] # None => pc[c] \in {"made", "download", "replace", "unlink"}

(* What holds of the files, and of the plans.                              *)
FilesInv == TypeOK /\ FileIsAResponse /\ PartsAreExplained

PlansInv == PlanIsPrefix /\ PercentIsKept

(* Every call ends, with a plan or an error.                               *)
CallsEnd == \A c \in Callers : pc[c] # "idle" ~> pc[c] = "idle"

-----------------------------------------------------------------------------
(* What a text says and the code does not do (README, section 8).          *)

(* "downloading the official file" (mooncake.py:55).                       *)
FileIsOfficial == \A t \in Traces : file[t] # None => file[t] \in Versions

(* "10은 전체 trace의 10%" (recorder.md:253).                                   *)
PercentIsExact ==
  \A c \in Callers : (pc[c] = "sum" /\ want[c].percent # None) =>
    limit[c] = Exact(total[c], want[c].percent)

=============================================================================
