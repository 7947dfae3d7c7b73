-------------------------- MODULE ReplaySweepProofs --------------------------
(***************************************************************************)
(* Proofs about the sweeps of ReplaySweep and the sweeps of sweeps of      *)
(* ReplayMatrix, for any calls, each with its list, roots and directories: *)
(* what a replay finds in its L2 root and its directory, what the CSV is   *)
(* about, and what the exit codes say.                                     *)
(***************************************************************************)
EXTENDS ReplayMatrix, SequenceTheorems, TLAPS

(* A replay that is running has its number to itself.                      *)
NumbersInv ==
  /\ first <= replay /\ (at = "running" => first < replay)
  /\ at # "idle" => exit = "none"
  /\ exit = "zero" => overallStatus = "zero"
  /\ \A f \in Files : \A i \in DOMAIN results[f] :
       LET rec == results[f][i] IN
       /\ rec.replay <= replay /\ (at = "running" => rec.replay < replay)
       /\ rec.replay \notin Orphaned
       /\ rec.status = "ok" => rec.returncode = "zero"
  /\ \A o \in orphans : o.replay <= replay /\ (at = "running" => o.replay < replay)
  /\ at = "running" /\ path # None =>
       ~call.dry /\ path = root /\ replay \in out[dir][entry]

(* The entries that are behind the first n of the list.                    *)
Behind(n) == SubSeq(list, n + 1, Len(list))

(* The entries a sweep has taken, and the replays it has started.          *)
Taken == Len(results[file]) + (IF at = "running" THEN 1 ELSE 0)

(* The sweep is at its place of the list, but for a list that ssh has read.*)
PlaceInv ==
  at # "idle" =>
    /\ Taken \in 0 .. Len(list)
    /\ input = Behind(Taken) \/ (input = <<>> /\ call.profile # None /\ ~call.dry)
    /\ at = "running" => entry = list[Taken]

(* The L2 root of a sweep has its own blocks.                              *)
RootInv ==
  \A n \in l2[root] :
    /\ at # "idle" /\ call.keep => n > first \/ n \in Orphaned
    /\ at = "running" /\ ~call.dry => n = replay \/ (call.keep /\ n > first) \/ n \in Orphaned

(* The directories of a sweep were empty when it began.                    *)
OutInv ==
  /\ at # "idle" => \A e \in ToSet(list) : \A m \in out[dir][e] : m > first \/ m \in Orphaned
  /\ \A d \in Dirs : \A e \in Cases : stats[d][e] # None => stats[d][e].replay \in out[d][e]

(* The records of the sweep, or of the last one if it ended with 0.        *)
RecordsInv ==
  at # "idle" \/ exit = "zero" =>
    \A i \in DOMAIN results[file] :
      LET rec == results[file][i] IN
      /\ i <= Len(list) /\ rec.entry = list[i] /\ rec.replay > first
      /\ \A j \in DOMAIN results[file] : j < i => results[file][j].replay < rec.replay
      /\ overallStatus = "zero" => rec.returncode = "zero"
      /\ rec.returncode = "zero" /\ ~call.dry => rec.status = "ok"

(* Without --io-profile, exit code 0 is at the end of the list.            *)
Unprofiled == \A c \in Calls : c.profile = None \/ c.dry
EndInv == exit = "zero" => Len(results[file]) = Len(list)

(* Statistics are of a replay with a record for their case, or of a replay *)
(* of a killed sweep.                                                      *)
StatsInv ==
  at # "idle" => \A e \in ToSet(list) :
    stats[dir][e] # None /\ stats[dir][e].replay \notin Orphaned =>
      \E i \in DOMAIN results[file] :
        results[file][i].entry = e /\ results[file][i].replay = stats[dir][e].replay

(* No name is in a list twice.                                             *)
NoEntryTwice ==
  \A c \in Calls : \A i, j \in DOMAIN c.entries : i # j => c.entries[i] # c.entries[j]

(* The sweep of sweeps is at its place of its list.                        *)
MatrixInv ==
  /\ outerExit \in Codes => matrix = "idle" /\ at = "idle"
  /\ matrix = "next" => at = "idle"
  /\ matrix = "inner" =>
       /\ left # <<>> /\ call = Head(left) /\ before <= first
       /\ at = "idle" => exit \in Codes
  /\ matrix # "idle" =>
       /\ outerExit = "none"
       /\ Len(records) <= Len(current.items)
       /\ left = SubSeq(current.items, Len(records) + 1, Len(current.items))
       /\ \A i \in DOMAIN records : records[i].item = current.items[i]
       /\ outerStatus = "zero" <=> \A i \in DOMAIN records : records[i].returncode = "zero"

(* What is complete stays so, until the same directory is swept again.     *)
Full(f, cases) == \A e \in cases : \E i \in DOMAIN results[f] :
  results[f][i].entry = e /\ results[f][i].returncode = "zero" /\ results[f][i].replay > before

FullInv ==
  matrix # "idle" /\ outerStatus = "zero" =>
    \A i \in DOMAIN records :
      LET item == records[i].item IN
      Full(File(item), ToSet(item.entries)) \/ (matrix = "inner" /\ file = File(item))

(* What a sweep, or a step of the outer sweep, does to the variables of a  *)
(* sweep.                                                                  *)
Inactive == UNCHANGED <<at, call, input, entry, path, overallStatus, exit, results, csv, l2, out,
                        stats, replay, first, succeeded, orphans, sweeps>>

SweepNext == (\E c \in Calls : Sweep(c)) \/ Running \/ (Inactive /\ failures' \in 0 .. MaxFailures)

SweepInv == TypeOK /\ NumbersInv /\ PlaceInv /\ RootInv /\ OutInv /\ RecordsInv

-----------------------------------------------------------------------------
(* Lemmas about the operators.                                             *)

(* A sequence without its first n elements.                                *)
LEMMA Suffix ==
  ASSUME NEW S, NEW s \in Seq(S), NEW n \in 0 .. Len(s)
  PROVE  /\ Len(SubSeq(s, n + 1, Len(s))) = Len(s) - n
         /\ n < Len(s) => /\ Head(SubSeq(s, n + 1, Len(s))) = s[n + 1]
                          /\ Tail(SubSeq(s, n + 1, Len(s))) = SubSeq(s, n + 2, Len(s))
         /\ n = Len(s) <=> SubSeq(s, n + 1, Len(s)) = <<>>
<1>1. Len(s) \in Nat /\ n \in Nat
  BY LenProperties
<1>2. \A i \in n + 1 .. Len(s) : s[i] \in S
  BY <1>1, LenProperties
<1>3. Len(SubSeq(s, n + 1, Len(s))) = Len(s) - n
  BY <1>1, <1>2, SubSeqProperties
<1>4. ASSUME n < Len(s)
      PROVE  /\ Head(SubSeq(s, n + 1, Len(s))) = s[n + 1]
             /\ Tail(SubSeq(s, n + 1, Len(s))) = SubSeq(s, n + 2, Len(s))
  BY <1>1, <1>4, HeadTailOfSubSeq
<1>5. n = Len(s) => SubSeq(s, n + 1, Len(s)) = <<>>
  BY <1>1, SubSeqEmpty
<1>6. SubSeq(s, n + 1, Len(s)) = <<>> => n = Len(s)
  BY <1>1, <1>3
<1> QED
  BY <1>3, <1>4, <1>5, <1>6

(* The list of a call, its file, and what is behind n of its entries.      *)
LEMMA ListFacts ==
  ASSUME NEW c \in Calls
  PROVE  /\ c.entries \in Seq(Cases) /\ Len(c.entries) \in Nat \ {0}
         /\ DOMAIN c.entries = 1 .. Len(c.entries)
         /\ ToSet(c.entries) = {c.entries[i] : i \in 1 .. Len(c.entries)}
         /\ ToSet(c.entries) \subseteq Cases
         /\ SubSeq(c.entries, 1, Len(c.entries)) = c.entries
         /\ c.dir \in Dirs /\ File(c) \in Files
<1>1. c.entries \in Seq(Cases) /\ c.entries # <<>>
  BY SweepAssumption
<1>2. Len(c.entries) \in Nat \ {0} /\ DOMAIN c.entries = 1 .. Len(c.entries)
  BY <1>1, LenProperties, EmptySeq
<1>3. ToSet(c.entries) = {c.entries[i] : i \in 1 .. Len(c.entries)}
  BY <1>2 DEF ToSet
<1>4. \A i \in 1 .. Len(c.entries) : c.entries[i] \in Cases
  BY <1>1, LenProperties
<1>5. c.dir \in Dirs /\ File(c) \in Files
  BY SweepAssumption DEF File, Files
<1> QED
  BY <1>1, <1>2, <1>3, <1>4, <1>5, SubSeqFull

LEMMA TheList ==
  ASSUME TypeOK
  PROVE  /\ list \in Seq(Cases) /\ Len(list) \in Nat \ {0}
         /\ DOMAIN list = 1 .. Len(list)
         /\ ToSet(list) = {list[i] : i \in 1 .. Len(list)} /\ ToSet(list) \subseteq Cases
<1>1. call \in Calls
  BY DEF TypeOK
<1> QED
  BY <1>1, ListFacts DEF list

LEMMA BehindFacts ==
  ASSUME TypeOK, NEW n \in 0 .. Len(list)
  PROVE  /\ n < Len(list) => Head(Behind(n)) = list[n + 1] /\ Tail(Behind(n)) = Behind(n + 1)
         /\ n = Len(list) <=> Behind(n) = <<>>
<1>1. list \in Seq(Cases) /\ Len(list) \in Nat /\ n \in Nat
  BY TheList
<1> QED
  BY <1>1, Suffix DEF Behind

(* The path of an accepted replay is the root that is reset.               *)
LEMMA UsedPathIsRoot ==
  Accepted => UsedPath = root
BY DEF Accepted, UsedPath, Overridden

(* The options of the sweep.                                               *)
LEMMA CallFacts ==
  ASSUME TypeOK
  PROVE  /\ root \in Roots /\ dir \in Dirs /\ call \in Calls /\ root # None
         /\ call.keep \in BOOLEAN /\ call.dry \in BOOLEAN
         /\ call.script \in Scripts /\ file \in Files /\ file = <<dir, call.script>>
<1>1. call \in Calls
  BY DEF TypeOK
<1> QED
  BY <1>1, ListFacts, SweepAssumption DEF root, dir, file, File

(* What is appended to the records of a directory.                         *)
LEMMA RecordFacts ==
  ASSUME TypeOK, NEW code \in {"zero", "nonzero"}, Record(code), replay # 0
  PROVE  /\ results' \in [Files -> Seq(Records)]
         /\ \A f \in Files \ {file} : results'[f] = results[f]
         /\ Len(results'[file]) = Len(results[file]) + 1
         /\ \A i \in DOMAIN results[file] : results'[file][i] = results[file][i]
         /\ DOMAIN results'[file] = DOMAIN results[file] \cup {Len(results[file]) + 1}
         /\ results'[file][Len(results[file]) + 1] =
              [entry |-> entry, replay |-> replay, returncode |-> code, status |-> Status(code)]
         /\ DOMAIN results[file] = 1 .. Len(results[file]) /\ Len(results[file]) \in Nat
<1> DEFINE rec == [entry |-> entry, replay |-> replay, returncode |-> code, status |-> Status(code)]
<1>1. file \in Files /\ results[file] \in Seq(Records) /\ DOMAIN results = Files
  BY CallFacts DEF TypeOK
<1>2. rec \in Records
  BY DEF TypeOK, Records, Status
<1>3. results' = [results EXCEPT ![file] = Append(@, rec)]
  BY DEF Record
<1> HIDE DEF rec
<1>4. /\ Append(results[file], rec) \in Seq(Records)
      /\ Len(Append(results[file], rec)) = Len(results[file]) + 1
      /\ \A i \in 1 .. Len(results[file]) : Append(results[file], rec)[i] = results[file][i]
      /\ Append(results[file], rec)[Len(results[file]) + 1] = rec
      /\ DOMAIN results[file] = 1 .. Len(results[file]) /\ Len(results[file]) \in Nat
  BY <1>1, <1>2, AppendProperties, LenProperties
<1>5. results'[file] = Append(results[file], rec)
  BY <1>1, <1>3
<1>6. DOMAIN results'[file] = 1 .. Len(results[file]) + 1
  BY <1>4, <1>5, LenProperties
<1>7. results' \in [Files -> Seq(Records)] /\ \A f \in Files \ {file} : results'[f] = results[f]
  BY <1>1, <1>3, <1>4 DEF TypeOK
<1> QED
  BY <1>4, <1>5, <1>6, <1>7 DEF rec

-----------------------------------------------------------------------------
(* The numbers of the replays, and the places of the sweep.                *)

LEMMA PlaceStep ==
  ASSUME SweepInv, SweepNext
  PROVE  PlaceInv'
<1>t. /\ TypeOK /\ NumbersInv /\ PlaceInv
  BY DEF SweepInv
<1>d. /\ file \in Files /\ replay \in Nat /\ DOMAIN results = Files
      /\ Len(results[file]) \in Nat /\ at \in {"idle", "next", "running"} /\ Len(list) \in Nat
  BY <1>t, CallFacts, TheList, LenProperties DEF TypeOK, Replays
<1>1. ASSUME NEW c \in Calls, Sweep(c) PROVE PlaceInv'
  <2>1. CASE at' = "idle"
    BY <2>1 DEF PlaceInv
  <2>2. CASE at' # "idle"
    <3>1. /\ at' = "next" /\ input' = c.entries /\ call' = c
          /\ results' = [results EXCEPT ![File(c)] = <<>>]
      BY <1>1, <2>2 DEF Sweep, Exits
    <3>2. file' = File(c) /\ File(c) \in Files /\ list' = c.entries
      BY <3>1, ListFacts DEF file, list, File
    <3>3. Len(results'[file']) = 0
      BY <1>d, <3>1, <3>2
    <3>4. Taken' = 0
      BY <3>1, <3>3 DEF Taken
    <3>5. /\ Len(c.entries) \in Nat \ {0}
          /\ SubSeq(c.entries, 1, Len(c.entries)) = c.entries
      BY ListFacts
    <3>6. SubSeq(list', Taken' + 1, Len(list')) = input'
      BY <3>1, <3>2, <3>4, <3>5
    <3>7. Taken' \in 0 .. Len(list')
      BY <3>2, <3>4, <3>5
    <3> QED
      BY <3>1, <3>6, <3>7 DEF PlaceInv, Behind
  <2> QED
    BY <2>1, <2>2
<1>2. CASE Replay
  <2>1. /\ at = "next" /\ input # <<>> /\ at' = "running" /\ UNCHANGED <<call, results>>
        /\ entry' = Head(input) /\ input' = Tail(input)
    BY <1>2 DEF Replay, Rest
  <2>l. list' = list /\ file' = file
    BY <2>1 DEF list, file, File
  <2>2. Taken = Len(results[file]) /\ Taken' = Taken + 1 /\ Taken \in 0 .. Len(list)
        /\ input = Behind(Taken)
    BY <1>t, <1>d, <2>1, <2>l DEF PlaceInv, Taken
  <2>3. Taken < Len(list)
    BY <1>d, <1>t, <2>1, <2>2, BehindFacts
  <2>4. input' = Behind(Taken + 1) /\ entry' = list[Taken + 1]
    BY <1>t, <2>1, <2>2, <2>3, BehindFacts
  <2>6. Taken' \in 0 .. Len(list') /\ entry' = list'[Taken']
    BY <1>d, <2>l, <2>2, <2>3, <2>4
  <2>7. input' = SubSeq(list', Taken' + 1, Len(list'))
    BY <2>l, <2>2, <2>4 DEF Behind
  <2> QED
    BY <2>1, <2>6, <2>7 DEF PlaceInv, Behind
<1>3. CASE Returns
  <2>1. PICK code \in {"zero", "nonzero"} : Record(code)
    BY <1>3 DEF Returns
  <2>2. at = "running" /\ at' = "next" /\ UNCHANGED <<call, entry, replay>> /\ input' \in InputLeft
    BY <1>3 DEF Returns
  <2>0. replay # 0
    BY <1>t, <2>2 DEF NumbersInv, TypeOK, Replays
  <2>3. Len(results'[file]) = Len(results[file]) + 1
    BY <1>t, <2>0, <2>1, RecordFacts
  <2>l. list' = list /\ file' = file
    BY <2>2 DEF list, file, File
  <2>4. Taken' = Taken /\ Taken \in Nat
    BY <1>d, <2>2, <2>3, <2>l DEF Taken
  <2>5. input' = input \/ (input' = <<>> /\ call.profile # None /\ ~call.dry)
    BY <2>2 DEF InputLeft
  <2> QED
    BY <1>t, <2>2, <2>l, <2>4, <2>5 DEF PlaceInv, Behind
<1>4. CASE at' = "idle"
  BY <1>4 DEF PlaceInv
<1>5. CASE UNCHANGED <<at, call, input, entry, results>>
  BY <1>t, <1>5 DEF PlaceInv, Taken, Behind, list, file, File
<1>6. (Report \/ Interrupted \/ Killed) => at' = "idle"
  BY DEF Report, Interrupted, Killed, Exits
<1>7. ASSUME Writes \/ Inactive \/ \E o \in orphans : OrphanWrites(o) \/ OrphanEnds(o)
      PROVE  UNCHANGED <<at, call, input, entry, results>>
  BY <1>7 DEF Writes, Inactive, OrphanWrites, OrphanEnds
<1> QED
  BY <1>1, <1>2, <1>3, <1>4, <1>5, <1>6, <1>7 DEF SweepNext, Running

-----------------------------------------------------------------------------
(* The types.                                                              *)

LEMMA ReplaysAreNumbers ==
  Replays \subseteq Nat \ {0} /\ \A n \in Nat : n # 0 => n \in Replays
BY DEF Replays

LEMMA TypeStep ==
  ASSUME SweepInv, SweepNext
  PROVE  TypeOK'
<1>t. TypeOK /\ NumbersInv /\ MaxFailures \in Nat /\ MaxSweeps \in Nat
  BY SweepAssumption DEF SweepInv
<1>c. /\ root \in Roots /\ dir \in Dirs /\ call \in Calls /\ entry \in Cases
      /\ replay \in Nat /\ first \in Nat /\ (at = "running" => replay \in Replays)
      /\ (at = "running" => replay # 0)
  BY <1>t, CallFacts, ReplaysAreNumbers DEF TypeOK, NumbersInv
<1>1. ASSUME NEW c \in Calls, Sweep(c) PROVE TypeOK'
  <2>1. sweeps' \in 0 .. MaxSweeps /\ File(c) \in Files
    BY <1>t, <1>1, ListFacts DEF TypeOK, Sweep
  <2>2. results' \in [Files -> Seq(Records)]
    <3>1. results' = results \/ results' = [results EXCEPT ![File(c)] = <<>>]
      BY <1>1 DEF Sweep
    <3>2. <<>> \in Seq(Records) /\ results \in [Files -> Seq(Records)]
      BY <1>t DEF TypeOK
    <3> QED
      BY <3>1, <3>2
  <2>3. input' \in Seq(Cases)
    BY <1>t, <1>1, ListFacts DEF TypeOK, Sweep
  <2>4. at' \in {"idle", "next", "running"} /\ exit' \in {"none", "zero", "nonzero"}
        /\ overallStatus' \in {"zero", "nonzero"} /\ call' \in Calls
    BY <1>t, <1>1 DEF TypeOK, Sweep, Exits
  <2> QED
    BY <1>t, <1>1, <2>1, <2>2, <2>3, <2>4 DEF TypeOK, Sweep
<1>2. CASE Replay
  <2>2. replay' \in Replays \cup {0}
    BY <1>c, <1>2, ReplaysAreNumbers DEF Replay
  <2>3. entry' \in Cases /\ input' \in Seq(Cases)
    <3>1. input # <<>> /\ entry' = Head(input) /\ input' = Tail(input) /\ input \in Seq(Cases)
      BY <1>t, <1>2 DEF Replay, Rest, TypeOK
    <3> QED
      BY <3>1, HeadTailProperties
  <2>4. l2' \in [Roots -> SUBSET Replays]
    BY <1>t, <1>2 DEF TypeOK, Replay, ResetL2
  <2> QED
    BY <1>t, <1>2, <2>2, <2>3, <2>4 DEF TypeOK, Replay
<1>3. CASE Writes
  <2>1. path' = root /\ replay \in Replays
    BY <1>c, <1>3, UsedPathIsRoot DEF Writes
  <2>2. l2' \in [Roots -> SUBSET Replays]
    BY <1>t, <1>c, <1>3, <2>1 DEF TypeOK, Writes
  <2>3. out' \in [Dirs -> [Cases -> SUBSET Replays]]
    <3>1. [out[dir] EXCEPT ![entry] = @ \cup {replay}] \in [Cases -> SUBSET Replays]
      BY <1>t, <1>c, <2>1 DEF TypeOK
    <3> QED
      BY <1>t, <1>3, <3>1 DEF TypeOK, Writes
  <2> QED
    BY <1>t, <1>c, <1>3, <2>1, <2>2, <2>3 DEF TypeOK, Writes
<1>4. CASE Returns
  <2>1. PICK code \in {"zero", "nonzero"}, json \in BOOLEAN :
          Record(code) /\ overallStatus' = Overall(code) /\ Statistics(json)
    BY <1>4 DEF Returns
  <2>f. failures' \in 0 .. MaxFailures
    BY <1>t, <1>4 DEF TypeOK, Returns, Failure
  <2>2. at = "running" /\ at' = "next" /\ replay \in Replays
    BY <1>c, <1>4 DEF Returns
  <2>3. input' \in Seq(Cases)
    <3>1. input \in Seq(Cases) /\ <<>> \in Seq(Cases)
      BY <1>t DEF TypeOK
    <3>2. input' = input \/ input' = <<>>
      BY <1>4 DEF Returns, InputLeft
    <3> QED
      BY <3>1, <3>2
  <2>4. results' \in [Files -> Seq(Records)]
    BY <1>t, <1>c, <2>1, <2>2, RecordFacts
  <2>s. succeeded' \in [Dirs -> SUBSET Rows]
    <3>1. succeeded \in [Dirs -> SUBSET Rows] /\ [entry |-> entry, replay |-> replay] \in Rows
      BY <1>t, <1>c, <2>2 DEF TypeOK, Rows
    <3>2. \/ succeeded' = succeeded
          \/ succeeded' = [succeeded EXCEPT ![dir] = @ \cup {[entry |-> entry, replay |-> replay]}]
      BY <2>1 DEF Record
    <3> QED
      BY <1>c, <3>1, <3>2
  <2>5. stats' \in [Dirs -> [Cases -> [replay : Replays, json : BOOLEAN] \cup {None}]]
    <3>1. [stats[dir] EXCEPT ![entry] = [replay |-> replay, json |-> json]]
            \in [Cases -> [replay : Replays, json : BOOLEAN] \cup {None}]
      BY <1>t, <1>c, <2>2 DEF TypeOK
    <3> QED
      BY <1>t, <2>1, <3>1 DEF TypeOK, Statistics
  <2>6. overallStatus' \in {"zero", "nonzero"}
    BY <1>t, <2>1 DEF TypeOK, Overall
  <2> QED
    BY <1>t, <1>4, <2>2, <2>f, <2>3, <2>4, <2>s, <2>5, <2>6 DEF TypeOK, Returns
<1>5. CASE Report
  <2>f. failures' \in 0 .. MaxFailures
    BY <1>t, <1>5 DEF TypeOK, Report, Failure
  <2>1. at' = "idle" /\ exit' \in {"none", "zero", "nonzero"}
    BY <1>t, <1>5 DEF TypeOK, Report, Exits
  <2>2. /\ DOMAIN csv' = Dirs
        /\ \A d \in Dirs : DOMAIN csv'[d] \subseteq Nat /\ csv'[d] \in [DOMAIN csv'[d] -> Rows]
    <3> DEFINE chosen == {i \in DOMAIN results[file] : Selected(results[file][i])}
               rows == [i \in chosen |-> [entry |-> results[file][i].entry,
                                         replay |-> stats[dir][results[file][i].entry].replay]]
    <3>1. csv' = csv \/ csv' = [csv EXCEPT ![dir] = rows]
      BY <1>5 DEF Report
    <3>0. results[file] \in Seq(Records)
      BY <1>t, CallFacts DEF TypeOK
    <3>2. chosen \subseteq Nat
      BY <3>0, LenProperties
    <3>3. ASSUME NEW i \in chosen PROVE rows[i] \in Rows
      <4>1. results[file][i] \in Records /\ stats[dir][results[file][i].entry] # None
        BY <3>0, LenProperties DEF Selected
      <4>2. results[file][i].entry \in Cases
        BY <4>1 DEF Records
      <4>3. stats[dir][results[file][i].entry] \in [replay : Replays, json : BOOLEAN]
        BY <1>t, <1>c, <4>1, <4>2 DEF TypeOK
      <4> QED
        BY <4>2, <4>3 DEF Rows
    <3>4. rows \in [chosen -> Rows] /\ DOMAIN rows = chosen
      BY <3>3
    <3>5. DOMAIN rows \subseteq Nat /\ rows \in [DOMAIN rows -> Rows]
      BY <3>2, <3>4
    <3> HIDE DEF rows
    <3>6. /\ DOMAIN csv = Dirs
          /\ \A d \in Dirs : DOMAIN csv[d] \subseteq Nat /\ csv[d] \in [DOMAIN csv[d] -> Rows]
      BY <1>t DEF TypeOK
    <3>7. CASE csv' = [csv EXCEPT ![dir] = rows]
      <4>1. DOMAIN csv' = Dirs /\ \A d \in Dirs : csv'[d] = IF d = dir THEN rows ELSE csv[d]
        BY <3>6, <3>7
      <4> QED
        BY <3>5, <3>6, <4>1
    <3> QED
      BY <3>1, <3>6, <3>7
  <2> QED
    BY <1>t, <1>5, <2>f, <2>1, <2>2 DEF TypeOK, Report
<1>6. CASE Interrupted
  <2>f. failures' \in 0 .. MaxFailures
    BY <1>t, <1>6 DEF TypeOK, Interrupted, Failure
  <2> QED
    BY <1>t, <1>6, <2>f DEF TypeOK, Interrupted, Exits
<1>7. CASE Killed
  <2>f. failures' \in 0 .. MaxFailures
    BY <1>t, <1>7 DEF TypeOK, Killed, Failure
  <2>1. orphans' \subseteq [replay : Replays, root : Roots, dir : Dirs, entry : Cases]
    BY <1>t, <1>c, <1>7, UsedPathIsRoot DEF TypeOK, Killed
  <2> QED
    BY <1>t, <1>7, <2>f, <2>1 DEF TypeOK, Killed, Exits
<1>8. ASSUME NEW o \in orphans, OrphanWrites(o) PROVE TypeOK'
  <2>1. o \in [replay : Replays, root : Roots, dir : Dirs, entry : Cases]
    BY <1>t, <1>8 DEF TypeOK
  <2>2. l2' \in [Roots -> SUBSET Replays]
    BY <1>t, <1>8, <2>1 DEF TypeOK, OrphanWrites
  <2>3. out' \in [Dirs -> [Cases -> SUBSET Replays]]
    <3>1. [out[o.dir] EXCEPT ![o.entry] = @ \cup {o.replay}] \in [Cases -> SUBSET Replays]
      BY <1>t, <2>1 DEF TypeOK
    <3> QED
      BY <1>t, <1>8, <3>1 DEF TypeOK, OrphanWrites
  <2> QED
    BY <1>t, <1>8, <2>2, <2>3 DEF TypeOK, OrphanWrites
<1>9. ASSUME NEW o \in orphans, OrphanEnds(o) PROVE TypeOK'
  <2>1. o \in [replay : Replays, root : Roots, dir : Dirs, entry : Cases]
    BY <1>t, <1>9 DEF TypeOK
  <2>2. stats' \in [Dirs -> [Cases -> [replay : Replays, json : BOOLEAN] \cup {None}]]
    <3>1. [stats[o.dir] EXCEPT ![o.entry] = [replay |-> o.replay, json |-> TRUE]]
            \in [Cases -> [replay : Replays, json : BOOLEAN] \cup {None}]
      BY <1>t, <2>1 DEF TypeOK
    <3> QED
      BY <1>t, <1>9, <3>1 DEF TypeOK, OrphanEnds
  <2> QED
    BY <1>t, <1>9, <2>2 DEF TypeOK, OrphanEnds
<1>10. CASE Inactive /\ failures' \in 0 .. MaxFailures
  BY <1>t, <1>10 DEF Inactive, TypeOK
<1> QED
  BY <1>1, <1>2, <1>3, <1>4, <1>5, <1>6, <1>7, <1>8, <1>9, <1>10 DEF SweepNext, Running

-----------------------------------------------------------------------------
(* The numbers of the replays.                                             *)

(* Where the records come from: a sweep forgets those of its directory, a  *)
(* replay that returns adds its own.                                       *)
LEMMA RecordsKeep ==
  ASSUME SweepInv, SweepNext, ~Returns
  PROVE  \A f \in Files : results'[f] = results[f] \/ results'[f] = <<>>
<1>1. TypeOK
  BY DEF SweepInv
<1>2. ASSUME NEW c \in Calls, Sweep(c)
      PROVE  \A f \in Files : results'[f] = results[f] \/ results'[f] = <<>>
  <2>1. results' = results \/ results' = [results EXCEPT ![File(c)] = <<>>]
    BY <1>2 DEF Sweep
  <2> QED
    BY <1>1, <2>1 DEF TypeOK
<1>3. UNCHANGED results \/ \E c \in Calls : Sweep(c)
  BY DEF SweepNext, Running, Inactive, Replay, Writes, Report, Interrupted, Killed, OrphanWrites,
         OrphanEnds
<1> QED
  BY <1>2, <1>3

LEMMA NumbersStep ==
  ASSUME SweepInv, SweepNext
  PROVE  NumbersInv'
<1>t. TypeOK /\ NumbersInv
  BY DEF SweepInv
<1>c. /\ root \in Roots /\ dir \in Dirs /\ replay \in Nat /\ first \in Nat /\ entry \in Cases
      /\ \A o \in orphans : o.replay \in Nat
      /\ \A f \in Files : \A i \in DOMAIN results[f] : results[f][i].replay \in Nat
      /\ at = "running" => replay # 0
  <2>1. ASSUME NEW f \in Files, NEW i \in DOMAIN results[f] PROVE results[f][i].replay \in Nat
    <3>1. results[f] \in Seq(Records)
      BY <1>t DEF TypeOK
    <3>2. results[f][i] \in Records
      BY <3>1, LenProperties
    <3> QED
      BY <3>2, ReplaysAreNumbers DEF Records
  <2>2. \A o \in orphans : o.replay \in Nat
    BY <1>t, ReplaysAreNumbers DEF TypeOK
  <2> QED
    BY <1>t, <2>1, <2>2, CallFacts, ReplaysAreNumbers DEF TypeOK, NumbersInv
<1> DEFINE RecordsFit(s) ==
             \A i \in DOMAIN s :
               LET rec == s[i] IN
               /\ rec.replay <= replay /\ (at = "running" => rec.replay < replay)
               /\ rec.replay \notin Orphaned
               /\ rec.status = "ok" => rec.returncode = "zero"
           OrphansFit == \A o \in orphans : o.replay <= replay /\ (at = "running" => o.replay < replay)
           PathFits == at = "running" /\ path # None =>
                         ~call.dry /\ path = root /\ replay \in out[dir][entry]
           ExitFits == /\ first <= replay /\ (at = "running" => first < replay)
                       /\ at # "idle" => exit = "none"
                       /\ exit = "zero" => overallStatus = "zero"
<1>n. /\ ExitFits /\ OrphansFit /\ PathFits /\ \A f \in Files : RecordsFit(results[f])
      /\ ExitFits' /\ OrphansFit' /\ PathFits' /\ (\A f \in Files : RecordsFit(results[f]))' => NumbersInv'
  BY <1>t DEF NumbersInv
<1>e. ExitFits'
  <2>1. ASSUME NEW c \in Calls, Sweep(c) PROVE ExitFits'
    BY <1>n, <1>c, <2>1 DEF Sweep, Exits
  <2>2. CASE Running
    <3>1. CASE Replay \/ Writes \/ Returns
      BY <1>n, <1>c, <3>1 DEF Replay, Writes, Returns
    <3>2. CASE Report
      <4>1. /\ at' = "idle" /\ UNCHANGED <<first, replay, overallStatus>>
            /\ exit' \in {overallStatus, "nonzero"}
        BY <3>2 DEF Report, Exits
      <4> QED
        BY <1>n, <1>c, <4>1
    <3>3. CASE Interrupted \/ Killed
      BY <1>n, <1>c, <3>3 DEF Interrupted, Killed, Exits
    <3>4. CASE \E o \in orphans : OrphanWrites(o) \/ OrphanEnds(o)
      BY <1>n, <1>c, <3>4 DEF OrphanWrites, OrphanEnds
    <3> QED
      BY <2>2, <3>1, <3>2, <3>3, <3>4 DEF Running
  <2>3. CASE Inactive
    BY <1>n, <2>3 DEF Inactive
  <2> QED
    BY <2>1, <2>2, <2>3 DEF SweepNext
<1>o. OrphansFit'
  <2>1. CASE Killed
    BY <1>n, <1>c, <2>1 DEF Killed, Exits
  <2>2. CASE orphans' = orphans
    <3>1. (replay' = replay /\ (at' = "running" => at = "running")) \/ Replay
      BY DEF SweepNext, Running, Sweep, Inactive, Writes, Returns, Report, Interrupted, Killed,
         OrphanWrites, OrphanEnds, Exits
    <3> QED
      BY <1>n, <1>c, <2>2, <3>1 DEF Replay
  <2> QED
    BY <2>1, <2>2 DEF SweepNext, Running, Sweep, Inactive, Replay, Writes, Returns, Report, Interrupted,
       OrphanWrites, OrphanEnds
<1>p. PathFits'
  <2>1. CASE at' # "running"
    BY <2>1
  <2>2. CASE Replay
    BY <2>2 DEF Replay
  <2>3. CASE Writes
    <3>1. path' = root /\ ~call.dry /\ UNCHANGED <<call, replay, entry, at>>
      BY <2>3, UsedPathIsRoot DEF Writes
    <3>2. out' = [out EXCEPT ![dir][entry] = @ \cup {replay}]
      BY <2>3 DEF Writes
    <3>3. replay \in out'[dir][entry]
      BY <1>t, <1>c, <3>2 DEF TypeOK
    <3> QED
      BY <3>1, <3>3 DEF root, dir
  <2>4. ASSUME NEW o \in orphans, OrphanWrites(o) PROVE PathFits'
    <3>1. out' = [out EXCEPT ![o.dir][o.entry] = @ \cup {o.replay}]
      BY <2>4 DEF OrphanWrites
    <3>2. out[dir][entry] \subseteq out'[dir][entry]
      BY <1>t, <1>c, <3>1 DEF TypeOK
    <3> QED
      BY <1>n, <2>4, <3>2 DEF OrphanWrites, root, dir
  <2>5. CASE UNCHANGED <<at, path, call, replay, out, entry>>
    BY <1>n, <2>5 DEF root, dir
  <2> QED
    BY <2>1, <2>2, <2>3, <2>4, <2>5 DEF SweepNext, Running, Sweep, Inactive, Returns, Report, Interrupted,
       Killed, OrphanEnds, Exits
<1>r. ASSUME NEW f \in Files PROVE RecordsFit(results[f])'
  <2>1. CASE Returns
    <3>1. PICK code \in {"zero", "nonzero"} : Record(code)
      BY <2>1 DEF Returns
    <3>2. at = "running" /\ at' = "next" /\ UNCHANGED <<replay, orphans>>
      BY <2>1 DEF Returns
    <3>3. results'[f] = results[f] => RecordsFit(results[f])'
      BY <1>n, <3>2 DEF Orphaned
    <3>4. Status(code) = "ok" => code = "zero"
      BY DEF Status
    <3>5. replay \notin Orphaned /\ Orphaned' = Orphaned
      BY <1>n, <1>c, <3>2 DEF Orphaned
    <3>6. /\ f # file => results'[f] = results[f]
          /\ \A i \in DOMAIN results[file] : results'[file][i] = results[file][i]
          /\ DOMAIN results'[file] = DOMAIN results[file] \cup {Len(results[file]) + 1}
          /\ results'[file][Len(results[file]) + 1] =
               [entry |-> entry, replay |-> replay, returncode |-> code, status |-> Status(code)]
      BY <1>t, <1>c, <3>1, <3>2, RecordFacts
    <3>7. RecordsFit(results[file])'
      <4> SUFFICES ASSUME NEW i \in DOMAIN results'[file]
                   PROVE  /\ results'[file][i].replay <= replay
                          /\ results'[file][i].replay \notin Orphaned
                          /\ results'[file][i].status = "ok" => results'[file][i].returncode = "zero"
        BY <3>2, <3>5, <2>1 DEF Returns, file, File
      <4>1. CASE i \in DOMAIN results[file]
        <5>1. file \in Files
          BY <1>t, CallFacts
        <5> QED
          BY <1>n, <1>c, <3>2, <3>6, <4>1, <5>1
      <4>2. CASE i = Len(results[file]) + 1
        BY <1>c, <3>4, <3>5, <3>6, <4>2
      <4> QED
        BY <3>6, <4>1, <4>2
    <3>8. file' = file
      BY <2>1 DEF Returns, file, File
    <3> QED
      BY <3>3, <3>6, <3>7, <3>8
  <2>2. CASE ~Returns /\ results'[f] = results[f]
    <3>1. CASE Killed
      BY <1>n, <1>c, <2>2, <3>1 DEF Killed, Exits, Orphaned
    <3>2. CASE Replay
      BY <1>n, <1>c, <2>2, <3>2 DEF Replay, Orphaned
    <3>3. CASE ~Killed /\ ~Replay
      <4>1. UNCHANGED <<replay, orphans>> /\ (at' = "running" => at = "running")
        BY <2>2, <3>3 DEF SweepNext, Running, Sweep, Inactive, Writes, Report, Interrupted,
           OrphanWrites, OrphanEnds, Exits
      <4> QED
        BY <1>n, <2>2, <4>1 DEF Orphaned
    <3> QED
      BY <3>1, <3>2, <3>3
  <2>3. CASE results'[f] = <<>>
    BY <2>3
  <2> QED
    BY <2>1, <2>2, <2>3, RecordsKeep
<1> QED
  BY <1>n, <1>e, <1>o, <1>p, <1>r

-----------------------------------------------------------------------------
(* What is in the roots and the directories.                               *)

LEMMA NumberFacts ==
  ASSUME TypeOK, NumbersInv
  PROVE  /\ replay \in Nat /\ first \in Nat /\ first <= replay /\ entry \in Cases
         /\ at = "running" => first < replay /\ replay # 0
<1>1. replay \in Nat /\ first \in Nat /\ entry \in Cases
  <2>1. replay \in Replays \cup {0} /\ first \in Replays \cup {0} /\ entry \in Cases
    BY DEF TypeOK
  <2> QED
    BY <2>1, ReplaysAreNumbers
<1> QED
  BY <1>1 DEF NumbersInv

(* A step that starts no sweep keeps its options.                          *)
LEMMA OptionsKept ==
  ASSUME SweepNext, ~\E c \in Calls : Sweep(c)
  PROVE  /\ call' = call /\ first' = first /\ sweeps' = sweeps /\ root' = root /\ dir' = dir
         /\ file' = file /\ list' = list
         /\ at' # "idle" => at # "idle"
BY DEF SweepNext, Running, Inactive, Replay, Writes, Returns, Report, Interrupted, Killed, OrphanWrites,
       OrphanEnds, Exits, root, dir, file, File, list

(* Nothing is deleted in the directories, and no killed sweep comes back.  *)
LEMMA Grow ==
  ASSUME SweepInv, SweepNext
  PROVE  /\ Orphaned \subseteq Orphaned'
         /\ \A d \in Dirs, e \in Cases : out[d][e] \subseteq out'[d][e]
<1>t. TypeOK
  BY DEF SweepInv
<1>1. orphans \subseteq orphans'
  BY DEF SweepNext, Running, Sweep, Inactive, Replay, Writes, Returns, Report, Interrupted, Killed,
         OrphanWrites, OrphanEnds
<1>2. ASSUME NEW f \in Dirs, NEW g \in Cases, NEW n,
             out' = [out EXCEPT ![f][g] = @ \cup {n}]
      PROVE  \A d \in Dirs, e \in Cases : out[d][e] \subseteq out'[d][e]
  BY <1>t, <1>2 DEF TypeOK
<1>3. ASSUME Writes \/ \E o \in orphans : OrphanWrites(o)
      PROVE  \A d \in Dirs, e \in Cases : out[d][e] \subseteq out'[d][e]
  <2>1. CASE Writes
    <3>1. dir \in Dirs /\ entry \in Cases /\ out' = [out EXCEPT ![dir][entry] = @ \cup {replay}]
      BY <1>t, <2>1, CallFacts DEF TypeOK, Writes
    <3> QED
      BY <1>2, <3>1
  <2>2. ASSUME NEW o \in orphans, OrphanWrites(o)
        PROVE  \A d \in Dirs, e \in Cases : out[d][e] \subseteq out'[d][e]
    <3>1. o.dir \in Dirs /\ o.entry \in Cases /\ out' = [out EXCEPT ![o.dir][o.entry] = @ \cup {o.replay}]
      BY <1>t, <2>2 DEF TypeOK, OrphanWrites
    <3> QED
      BY <1>2, <3>1
  <2> QED
    BY <1>3, <2>1, <2>2
<1>4. UNCHANGED out \/ Writes \/ \E o \in orphans : OrphanWrites(o)
  BY DEF SweepNext, Running, Sweep, Inactive, Replay, Returns, Report, Interrupted, Killed, OrphanEnds
<1> QED
  BY <1>1, <1>3, <1>4 DEF Orphaned

LEMMA RootStep ==
  ASSUME SweepInv, SweepNext
  PROVE  RootInv'
<1>t. TypeOK /\ NumbersInv /\ RootInv
  BY DEF SweepInv
<1>c. /\ root \in Roots /\ replay \in Nat /\ first \in Nat /\ first <= replay
      /\ call.keep \in BOOLEAN /\ call.dry \in BOOLEAN
      /\ (at = "running" => first < replay) /\ DOMAIN l2 = Roots
  <2>1. DOMAIN l2 = Roots
    BY <1>t DEF TypeOK
  <2> QED
    BY <1>t, <2>1, CallFacts, NumberFacts
<1>1. ASSUME NEW c \in Calls, Sweep(c) PROVE RootInv'
  <2>1. CASE at' = "idle"
    BY <2>1 DEF RootInv
  <2>2. CASE at' # "idle"
    <3>1. at' = "next" /\ call' = c /\ l2' = l2 /\ (c.keep => l2[c.root] = {})
      BY <1>1, <2>2 DEF Sweep, PathsAvailable, Exits
    <3> QED
      BY <3>1 DEF RootInv, root
  <2> QED
    BY <2>1, <2>2
<1>2. CASE Replay
  <2>1. root' = root /\ first' = first /\ Orphaned' = Orphaned /\ call' = call /\ at = "next"
        /\ replay' = replay + 1 /\ l2' = ResetL2
    BY <1>2 DEF Replay, root, Orphaned
  <2>2. CASE call.keep \/ call.dry
    <3>1. l2' = l2
      BY <2>1, <2>2 DEF ResetL2
    <3> QED
      BY <1>t, <1>c, <2>1, <2>2, <3>1 DEF RootInv
  <2>3. CASE ~(call.keep \/ call.dry)
    <3>1. l2'[root] = {}
      BY <1>c, <2>1, <2>3 DEF ResetL2
    <3> QED
      BY <2>1, <3>1 DEF RootInv
  <2> QED
    BY <2>2, <2>3
<1>3. CASE Writes
  <2>1. root' = root /\ first' = first /\ Orphaned' = Orphaned /\ call' = call /\ at' = at
        /\ replay' = replay /\ path' = root /\ at = "running"
    BY <1>3, UsedPathIsRoot DEF Writes, root, Orphaned
  <2>2. l2'[root] = l2[root] \cup {replay}
    BY <1>c, <1>3, <2>1 DEF Writes
  <2> QED
    BY <1>t, <1>c, <2>1, <2>2 DEF RootInv
<1>4. ASSUME NEW o \in orphans, OrphanWrites(o) PROVE RootInv'
  <2>1. root' = root /\ first' = first /\ Orphaned' = Orphaned /\ call' = call /\ at' = at
        /\ replay' = replay /\ o.replay \in Orphaned
    BY <1>4 DEF OrphanWrites, root, Orphaned
  <2>2. l2'[root] \subseteq l2[root] \cup {o.replay}
    BY <1>c, <1>4 DEF OrphanWrites
  <2> QED
    BY <1>t, <1>c, <2>1, <2>2 DEF RootInv
<1>5. CASE /\ UNCHANGED <<l2, call, first, replay>>
           /\ (at' # "idle" => at # "idle") /\ (at' = "running" => at = "running")
  BY <1>t, <1>5, Grow DEF RootInv, root
<1> QED
  BY <1>1, <1>2, <1>3, <1>4, <1>5 DEF SweepNext, Running, Inactive, Returns, Report, Interrupted, Killed,
     OrphanEnds, Exits

LEMMA OutStep ==
  ASSUME SweepInv, SweepNext
  PROVE  OutInv'
<1>t. TypeOK /\ NumbersInv /\ OutInv
  BY DEF SweepInv
<1>s. ToSet(list) \subseteq Cases
  BY <1>t, TheList
<1>c. /\ dir \in Dirs /\ entry \in Cases /\ replay \in Nat /\ first \in Nat
      /\ (at = "running" => first < replay)
  BY <1>t, CallFacts, NumberFacts
<1>g. /\ Orphaned \subseteq Orphaned'
      /\ \A d \in Dirs, e \in Cases : out[d][e] \subseteq out'[d][e]
  BY Grow
<1>1. at' # "idle" => \A e \in ToSet(list') : \A m \in out'[dir'][e] : m > first' \/ m \in Orphaned'
  <2>1. ASSUME NEW c \in Calls, Sweep(c), at' # "idle"
        PROVE  \A e \in ToSet(list') : \A m \in out'[dir'][e] : m > first' \/ m \in Orphaned'
    <3>1. dir' = c.dir /\ list' = c.entries /\ out' = out /\ \A e \in ToSet(c.entries) : out[c.dir][e] = {}
      BY <2>1 DEF Sweep, PathsAvailable, Exits, dir, list
    <3> QED
      BY <3>1
  <2>2. CASE Writes
    <3>1. dir' = dir /\ list' = list /\ first' = first /\ Orphaned' = Orphaned /\ at' = at /\ at = "running"
          /\ out' = [out EXCEPT ![dir][entry] = @ \cup {replay}]
      BY <2>2 DEF Writes, dir, list, Orphaned
    <3>2. \A e \in Cases : out'[dir][e] \subseteq out[dir][e] \cup {replay}
      BY <1>t, <1>c, <3>1 DEF TypeOK
    <3> QED
      BY <1>t, <1>c, <1>s, <3>1, <3>2 DEF OutInv
  <2>3. ASSUME NEW o \in orphans, OrphanWrites(o), at' # "idle"
        PROVE  \A e \in ToSet(list') : \A m \in out'[dir'][e] : m > first' \/ m \in Orphaned'
    <3>1. dir' = dir /\ list' = list /\ first' = first /\ Orphaned' = Orphaned /\ at' = at /\ o.replay \in Orphaned
          /\ out' = [out EXCEPT ![o.dir][o.entry] = @ \cup {o.replay}]
      BY <2>3 DEF OrphanWrites, dir, list, Orphaned
    <3>2. \A e \in Cases : out'[dir][e] \subseteq out[dir][e] \cup {o.replay}
      BY <1>t, <1>c, <3>1 DEF TypeOK
    <3> QED
      BY <1>t, <1>c, <1>s, <2>3, <3>1, <3>2 DEF OutInv
  <2>4. CASE UNCHANGED <<out, dir, list, first>> /\ (at' # "idle" => at # "idle")
    BY <1>t, <1>g, <2>4 DEF OutInv
  <2>5. UNCHANGED out \/ Writes \/ (\E o \in orphans : OrphanWrites(o))
    BY DEF SweepNext, Running, Sweep, Inactive, Replay, Returns, Report, Interrupted, Killed, OrphanEnds
  <2> QED
    BY <2>1, <2>2, <2>3, <2>4, <2>5, OptionsKept
<1>2. \A d \in Dirs : \A e \in Cases : stats'[d][e] # None => stats'[d][e].replay \in out'[d][e]
  <2>1. CASE UNCHANGED stats
    BY <1>t, <1>g, <2>1 DEF OutInv
  <2>2. CASE Returns
    <3>1. stats' = stats \/ \E json \in BOOLEAN :
            path # None /\ stats' = [stats EXCEPT ![dir][entry] = [replay |-> replay, json |-> json]]
      BY <2>2 DEF Returns, Statistics
    <3>2. ASSUME NEW json \in BOOLEAN, path # None,
                 stats' = [stats EXCEPT ![dir][entry] = [replay |-> replay, json |-> json]]
          PROVE  \A d \in Dirs : \A e \in Cases :
                   stats'[d][e] # None => stats'[d][e].replay \in out'[d][e]
      <4>1. replay \in out[dir][entry]
        BY <1>t, <2>2, <3>2 DEF Returns, NumbersInv
      <4>2. \A d \in Dirs : \A e \in Cases :
              stats'[d][e] = stats[d][e] \/ (d = dir /\ e = entry /\ stats'[d][e].replay = replay)
        BY <1>t, <1>c, <3>2 DEF TypeOK
      <4> QED
        BY <1>t, <1>c, <1>g, <4>1, <4>2 DEF OutInv
    <3> QED
      BY <2>1, <3>1, <3>2
  <2>3. ASSUME NEW o \in orphans, OrphanEnds(o)
        PROVE  \A d \in Dirs : \A e \in Cases :
                 stats'[d][e] # None => stats'[d][e].replay \in out'[d][e]
    <3>1. /\ o.dir \in Dirs /\ o.entry \in Cases /\ o.replay \in out[o.dir][o.entry]
          /\ stats' = [stats EXCEPT ![o.dir][o.entry] = [replay |-> o.replay, json |-> TRUE]]
      BY <1>t, <2>3 DEF OrphanEnds, TypeOK
    <3>2. \A d \in Dirs : \A e \in Cases :
            stats'[d][e] = stats[d][e] \/ (d = o.dir /\ e = o.entry /\ stats'[d][e].replay = o.replay)
      BY <1>t, <3>1 DEF TypeOK
    <3> QED
      BY <1>t, <1>g, <3>1, <3>2 DEF OutInv
  <2> QED
    BY <2>1, <2>2, <2>3 DEF SweepNext, Running, Sweep, Inactive, Replay, Writes, Report, Interrupted,
       Killed, OrphanWrites
<1> QED
  BY <1>1, <1>2 DEF OutInv

-----------------------------------------------------------------------------
(* The records of the sweep.                                               *)

LEMMA RecordsStep ==
  ASSUME SweepInv, SweepNext
  PROVE  RecordsInv'
<1>t. TypeOK /\ NumbersInv /\ PlaceInv /\ RecordsInv
  BY DEF SweepInv
<1>c. /\ replay \in Nat /\ first \in Nat /\ (at = "running" => first < replay /\ replay # 0)
      /\ call.dry \in BOOLEAN /\ results \in [Files -> Seq(Records)] /\ file \in Files
  <2>1. results \in [Files -> Seq(Records)]
    BY <1>t DEF TypeOK
  <2> QED
    BY <1>t, <2>1, CallFacts, NumberFacts
<1>1. ASSUME NEW c \in Calls, Sweep(c) PROVE RecordsInv'
  <2>1. CASE at' = "idle"
    BY <1>1, <2>1 DEF Sweep, Exits, RecordsInv
  <2>2. CASE at' # "idle"
    <3>1. file' = File(c) /\ File(c) \in Files /\ results' = [results EXCEPT ![File(c)] = <<>>]
      BY <1>1, <2>2, ListFacts DEF Sweep, Exits, file, File
    <3>2. results'[file'] = <<>>
      BY <1>c, <3>1
    <3> QED
      BY <3>2 DEF RecordsInv
  <2> QED
    BY <2>1, <2>2
<1>2. CASE Returns
  <2>1. PICK code \in {"zero", "nonzero"} : Record(code) /\ overallStatus' = Overall(code)
    BY <1>2 DEF Returns
  <2>2. at = "running" /\ at' = "next" /\ UNCHANGED <<call, first, replay, file, list>>
    BY <1>2 DEF Returns, file, File, list
  <2> DEFINE n == Len(results[file]) + 1
  <2>3. /\ \A i \in DOMAIN results[file] : results'[file][i] = results[file][i]
        /\ DOMAIN results'[file] = DOMAIN results[file] \cup {n}
        /\ results'[file][n] =
             [entry |-> entry, replay |-> replay, returncode |-> code, status |-> Status(code)]
        /\ DOMAIN results[file] = 1 .. Len(results[file]) /\ Len(results[file]) \in Nat
    BY <1>t, <1>c, <2>1, <2>2, RecordFacts
  <2>4. n <= Len(list) /\ entry = list[n]
    BY <1>t, <2>2 DEF PlaceInv, Taken
  <2>5. \A i \in DOMAIN results[file] : results[file][i].replay < replay
    BY <1>t, <1>c, <2>2 DEF NumbersInv
  <2>6. code = "zero" /\ ~call.dry => Status(code) = "ok"
    BY DEF Status
  <2>7. overallStatus' = "zero" => code = "zero" /\ overallStatus = "zero"
    BY <2>1 DEF Overall
  <2> HIDE DEF n
  <2>8. ASSUME NEW i \in DOMAIN results[file]
        PROVE  LET rec == results'[file][i] IN
               /\ i <= Len(list) /\ rec.entry = list[i] /\ rec.replay > first
               /\ \A j \in DOMAIN results'[file] : j < i => results'[file][j].replay < rec.replay
               /\ overallStatus' = "zero" => rec.returncode = "zero"
               /\ rec.returncode = "zero" /\ ~call.dry => rec.status = "ok"
    <3>1. \A j \in DOMAIN results'[file] : j < i => j \in DOMAIN results[file]
      BY <2>3 DEF n
    <3> QED
      BY <1>t, <2>2, <2>3, <2>7, <3>1 DEF RecordsInv
  <2>9. LET rec == results'[file][n] IN
        /\ n <= Len(list) /\ rec.entry = list[n] /\ rec.replay > first
        /\ \A j \in DOMAIN results'[file] : j < n => results'[file][j].replay < rec.replay
        /\ overallStatus' = "zero" => rec.returncode = "zero"
        /\ rec.returncode = "zero" /\ ~call.dry => rec.status = "ok"
    <3>1. \A j \in DOMAIN results'[file] : j < n => j \in DOMAIN results[file]
      BY <2>3 DEF n
    <3> QED
      BY <1>c, <2>2, <2>3, <2>4, <2>5, <2>6, <2>7, <3>1
  <2> QED
    BY <2>2, <2>3, <2>8, <2>9 DEF RecordsInv
<1>3. CASE UNCHANGED <<results, file, list, first, call, overallStatus>>
           /\ ((at' # "idle" \/ exit' = "zero") => (at # "idle" \/ exit = "zero"))
  BY <1>t, <1>3 DEF RecordsInv
<1>4. CASE Report
  BY <1>t, <1>4 DEF Report, RecordsInv, file, File, list
<1>5. ASSUME Replay \/ Writes \/ Interrupted \/ Killed \/ Inactive \/ \E o \in orphans : OrphanWrites(o) \/ OrphanEnds(o)
      PROVE  /\ UNCHANGED <<results, file, list, first, call, overallStatus>>
             /\ ((at' # "idle" \/ exit' = "zero") => (at # "idle" \/ exit = "zero"))
  BY <1>5 DEF Replay, Writes, Interrupted, Killed, Inactive, OrphanWrites, OrphanEnds, Exits, file, File, list
<1> QED
  BY <1>1, <1>2, <1>3, <1>4, <1>5 DEF SweepNext, Running

LEMMA SweepInit ==
  Init => SweepInv
<1> SUFFICES ASSUME Init PROVE SweepInv
  OBVIOUS
<1>1. call \in Calls /\ list \in Seq(Cases) /\ list # <<>> /\ MaxSweeps \in Nat /\ MaxFailures \in Nat
  BY SweepAssumption DEF Init, list
<1>2. entry \in Cases
  BY <1>1, HeadTailProperties DEF Init
<1>3. results \in [Files -> Seq(Records)] /\ succeeded \in [Dirs -> SUBSET Rows]
  BY DEF Init
<1>4. TypeOK
  <2>1. /\ at \in {"idle", "next", "running"} /\ path \in Roots \cup {None} /\ input \in Seq(Cases)
        /\ overallStatus \in {"zero", "nonzero"} /\ exit \in {"none", "zero", "nonzero"}
    BY DEF Init
  <2>2. l2 \in [Roots -> SUBSET Replays] /\ out \in [Dirs -> [Cases -> SUBSET Replays]]
    BY DEF Init
  <2>3. stats \in [Dirs -> [Cases -> [replay : Replays, json : BOOLEAN] \cup {None}]]
    BY DEF Init
  <2>4. /\ replay \in Replays \cup {0} /\ first \in Replays \cup {0} /\ orphans = {}
        /\ sweeps \in 0 .. MaxSweeps /\ failures \in 0 .. MaxFailures
    BY <1>1 DEF Init
  <2>5. /\ DOMAIN csv = Dirs
        /\ \A d \in Dirs : DOMAIN csv[d] \subseteq Nat /\ csv[d] \in [DOMAIN csv[d] -> Rows]
    BY DEF Init
  <2> QED
    BY <1>1, <1>2, <1>3, <2>1, <2>2, <2>3, <2>4, <2>5 DEF TypeOK
<1>5. PlaceInv
  BY DEF Init, PlaceInv
<1>6. NumbersInv
  BY DEF Init, NumbersInv
<1>7. RootInv /\ OutInv /\ RecordsInv
  <2>1. \A d \in Dirs : \A e \in Cases : stats[d][e] = None
    BY DEF Init
  <2> QED
    BY <2>1 DEF Init, RootInv, OutInv, RecordsInv
<1> QED
  BY <1>4, <1>5, <1>6, <1>7 DEF SweepInv

LEMMA SweepStep ==
  ASSUME SweepInv, SweepNext
  PROVE  SweepInv'
BY TypeStep, NumbersStep, PlaceStep, RootStep, OutStep, RecordsStep DEF SweepInv

(* What a replay finds.                                                    *)
LEMMA SweepIsCold ==
  ASSUME SweepInv
  PROVE  ColdStart /\ EarlierKept
<1>1. TypeOK /\ NumbersInv /\ RootInv /\ OutInv
  BY DEF SweepInv
<1>e. at = "running" => entry \in ToSet(list)
  <2>1. at = "running" => Taken \in 1 .. Len(list) /\ entry = list[Taken]
    <3>1. Len(results[file]) \in Nat
      BY <1>1, CallFacts, LenProperties DEF TypeOK
    <3>2. at = "running" => Taken \in 0 .. Len(list) /\ entry = list[Taken]
      BY DEF SweepInv, PlaceInv
    <3>3. at = "running" => Taken = Len(results[file]) + 1
      BY <3>1 DEF Taken
    <3> QED
      BY <1>1, <3>1, <3>2, <3>3, TheList
  <2> QED
    BY <1>1, <2>1, TheList
<1>2. ColdStart
  BY <1>1 DEF ColdStart, NumbersInv, RootInv
<1>3. EarlierKept
  BY <1>1, <1>e, NumberFacts DEF EarlierKept, OutInv
<1> QED
  BY <1>2, <1>3

-----------------------------------------------------------------------------
(* The sweep of sweeps.                                                    *)

MatrixIInv == SweepInv /\ MatrixTypeOK /\ MatrixInv

(* The items of a sweep of sweeps.                                         *)
LEMMA ItemFacts ==
  ASSUME MatrixTypeOK
  PROVE  /\ current.items \in Seq(Calls) /\ Len(current.items) \in Nat
         /\ DOMAIN current.items = 1 .. Len(current.items)
         /\ \A i \in DOMAIN current.items :
              current.items[i] \in ToSet(current.items) /\ current.items[i] \in Calls
         /\ left # <<>> => /\ Head(left) \in Calls /\ Head(left) \in ToSet(current.items)
                           /\ Tail(left) # left
         /\ \E i \in 1 .. Len(current.items) + 1 :
              left = SubSeq(current.items, i, Len(current.items))
         /\ \A c1, c2 \in ToSet(current.items) : c1.entries = c2.entries
<1> DEFINE items == current.items
<1>0. \A i, j \in DOMAIN items : items[i].entries = items[j].entries
  BY MatrixAssumption DEF MatrixTypeOK
<1>7. \A c1, c2 \in ToSet(items) : c1.entries = c2.entries
  BY <1>0 DEF ToSet
<1>1. items \in Seq(Calls)
  BY MatrixAssumption DEF MatrixTypeOK
<1>2. Len(items) \in Nat /\ DOMAIN items = 1 .. Len(items)
  BY <1>1, LenProperties
<1>3. \A i \in DOMAIN items : items[i] \in ToSet(items) /\ items[i] \in Calls
  BY <1>1, LenProperties DEF ToSet
<1>4. PICK i \in 1 .. Len(items) + 1 : left = SubSeq(items, i, Len(items))
  BY DEF MatrixTypeOK
<1> HIDE DEF items
<1>5. ASSUME left # <<>> PROVE Head(left) \in Calls /\ Head(left) \in ToSet(items) /\ Tail(left) # left
  <2>1. i <= Len(items)
    BY <1>2, <1>4, <1>5, SubSeqEmpty
  <2>2. Head(left) = items[i]
    BY <1>1, <1>2, <1>4, <2>1, HeadTailOfSubSeq
  <2>3. \A j \in i .. Len(items) : items[j] \in Calls
    BY <1>2, <1>3
  <2>4. left \in Seq(Calls)
    BY <1>2, <1>4, <2>3, SubSeqProperties
  <2>5. Len(Tail(left)) = Len(left) - 1 /\ Len(left) \in Nat
    BY <1>5, <2>4, HeadTailProperties, LenProperties
  <2>6. Tail(left) # left
    BY <2>5
  <2> QED
    BY <1>2, <1>3, <2>1, <2>2, <2>6
<1> QED
  BY <1>1, <1>2, <1>3, <1>4, <1>5, <1>7 DEF items

(* For the sweeps, every step of the outer sweep is one of their own, or   *)
(* none.                                                                   *)
LEMMA MatrixStepIsSweepStep ==
  ASSUME SweepInv, MatrixTypeOK, [MatrixNext]_<<vars, matrixVars>>
  PROVE  SweepNext
<1>f. failures \in 0 .. MaxFailures /\ MaxFailures \in Nat
  BY SweepAssumption DEF SweepInv, TypeOK
<1>1. CASE Inner
  BY <1>1, ItemFacts DEF Inner, SweepNext
<1>2. ASSUME NEW c \in Calls, Alone(c) PROVE SweepNext
  BY <1>2 DEF Alone, SweepNext
<1>3. CASE Running \/ MatrixInterrupted
  BY <1>3 DEF MatrixInterrupted, Running, SweepNext
<1>4. CASE Missing \/ MatrixDies
  <2>1. Inactive /\ failures' = failures + 1 /\ failures < MaxFailures
    BY <1>4 DEF Missing, MatrixDies, Failure, Inactive
  <2> QED
    BY <1>f, <2>1 DEF SweepNext
<1>5. CASE UNCHANGED vars
  BY <1>f, <1>5 DEF vars, SweepNext, Inactive
<1> QED
  BY <1>1, <1>2, <1>3, <1>4, <1>5 DEF MatrixNext, Matrix, InnerReturns, MatrixReport

(* A record of the outer sweep, and its place in the list.                 *)
LEMMA ItemRecorded ==
  ASSUME MatrixTypeOK, MatrixInv, matrix # "idle", left # <<>>, NEW code \in Codes, RecordItem(code),
         UNCHANGED current, left' = Tail(left)
  PROVE  /\ records' \in Seq([item : ToSet(current.items), returncode : Codes])
         /\ Len(records') = Len(records) + 1 /\ Len(records) \in Nat
         /\ Len(records') <= Len(current.items)
         /\ left' = SubSeq(current.items, Len(records') + 1, Len(current.items))
         /\ DOMAIN records' = DOMAIN records \cup {Len(records')}
         /\ \A i \in DOMAIN records : records'[i] = records[i]
         /\ records'[Len(records')] = [item |-> Head(left), returncode |-> code]
         /\ Head(left) = current.items[Len(records')]
<1> DEFINE items == current.items
           n == Len(records)
           rec == [item |-> Head(left), returncode |-> code]
<1>1. records \in Seq([item : ToSet(items), returncode : Codes]) /\ n \in Nat /\ DOMAIN records = 1 .. n
  BY LenProperties DEF MatrixTypeOK
<1>2. items \in Seq(Calls) /\ Len(items) \in Nat /\ rec \in [item : ToSet(items), returncode : Codes]
  BY ItemFacts
<1>3. n <= Len(items) /\ left = SubSeq(items, n + 1, Len(items))
  BY DEF MatrixInv
<1>4. records' = Append(records, rec)
  BY DEF RecordItem
<1> HIDE DEF items, n, rec
<1>5. n < Len(items)
  BY <1>1, <1>2, <1>3, SubSeqEmpty
<1>6. n \in 0 .. Len(items)
  BY <1>1, <1>3, <1>2
<1>7. Head(left) = items[n + 1] /\ Tail(left) = SubSeq(items, n + 2, Len(items))
  BY <1>2, <1>3, <1>5, <1>6, Suffix
<1>8. /\ records' \in Seq([item : ToSet(items), returncode : Codes])
      /\ Len(records') = n + 1
      /\ \A i \in 1 .. n : records'[i] = records[i]
      /\ records'[n + 1] = rec
  BY <1>1, <1>2, <1>4, AppendProperties DEF n
<1>9. DOMAIN records' = 1 .. n + 1
  BY <1>8, LenProperties
<1>10. DOMAIN records' = DOMAIN records \cup {n + 1} /\ n + 1 <= Len(items)
  BY <1>1, <1>2, <1>5, <1>9
<1>11. left' = SubSeq(items, (n + 1) + 1, Len(items))
  BY <1>1, <1>7
<1> QED
  BY <1>1, <1>7, <1>8, <1>10, <1>11 DEF items, n, rec

(* While a sweep of a sweep runs, the outer one waits.                     *)
LEMMA RunningFacts ==
  ASSUME SweepInv, Running
  PROVE  /\ UNCHANGED <<call, first>> /\ replay' >= replay
         /\ at = "idle" => at' = "idle" /\ exit' = exit
         /\ at # "idle" /\ at' = "idle" => exit' \in Codes
<1>t. TypeOK /\ NumbersInv /\ replay \in Nat
  BY NumberFacts DEF SweepInv
<1>1. CASE Replay \/ Writes \/ Returns
  BY <1>t, <1>1 DEF Replay, Writes, Returns
<1>2. CASE Report
  <2>1. at # "idle" /\ at' = "idle" /\ UNCHANGED <<call, first, replay>> /\ exit' \in {overallStatus, "nonzero"}
    BY <1>2 DEF Report, Exits
  <2>2. overallStatus \in Codes
    BY <1>t DEF TypeOK, Codes
  <2> QED
    BY <1>t, <2>1, <2>2 DEF Codes
<1>3. CASE Interrupted \/ Killed
  BY <1>t, <1>3 DEF Interrupted, Killed, Exits, Codes
<1>4. CASE \E o \in orphans : OrphanWrites(o) \/ OrphanEnds(o)
  BY <1>t, <1>4 DEF OrphanWrites, OrphanEnds
<1> QED
  BY <1>1, <1>2, <1>3, <1>4 DEF Running

LEMMA MatrixInitial ==
  MatrixInit => MatrixIInv
<1> SUFFICES ASSUME MatrixInit PROVE MatrixIInv
  OBVIOUS
<1>1. SweepInv /\ TypeOK
  BY SweepInit DEF MatrixInit, SweepInv
<1>2. current \in Matrices /\ current.items \in Seq(Calls)
  BY MatrixAssumption DEF MatrixInit
<1>3. \E i \in 1 .. Len(current.items) + 1 : left = SubSeq(current.items, i, Len(current.items))
  <2>1. Len(current.items) \in Nat
    BY <1>2, LenProperties
  <2>2. SubSeq(current.items, Len(current.items) + 1, Len(current.items)) = <<>>
    BY <2>1, SubSeqEmpty
  <2>3. left = <<>> /\ Len(current.items) + 1 \in 1 .. Len(current.items) + 1
    BY <2>1 DEF MatrixInit
  <2> QED
    BY <2>2, <2>3
<1>4. MatrixTypeOK
  <2>1. before \in 0 .. replay
    BY DEF MatrixInit, Init
  <2>2. records \in Seq([item : ToSet(current.items), returncode : Codes])
    BY DEF MatrixInit
  <2>3. /\ matrix \in {"idle", "next", "inner"} /\ outerStatus \in Codes
        /\ outerExit \in Codes \cup {"none", "broken"}
    BY DEF MatrixInit, Codes
  <2> QED
    BY <1>1, <1>2, <1>3, <2>1, <2>2, <2>3 DEF MatrixTypeOK
<1>5. MatrixInv
  BY DEF MatrixInit, MatrixInv, Codes
<1> QED
  BY <1>1, <1>4, <1>5 DEF MatrixIInv

LEMMA MatrixTypeStep ==
  ASSUME MatrixIInv, [MatrixNext]_<<vars, matrixVars>>
  PROVE  MatrixTypeOK'
<1>t. SweepInv /\ MatrixTypeOK /\ MatrixInv /\ TypeOK /\ NumbersInv /\ replay \in Nat
  BY NumberFacts DEF MatrixIInv, SweepInv
<1>s. SweepInv' /\ TypeOK'
  BY <1>t, MatrixStepIsSweepStep, SweepStep DEF SweepInv
<1>r. replay' >= replay /\ replay' \in Nat
  <2>1. SweepNext
    BY <1>t, MatrixStepIsSweepStep
  <2>2. (\A c \in Calls : ~Sweep(c)) /\ ~Running => replay' = replay
    BY <2>1 DEF SweepNext, Inactive
  <2>3. ASSUME NEW c \in Calls, Sweep(c) PROVE replay' = replay
    BY <2>3 DEF Sweep
  <2>4. replay' \in Nat
    BY <1>s, ReplaysAreNumbers DEF TypeOK
  <2>5. Running => replay' >= replay
    BY <1>t, RunningFacts
  <2> QED
    BY <1>t, <2>2, <2>3, <2>4, <2>5
<1>m. /\ current \in Matrices /\ records \in Seq([item : ToSet(current.items), returncode : Codes])
      /\ \E i \in 1 .. Len(current.items) + 1 : left = SubSeq(current.items, i, Len(current.items))
      /\ matrix \in {"idle", "next", "inner"} /\ outerStatus \in Codes
      /\ outerExit \in Codes \cup {"none", "broken"} /\ before \in 0 .. replay
  BY <1>t DEF MatrixTypeOK
<1>b. before \in 0 .. replay'
  BY <1>m, <1>r, <1>t
<1>c. {"zero", "nonzero"} = Codes
  BY DEF Codes
<1>1. ASSUME NEW m \in Matrices, Matrix(m) PROVE MatrixTypeOK'
  <2>1. current' = m /\ left' = m.items /\ records' = <<>> /\ matrix' = "next" /\ before' = replay
        /\ outerStatus' = "zero" /\ outerExit' = "none"
    BY <1>1 DEF Matrix
  <2>2. m.items \in Seq(Calls) /\ Len(m.items) \in Nat
    BY MatrixAssumption, LenProperties
  <2>3. 1 \in 1 .. Len(m.items) + 1 /\ m.items = SubSeq(m.items, 1, Len(m.items))
    BY <2>2, SubSeqFull
  <2>4. before' \in 0 .. replay'
    BY <1>t, <1>r, <2>1
  <2> QED
    BY <1>s, <1>c, <2>1, <2>3, <2>4 DEF MatrixTypeOK
<1>2. ASSUME matrix # "idle", left # <<>>, NEW code \in Codes, RecordItem(code), outerStatus' = Failed(code),
             UNCHANGED <<current, outerExit, before>>, left' = Tail(left), matrix' = "next"
      PROVE  MatrixTypeOK'
  <2>1. records' \in Seq([item : ToSet(current.items), returncode : Codes])
    BY <1>t, <1>2, ItemRecorded
  <2>a. /\ left' = SubSeq(current.items, Len(records') + 1, Len(current.items))
        /\ Len(records') = Len(records) + 1 /\ Len(records) \in Nat
        /\ Len(records') <= Len(current.items)
    BY <1>t, <1>2, ItemRecorded
  <2>b. Len(current.items) \in Nat
    BY <1>t, ItemFacts
  <2>2. /\ left' = SubSeq(current.items, Len(records') + 1, Len(current.items))
        /\ Len(records') \in Nat /\ Len(records') <= Len(current.items) /\ Len(current.items) \in Nat
    BY <2>a, <2>b
  <2>3. \E i \in 1 .. Len(current.items) + 1 : left' = SubSeq(current.items, i, Len(current.items))
    BY <2>2
  <2>4. outerStatus' \in Codes
    BY <1>m, <1>2, <1>c DEF Failed
  <2> QED
    BY <1>s, <1>m, <1>b, <1>2, <2>1, <2>3, <2>4 DEF MatrixTypeOK
<1>3. CASE Missing
  BY <1>2, <1>3, <1>c DEF Missing, Continue
<1>4. CASE InnerReturns
  <2>1. left # <<>> /\ exit \in Codes
    BY <1>t, <1>4 DEF InnerReturns, MatrixInv
  <2> QED
    BY <1>2, <1>4, <2>1 DEF InnerReturns, Continue
<1>5. CASE Inner
  BY <1>s, <1>m, <1>b, <1>5 DEF Inner, MatrixTypeOK
<1>6. CASE MatrixReport
  <2>1. outerExit' \in Codes
    BY <1>m, <1>6, <1>c DEF MatrixReport, OuterExits
  <2> QED
    BY <1>s, <1>m, <1>b, <1>6, <2>1 DEF MatrixReport, OuterExits, MatrixTypeOK
<1>7. CASE MatrixInterrupted \/ MatrixDies
  BY <1>s, <1>m, <1>b, <1>7 DEF MatrixInterrupted, MatrixDies, OuterExits, MatrixTypeOK
<1>8. ASSUME NEW c \in Calls, Alone(c) PROVE MatrixTypeOK'
  BY <1>s, <1>m, <1>b, <1>8 DEF Alone, MatrixTypeOK
<1>9. CASE UNCHANGED matrixVars
  BY <1>s, <1>m, <1>b, <1>9 DEF matrixVars, MatrixTypeOK
<1> QED
  BY <1>1, <1>3, <1>4, <1>5, <1>6, <1>7, <1>8, <1>9 DEF MatrixNext

LEMMA MatrixInvStep ==
  ASSUME MatrixIInv, [MatrixNext]_<<vars, matrixVars>>
  PROVE  MatrixInv'
<1>t. SweepInv /\ MatrixTypeOK /\ MatrixInv /\ TypeOK /\ NumbersInv
  BY DEF MatrixIInv, SweepInv
<1>m. before \in Nat /\ before <= replay /\ replay \in Nat /\ outerStatus \in Codes
  BY <1>t, NumberFacts DEF MatrixTypeOK
<1>c. Codes = {"zero", "nonzero"}
  BY DEF Codes
<1>1. ASSUME NEW m \in Matrices, Matrix(m) PROVE MatrixInv'
  <2>1. current' = m /\ left' = m.items /\ records' = <<>> /\ matrix' = "next" /\ at' = "idle"
        /\ outerStatus' = "zero" /\ outerExit' = "none"
    BY <1>1 DEF Matrix, vars
  <2>2. m.items \in Seq(Calls) /\ Len(m.items) \in Nat
    BY MatrixAssumption, LenProperties
  <2>3. m.items = SubSeq(m.items, 1, Len(m.items))
    BY <2>2, SubSeqFull
  <2>4. left' = SubSeq(current'.items, Len(records') + 1, Len(current'.items))
    BY <2>1, <2>3
  <2> QED
    BY <1>c, <2>1, <2>2, <2>4 DEF MatrixInv
<1>2. ASSUME matrix # "idle", left # <<>>, NEW code \in Codes, RecordItem(code), outerStatus' = Failed(code),
             UNCHANGED <<current, outerExit, before>>, left' = Tail(left), matrix' = "next", at' = "idle"
      PROVE  MatrixInv'
  <2> DEFINE n == Len(records')
  <2>1. /\ n <= Len(current.items)
        /\ left' = SubSeq(current.items, n + 1, Len(current.items))
        /\ DOMAIN records' = DOMAIN records \cup {n}
        /\ \A i \in DOMAIN records : records'[i] = records[i]
        /\ records'[n].item = current.items[n] /\ records'[n].returncode = code
    <3>1. /\ n <= Len(current.items)
          /\ left' = SubSeq(current.items, n + 1, Len(current.items))
          /\ DOMAIN records' = DOMAIN records \cup {n}
          /\ \A i \in DOMAIN records : records'[i] = records[i]
      BY <1>t, <1>2, ItemRecorded
    <3>2. records'[n] = [item |-> Head(left), returncode |-> code] /\ Head(left) = current.items[n]
      BY <1>t, <1>2, ItemRecorded
    <3> QED
      BY <3>1, <3>2
  <2>2. \A i \in DOMAIN records : records[i].item = current.items[i]
    BY <1>t, <1>2 DEF MatrixInv
  <2>3. outerStatus = "zero" <=> \A i \in DOMAIN records : records[i].returncode = "zero"
    BY <1>t, <1>2 DEF MatrixInv
  <2>4. outerStatus' = "zero" <=> code = "zero" /\ outerStatus = "zero"
    BY <1>2, <1>c DEF Failed
  <2>5. outerExit' = "none"
    BY <1>t, <1>2 DEF MatrixInv
  <2> HIDE DEF n
  <2>6. \A i \in DOMAIN records' : records'[i].item = current.items[i]
    BY <2>1, <2>2
  <2>7. outerStatus' = "zero" <=> \A i \in DOMAIN records' : records'[i].returncode = "zero"
    BY <2>1, <2>3, <2>4
  <2> QED
    BY <1>2, <1>c, <2>1, <2>5, <2>6, <2>7 DEF MatrixInv, n
<1>3. CASE Missing
  <2>1. at' = "idle"
    BY <1>t, <1>3 DEF Missing, MatrixInv
  <2> QED
    BY <1>2, <1>3, <1>c, <2>1 DEF Missing, Continue
<1>4. CASE InnerReturns
  <2>1. left # <<>> /\ exit \in Codes /\ at' = "idle"
    BY <1>t, <1>4 DEF InnerReturns, MatrixInv, vars
  <2> QED
    BY <1>2, <1>4, <2>1 DEF InnerReturns, Continue
<1>5. CASE Inner
  <2>1. /\ matrix = "next" /\ left # <<>> /\ matrix' = "inner"
        /\ UNCHANGED <<current, left, records, outerStatus, outerExit, before>>
        /\ call' = Head(left) /\ first' = replay
        /\ at' = "idle" => exit' = "nonzero"
    BY <1>5 DEF Inner, Sweep, Exits
  <2> QED
    BY <1>t, <1>m, <1>c, <2>1 DEF MatrixInv
<1>6. CASE MatrixReport
  <2>1. at' = "idle"
    BY <1>t, <1>6 DEF MatrixReport, MatrixInv, vars
  <2> QED
    BY <1>6, <2>1 DEF MatrixReport, OuterExits, MatrixInv
<1>7. CASE MatrixInterrupted \/ MatrixDies
  BY <1>7, <1>c DEF MatrixInterrupted, MatrixDies, OuterExits, MatrixInv
<1>8. ASSUME NEW c \in Calls, Alone(c) PROVE MatrixInv'
  BY <1>8, <1>c DEF Alone, MatrixInv
<1>9. CASE Running /\ UNCHANGED matrixVars
  <2>1. UNCHANGED <<matrix, current, left, records, outerStatus, outerExit, before>>
    BY <1>9 DEF matrixVars
  <2> QED
    BY <1>t, <1>9, <2>1, RunningFacts DEF MatrixInv
<1>10. CASE UNCHANGED <<vars, matrixVars>>
  BY <1>t, <1>10 DEF vars, matrixVars, MatrixInv
<1> QED
  BY <1>1, <1>3, <1>4, <1>5, <1>6, <1>7, <1>8, <1>9, <1>10 DEF MatrixNext

LEMMA MatrixInductive ==
  MatrixSpec => []MatrixIInv
<1>1. MatrixIInv /\ [MatrixNext]_<<vars, matrixVars>> => MatrixIInv'
  <2> SUFFICES ASSUME MatrixIInv, [MatrixNext]_<<vars, matrixVars>> PROVE MatrixIInv'
    OBVIOUS
  <2>1. SweepInv'
    BY MatrixStepIsSweepStep, SweepStep DEF MatrixIInv
  <2> QED
    BY <2>1, MatrixTypeStep, MatrixInvStep DEF MatrixIInv
<1> QED
  BY MatrixInitial, <1>1, PTL DEF MatrixSpec

(* replay_common.sh, reset_l2_root: a replay that writes finds in its L2   *)
(* root no block but its own, or with --keep-l2 those of this sweep, and   *)
(* what replays of killed sweeps have written since; for any adapters and  *)
(* roots, and any sweeps at the same roots before it.                      *)
THEOREM StartsCold == MatrixSpec => []ColdStart
<1>1. MatrixIInv => ColdStart
  BY SweepIsCold DEF MatrixIInv
<1> QED
  BY <1>1, MatrixInductive, PTL

(* replay_common.sh, ensure_case_path_available: no replay writes to a     *)
(* directory in which there are results of an earlier sweep.               *)
THEOREM EarlierResultsKept == MatrixSpec => []EarlierKept
<1>1. MatrixIInv => EarlierKept
  BY SweepIsCold DEF MatrixIInv
<1> QED
  BY <1>1, MatrixInductive, PTL

-----------------------------------------------------------------------------
(* Exit codes.                                                             *)

(* What an exit code 0 is about does not change before the next sweep.     *)
LEMMA EndedStays ==
  ASSUME SweepInv, SweepNext, ~Report, exit' = "zero"
  PROVE  exit = "zero" /\ at = "idle" /\ UNCHANGED <<results, call, csv, first, overallStatus, dir, file, list>>
<1>n. at # "idle" => exit = "none"
  BY DEF SweepInv, NumbersInv
<1>1. ASSUME NEW c \in Calls, Sweep(c) PROVE FALSE
  BY <1>1 DEF Sweep, Exits
<1>2. CASE Replay \/ Writes \/ Returns \/ Interrupted \/ Killed
  BY <1>n, <1>2 DEF Replay, Writes, Returns, Interrupted, Killed, Exits
<1>3. CASE Inactive \/ \E o \in orphans : OrphanWrites(o) \/ OrphanEnds(o)
  BY <1>n, <1>3 DEF Inactive, OrphanWrites, OrphanEnds, dir, file, File, list
<1> QED
  BY <1>1, <1>2, <1>3 DEF SweepNext, Running

LEMMA EndStep ==
  ASSUME Unprofiled, SweepInv, EndInv, SweepNext
  PROVE  EndInv'
<1>t. TypeOK /\ PlaceInv
  BY DEF SweepInv
<1>1. CASE Report
  <2>1. at = "next" /\ input = <<>> /\ results' = results /\ file' = file /\ list' = list
    BY <1>1 DEF Report, file, File, list
  <2>2. call.profile = None \/ call.dry
    BY <1>t, CallFacts DEF Unprofiled
  <2>3. Len(results[file]) \in Nat
    BY <1>t, CallFacts, LenProperties DEF TypeOK
  <2>4. Taken = Len(results[file])
    BY <2>1, <2>3 DEF Taken
  <2>5. Taken \in 0 .. Len(list) /\ Behind(Taken) = <<>>
    BY <1>t, <2>1, <2>2 DEF PlaceInv
  <2> QED
    BY <1>t, <2>1, <2>4, <2>5, BehindFacts DEF EndInv
<1>2. CASE ~Report
  BY <1>2, EndedStays DEF EndInv
<1> QED
  BY <1>1, <1>2

LEMMA ZeroSweep ==
  ASSUME SweepInv, EndInv
  PROVE  ZeroIsAll
<1>1. ASSUME exit = "zero"
      PROVE  /\ Len(results[file]) = Len(list)
             /\ \A i \in 1 .. Len(list) :
                  /\ results[file][i].entry = list[i] /\ results[file][i].returncode = "zero"
                  /\ results[file][i].replay > first
  <2>1. Len(results[file]) = Len(list) /\ overallStatus = "zero"
    BY <1>1 DEF SweepInv, NumbersInv, EndInv
  <2>2. DOMAIN results[file] = 1 .. Len(list)
    BY <2>1, CallFacts, LenProperties DEF SweepInv, TypeOK
  <2> QED
    BY <1>1, <2>1, <2>2 DEF SweepInv, RecordsInv
<1> QED
  BY <1>1 DEF ZeroIsAll

(* The records of a zero sweep are one for each case.                      *)
LEMMA ZeroIsFull ==
  ASSUME SweepInv, EndInv, exit = "zero", before <= first, before \in Nat
  PROVE  Full(file, ToSet(list))
<1>1. SweepInv => TypeOK /\ NumbersInv
  BY DEF SweepInv
<1>2. first \in Nat /\ results[file] \in Seq(Records)
  BY <1>1, CallFacts, NumberFacts DEF TypeOK
<1>3. /\ Len(results[file]) = Len(list)
      /\ \A i \in 1 .. Len(list) :
           /\ results[file][i].entry = list[i] /\ results[file][i].returncode = "zero"
           /\ results[file][i].replay > first
  BY ZeroSweep DEF ZeroIsAll
<1>4. DOMAIN results[file] = 1 .. Len(list)
  BY <1>2, <1>3, LenProperties
<1>5. \A i \in DOMAIN results[file] : results[file][i].replay \in Nat
  <2>1. \A i \in DOMAIN results[file] : results[file][i] \in Records
    BY <1>2, LenProperties
  <2> QED
    BY <2>1, ReplaysAreNumbers DEF Records
<1>6. ASSUME NEW e \in ToSet(list)
      PROVE  \E i \in DOMAIN results[file] :
               results[file][i].entry = e /\ results[file][i].returncode = "zero" /\ results[file][i].replay > before
  <2>1. PICK i \in 1 .. Len(list) : list[i] = e
    BY <1>1, TheList
  <2>2. results[file][i].replay > before
    BY <1>2, <1>3, <1>4, <1>5
  <2> QED
    BY <1>3, <1>4, <2>1, <2>2
<1> QED
  BY <1>6 DEF Full

(* A sweep that runs adds to its records.                                  *)
LEMMA FullKept ==
  ASSUME SweepInv, Running, before' = before, NEW f \in Files, NEW cases, Full(f, cases)
  PROVE  Full(f, cases)'
<1>t. TypeOK /\ NumbersInv
  BY DEF SweepInv
<1>1. /\ DOMAIN results[f] \subseteq DOMAIN results'[f]
      /\ \A i \in DOMAIN results[f] : results'[f][i] = results[f][i]
  <2>1. CASE Returns
    <3>1. PICK code \in {"zero", "nonzero"} : Record(code)
      BY <2>1 DEF Returns
    <3>2. replay # 0
      BY <1>t, <2>1, NumberFacts DEF Returns
    <3> QED
      BY <1>t, <3>1, <3>2, RecordFacts
  <2>2. CASE ~Returns
    BY <2>2 DEF Running, Replay, Writes, Report, Interrupted, Killed, OrphanWrites, OrphanEnds
  <2> QED
    BY <2>1, <2>2
<1> QED
  BY <1>1 DEF Full

ExitIInv == MatrixIInv /\ EndInv /\ FullInv /\ TriesAll /\ MatrixZeroIsAll

LEMMA FullStep ==
  ASSUME MatrixIInv, EndInv, FullInv, [MatrixNext]_<<vars, matrixVars>>
  PROVE  FullInv'
<1>t. SweepInv /\ MatrixTypeOK /\ MatrixInv /\ TypeOK /\ NumbersInv /\ before \in Nat
  <2>1. SweepInv /\ MatrixTypeOK /\ MatrixInv
    BY DEF MatrixIInv
  <2>2. TypeOK /\ NumbersInv
    BY <2>1 DEF SweepInv
  <2> QED
    BY <2>1, <2>2, NumberFacts DEF MatrixTypeOK
<1>c. Codes = {"zero", "nonzero"} /\ "zero" # "nonzero"
  BY DEF Codes
<1>f. /\ \A i \in DOMAIN records : records[i].item \in ToSet(current.items) /\ File(records[i].item) \in Files
      /\ \A i \in DOMAIN records, c \in ToSet(current.items) : records[i].item.entries = c.entries
  <2>1. \A c \in ToSet(current.items) : c \in Calls
    BY <1>t, ItemFacts DEF ToSet
  <2>2. records \in Seq([item : ToSet(current.items), returncode : Codes])
    BY <1>t DEF MatrixTypeOK
  <2>3. \A i \in DOMAIN records : records[i] \in [item : ToSet(current.items), returncode : Codes]
    BY <2>2, LenProperties
  <2>4. \A i \in DOMAIN records : records[i].item \in ToSet(current.items)
    BY <2>3
  <2> QED
    BY <1>t, <2>1, <2>4, ItemFacts, ListFacts
<1>1. ASSUME NEW m \in Matrices, Matrix(m) PROVE FullInv'
  BY <1>1 DEF Matrix, FullInv
<1>2. CASE Missing
  BY <1>2, <1>c DEF Missing, Failed, FullInv
<1>3. CASE Inner
  <2>1. /\ matrix = "next" /\ matrix' = "inner" /\ UNCHANGED <<records, outerStatus, before>>
        /\ call' = Head(left)
        /\ results' = results \/ results' = [results EXCEPT ![File(call')] = <<>>]
    BY <1>3 DEF Inner, Sweep
  <2>2. ASSUME NEW f \in Files, NEW cases, Full(f, cases), f # File(call') PROVE Full(f, cases)'
    <3>1. results'[f] = results[f]
      BY <1>t, <2>1, <2>2 DEF TypeOK
    <3> QED
      BY <2>1, <2>2, <3>1 DEF Full
  <2>3. file' = File(call')
    BY DEF file, File
  <2> SUFFICES ASSUME outerStatus' = "zero", NEW i \in DOMAIN records'
               PROVE  Full(File(records[i].item), ToSet(records[i].item.entries))'
                      \/ file' = File(records'[i].item)
    BY <2>1 DEF FullInv, File
  <2>4. Full(File(records[i].item), ToSet(records[i].item.entries))
    BY <2>1 DEF FullInv
  <2> DEFINE f == File(records[i].item)
             cases == ToSet(records[i].item.entries)
  <2>5. f \in Files /\ Full(f, cases) /\ File(records'[i].item) = f /\ ToSet(records'[i].item.entries) = cases
    BY <1>f, <2>1, <2>4
  <2>6. CASE f # File(call')
    <3>1. results'[f] = results[f]
      BY <1>t, <2>1, <2>5, <2>6 DEF TypeOK
    <3>2. Full(f, cases)'
      BY <2>1, <2>5, <3>1 DEF Full
    <3> QED
      BY <3>2
  <2> QED
    BY <2>3, <2>5, <2>6
<1>4. CASE InnerReturns
  <2>1. SUFFICES ASSUME outerStatus' = "zero", NEW i \in DOMAIN records'
                 PROVE  Full(File(records[i].item), ToSet(records[i].item.entries))'
    BY DEF FullInv
  <2>2. /\ matrix = "inner" /\ at = "idle" /\ left # <<>> /\ exit \in Codes /\ call = Head(left)
        /\ before <= first /\ RecordItem(exit) /\ left' = Tail(left) /\ before' = before
        /\ results' = results /\ UNCHANGED current
    BY <1>t, <1>4 DEF InnerReturns, MatrixInv, Continue, vars
  <2>3. exit = "zero" /\ outerStatus = "zero"
    BY <1>4, <2>1, <2>2, <1>c DEF InnerReturns, Failed
  <2>4. Full(file, ToSet(list))
    BY <1>t, <2>2, <2>3, ZeroIsFull
  <2>5. /\ DOMAIN records' = DOMAIN records \cup {Len(records')}
        /\ \A j \in DOMAIN records : records'[j] = records[j]
        /\ records'[Len(records')] = [item |-> Head(left), returncode |-> exit]
    BY <1>t, <2>2, ItemRecorded
  <2>6. \A j \in DOMAIN records :
          Full(File(records[j].item), ToSet(records[j].item.entries)) \/ file = File(records[j].item)
    BY <2>2, <2>3 DEF FullInv
  <2>7. call \in ToSet(current.items)
    BY <1>t, <2>2, ItemFacts
  <2>8. Full(File(records'[i].item), ToSet(records'[i].item.entries))
    <3>1. CASE i \in DOMAIN records
      <4>1. records'[i] = records[i] /\ records[i].item.entries = list
        BY <1>f, <2>5, <2>7, <3>1 DEF list
      <4> QED
        BY <2>4, <2>6, <3>1, <4>1
    <3>2. CASE i = Len(records')
      <4>1. records'[i].item = call
        BY <2>2, <2>5, <3>2
      <4> QED
        BY <2>4, <4>1 DEF file, list
    <3> QED
      BY <2>1, <2>5, <3>1, <3>2
  <2> QED
    BY <2>2, <2>8 DEF Full
<1>5. CASE MatrixReport \/ MatrixInterrupted \/ MatrixDies
  BY <1>5 DEF MatrixReport, MatrixInterrupted, MatrixDies, OuterExits, FullInv
<1>6. ASSUME NEW c \in Calls, Alone(c) PROVE FullInv'
  BY <1>6 DEF Alone, FullInv
<1>7. CASE Running /\ UNCHANGED matrixVars
  <2>1. UNCHANGED <<matrix, records, outerStatus, before, call>>
    BY <1>t, <1>7, RunningFacts DEF matrixVars
  <2>2. file' = file
    BY <2>1 DEF file, File
  <2> SUFFICES ASSUME matrix' # "idle", outerStatus' = "zero", NEW i \in DOMAIN records'
               PROVE  Full(File(records[i].item), ToSet(records[i].item.entries))'
                      \/ (matrix' = "inner" /\ file' = File(records'[i].item))
    BY DEF FullInv, File
  <2>3. \/ Full(File(records[i].item), ToSet(records[i].item.entries))
        \/ matrix = "inner" /\ file = File(records[i].item)
    BY <2>1 DEF FullInv
  <2> DEFINE f == File(records[i].item)
             cases == ToSet(records[i].item.entries)
  <2>4. f \in Files /\ File(records'[i].item) = f /\ ToSet(records'[i].item.entries) = cases
    BY <1>f, <2>1
  <2>5. CASE Full(f, cases)
    <3>1. Full(f, cases)'
      <4>1. \A g \in Files : \A es : Full(g, es) => Full(g, es)'
        BY <1>t, <1>7, <2>1, FullKept
      <4> QED
        BY <2>4, <2>5, <4>1
    <3> QED
      BY <3>1
  <2> QED
    BY <2>1, <2>2, <2>3, <2>4, <2>5
<1>8. CASE UNCHANGED <<vars, matrixVars>>
  BY <1>8 DEF vars, matrixVars, FullInv, Full, file, File
<1> QED
  BY <1>1, <1>2, <1>3, <1>4, <1>5, <1>6, <1>7, <1>8 DEF MatrixNext

(* At the end of its list an outer sweep has a record for each item.       *)
LEMMA EveryItem ==
  ASSUME MatrixTypeOK, MatrixInv, matrix # "idle", left = <<>>
  PROVE  /\ [i \in DOMAIN records |-> records[i].item] = current.items
         /\ \A c \in ToSet(current.items) : \E i \in DOMAIN records : records[i].item = c
<1>1. /\ records \in Seq([item : ToSet(current.items), returncode : Codes])
      /\ DOMAIN records = 1 .. Len(records) /\ Len(records) \in Nat
  BY LenProperties DEF MatrixTypeOK
<1>2. current.items \in Seq(Calls) /\ Len(current.items) \in Nat
      /\ current.items \in [1 .. Len(current.items) -> Calls]
  BY ItemFacts, LenProperties
<1>3. /\ Len(records) <= Len(current.items)
      /\ SubSeq(current.items, Len(records) + 1, Len(current.items)) = <<>>
      /\ \A i \in DOMAIN records : records[i].item = current.items[i]
  BY DEF MatrixInv
<1>4. Len(records) \in 0 .. Len(current.items)
  BY <1>1, <1>2, <1>3
<1>5. Len(records) = Len(current.items)
  BY <1>2, <1>3, <1>4, Suffix
<1>6. [i \in DOMAIN records |-> records[i].item] = current.items
  BY <1>1, <1>2, <1>3, <1>5
<1> QED
  BY <1>1, <1>2, <1>3, <1>5, <1>6 DEF ToSet

(* When its exit code is there, an outer sweep has ended, and no sweep is  *)
(* running.                                                                *)
LEMMA OuterEnded ==
  ASSUME MatrixIInv, [MatrixNext]_<<vars, matrixVars>>, ~MatrixReport, outerExit' \in Codes
  PROVE  /\ UNCHANGED <<current, records, outerStatus, outerExit, before>> /\ outerExit \in Codes
         /\ results' = results
<1>t. SweepInv /\ (outerExit \in Codes => matrix = "idle" /\ at = "idle")
      /\ (matrix # "idle" => outerExit = "none")
  BY DEF MatrixIInv, MatrixInv
<1>c. "none" \notin Codes /\ "broken" \notin Codes
  BY DEF Codes
<1>1. ASSUME NEW m \in Matrices, Matrix(m) PROVE FALSE
  BY <1>1, <1>c DEF Matrix
<1>2. ASSUME NEW c \in Calls, Alone(c) PROVE FALSE
  BY <1>2, <1>c DEF Alone
<1>3. CASE Missing \/ Inner \/ InnerReturns
  BY <1>t, <1>3, <1>c DEF Missing, Inner, InnerReturns
<1>4. CASE MatrixInterrupted \/ MatrixDies
  BY <1>4, <1>c DEF MatrixInterrupted, MatrixDies, OuterExits
<1>5. CASE Running /\ UNCHANGED matrixVars
  <2>1. UNCHANGED <<current, records, outerStatus, outerExit, before>> /\ outerExit \in Codes
    BY <1>5 DEF matrixVars
  <2>2. at = "idle" /\ exit' = exit
    BY <1>t, <1>5, <2>1, RunningFacts
  <2>3. results' = results
    BY <1>5, <2>2 DEF Running, Replay, Writes, Returns, Report, Interrupted, Killed, OrphanWrites, OrphanEnds
  <2> QED
    BY <2>1, <2>3
<1>6. CASE UNCHANGED <<vars, matrixVars>>
  BY <1>6 DEF vars, matrixVars
<1> QED
  BY <1>1, <1>2, <1>3, <1>4, <1>5, <1>6 DEF MatrixNext

LEMMA TriesStep ==
  ASSUME MatrixIInv, TriesAll, [MatrixNext]_<<vars, matrixVars>>
  PROVE  TriesAll'
<1>1. CASE MatrixReport
  <2>1. /\ matrix = "next" /\ left = <<>> /\ UNCHANGED <<current, records>>
        /\ outerExit' = IF current.kind = "workloads" THEN outerStatus
             ELSE IF \E r \in ToSet(records) : r.returncode # "zero" THEN "nonzero" ELSE "zero"
    BY <1>1 DEF MatrixReport, OuterExits
  <2>2. MatrixTypeOK /\ MatrixInv
    BY DEF MatrixIInv
  <2>3. [i \in DOMAIN records |-> records[i].item] = current.items
    BY <2>1, <2>2, EveryItem
  <2>4. outerStatus = "zero" <=> \A i \in DOMAIN records : records[i].returncode = "zero"
    BY <2>1, <2>2 DEF MatrixInv
  <2>5. outerExit' = "zero" <=> \A i \in DOMAIN records : records[i].returncode = "zero"
    BY <2>1, <2>4 DEF ToSet
  <2> QED
    BY <2>1, <2>3, <2>5 DEF TriesAll
<1>2. CASE ~MatrixReport
  <2>1. CASE outerExit' \in Codes
    BY <1>2, <2>1, OuterEnded DEF TriesAll
  <2>2. CASE outerExit' \notin Codes
    BY <2>2 DEF TriesAll
  <2> QED
    BY <2>1, <2>2
<1> QED
  BY <1>1, <1>2

LEMMA MatrixZeroStep ==
  ASSUME MatrixIInv, FullInv, MatrixZeroIsAll, [MatrixNext]_<<vars, matrixVars>>
  PROVE  MatrixZeroIsAll'
<1>1. CASE MatrixReport
  <2>1. /\ matrix = "next" /\ left = <<>> /\ UNCHANGED <<current, records, before, results>>
        /\ outerExit' = IF current.kind = "workloads" THEN outerStatus
             ELSE IF \E r \in ToSet(records) : r.returncode # "zero" THEN "nonzero" ELSE "zero"
    BY <1>1 DEF MatrixReport, OuterExits, vars
  <2>2. MatrixTypeOK /\ MatrixInv
    BY DEF MatrixIInv
  <2>3. ASSUME outerExit' = "zero" PROVE outerStatus = "zero"
    <3>1. outerStatus = "zero" <=> \A i \in DOMAIN records : records[i].returncode = "zero"
      BY <2>1, <2>2 DEF MatrixInv
    <3> QED
      BY <2>1, <2>3, <3>1 DEF ToSet
  <2>4. ASSUME outerExit' = "zero", NEW c \in ToSet(current.items)
        PROVE  Full(File(c), ToSet(c.entries))
    <3>1. PICK i \in DOMAIN records : records[i].item = c
      BY <2>1, <2>2, <2>4, EveryItem
    <3> QED
      BY <2>1, <2>3, <2>4, <3>1 DEF FullInv
  <2>5. ASSUME outerExit' = "zero", NEW c \in ToSet(current.items), NEW e \in ToSet(c.entries)
        PROVE  \E rec \in ToSet(results[File(c)]) :
                 rec.entry = e /\ rec.returncode = "zero" /\ rec.replay > before
    <3>1. PICK i \in DOMAIN results[File(c)] :
            /\ results[File(c)][i].entry = e /\ results[File(c)][i].returncode = "zero"
            /\ results[File(c)][i].replay > before
      BY <2>4, <2>5 DEF Full
    <3>2. results[File(c)][i] \in ToSet(results[File(c)])
      BY DEF ToSet
    <3> QED
      BY <3>1, <3>2
  <2> QED
    BY <2>1, <2>5 DEF MatrixZeroIsAll
<1>2. CASE ~MatrixReport
  BY <1>2, OuterEnded DEF MatrixZeroIsAll, Codes
<1> QED
  BY <1>1, <1>2

LEMMA ExitInductive ==
  ASSUME Unprofiled
  PROVE  MatrixSpec => []ExitIInv
<1>1. MatrixInit => ExitIInv
  <2> SUFFICES ASSUME MatrixInit PROVE ExitIInv
    OBVIOUS
  <2>1. EndInv /\ FullInv /\ TriesAll /\ MatrixZeroIsAll
    BY DEF MatrixInit, Init, EndInv, FullInv, TriesAll, MatrixZeroIsAll, Codes
  <2> QED
    BY <2>1, MatrixInitial DEF ExitIInv
<1>2. ExitIInv /\ [MatrixNext]_<<vars, matrixVars>> => ExitIInv'
  <2> SUFFICES ASSUME ExitIInv, [MatrixNext]_<<vars, matrixVars>> PROVE ExitIInv'
    OBVIOUS
  <2>1. SweepInv /\ SweepNext
    BY MatrixStepIsSweepStep DEF ExitIInv, MatrixIInv
  <2>2. MatrixIInv'
    BY <2>1, SweepStep, MatrixTypeStep, MatrixInvStep DEF ExitIInv, MatrixIInv
  <2>3. EndInv' /\ FullInv'
    BY <2>1, EndStep, FullStep DEF ExitIInv
  <2>4. TriesAll' /\ MatrixZeroIsAll'
    BY TriesStep, MatrixZeroStep DEF ExitIInv
  <2> QED
    BY <2>2, <2>3, <2>4 DEF ExitIInv
<1> QED
  BY <1>1, <1>2, PTL DEF MatrixSpec

(* What the exit codes of the sweeps say, when ssh of no profiler can read *)
(* the list (README, section 8): 0 of replay_speed_sweep.sh or             *)
(* replay_l1_size_sweep.sh is a replay for each entry of the list that     *)
(* ended with 0; the outer sweeps try every item, and their 0 means that   *)
(* no item failed, and that all those replays are in the records.          *)
THEOREM ExitCodesHold ==
  ASSUME Unprofiled
  PROVE  MatrixSpec => []ExitCodesInv
<1>1. ExitIInv => ExitCodesInv
  BY ZeroSweep DEF ExitIInv, MatrixIInv, ExitCodesInv
<1> QED
  BY <1>1, ExitInductive, PTL

-----------------------------------------------------------------------------
(* The CSV.                                                                *)

LEMMA StatsStep ==
  ASSUME SweepInv, StatsInv, SweepNext
  PROVE  StatsInv'
<1>t. /\ TypeOK /\ NumbersInv /\ OutInv /\ dir \in Dirs /\ entry \in Cases
      /\ ToSet(list) \subseteq Cases
  <2>1. TypeOK /\ NumbersInv /\ OutInv
    BY DEF SweepInv
  <2> QED
    BY <2>1, CallFacts, NumberFacts, TheList
<1>g. Orphaned \subseteq Orphaned'
  BY Grow
<1>1. ASSUME NEW c \in Calls, Sweep(c) PROVE StatsInv'
  <2>1. CASE at' = "idle"
    BY <2>1 DEF StatsInv
  <2>2. CASE at' # "idle"
    <3>1. /\ dir' = c.dir /\ c.dir \in Dirs /\ list' = c.entries /\ stats' = stats
          /\ \A e \in ToSet(c.entries) : out[c.dir][e] = {}
      BY <1>1, <2>2, SweepAssumption DEF Sweep, PathsAvailable, Exits, dir, list
    <3>2. \A e \in ToSet(c.entries) : stats[c.dir][e] = None
      BY <1>t, <3>1, ListFacts DEF OutInv
    <3> QED
      BY <3>1, <3>2 DEF StatsInv
  <2> QED
    BY <2>1, <2>2
<1>2. CASE Returns
  <2>1. PICK code \in {"zero", "nonzero"}, json \in BOOLEAN : Record(code) /\ Statistics(json)
    BY <1>2 DEF Returns
  <2>2. at = "running" /\ UNCHANGED <<orphans, dir, file, list>> /\ replay # 0
    BY <1>t, <1>2, NumberFacts DEF Returns, dir, file, File, list
  <2>3. /\ \A i \in DOMAIN results[file] : results'[file][i] = results[file][i]
        /\ DOMAIN results'[file] = DOMAIN results[file] \cup {Len(results[file]) + 1}
        /\ results'[file][Len(results[file]) + 1] =
             [entry |-> entry, replay |-> replay, returncode |-> code, status |-> Status(code)]
    BY <1>t, <2>1, <2>2, RecordFacts
  <2>4. stats' = stats \/ stats' = [stats EXCEPT ![dir][entry] = [replay |-> replay, json |-> json]]
    BY <2>1 DEF Statistics
  <2>5. ASSUME NEW e \in Cases
        PROVE  stats'[dir][e] = stats[dir][e] \/ (e = entry /\ stats'[dir][e].replay = replay)
    BY <1>t, <2>4 DEF TypeOK
  <2>6. ASSUME NEW e \in ToSet(list), stats'[dir][e] # None, stats'[dir][e].replay \notin Orphaned
        PROVE  \E i \in DOMAIN results'[file] :
                 results'[file][i].entry = e /\ results'[file][i].replay = stats'[dir][e].replay
    <3>1. CASE stats'[dir][e] = stats[dir][e]
      <4>1. PICK i \in DOMAIN results[file] :
              results[file][i].entry = e /\ results[file][i].replay = stats[dir][e].replay
        BY <2>2, <2>6, <3>1 DEF StatsInv
      <4> QED
        BY <2>3, <3>1, <4>1
    <3>2. CASE e = entry /\ stats'[dir][e].replay = replay
      <4>1. Len(results[file]) + 1 \in DOMAIN results'[file]
        BY <2>3
      <4> QED
        BY <2>3, <3>2, <4>1
    <3> QED
      BY <1>t, <2>5, <2>6, <3>1, <3>2
  <2> QED
    BY <2>2, <2>6 DEF StatsInv, Orphaned
<1>3. ASSUME NEW o \in orphans, OrphanEnds(o) PROVE StatsInv'
  <2>1. /\ UNCHANGED <<at, dir, file, list, results, orphans>> /\ o.replay \in Orphaned
        /\ stats' = [stats EXCEPT ![o.dir][o.entry] = [replay |-> o.replay, json |-> TRUE]]
    BY <1>3 DEF OrphanEnds, dir, file, File, list, Orphaned
  <2>2. ASSUME NEW e \in Cases
        PROVE  stats'[dir][e] = stats[dir][e] \/ stats'[dir][e].replay = o.replay
    BY <1>t, <2>1 DEF TypeOK
  <2> QED
    BY <1>t, <2>1, <2>2 DEF StatsInv, Orphaned
<1>4. CASE UNCHANGED <<dir, file, list, results, stats>> /\ (at' # "idle" => at # "idle")
  BY <1>g, <1>4 DEF StatsInv
<1> QED
  BY <1>1, <1>2, <1>3, <1>4 DEF SweepNext, Running, Inactive, Replay, Writes, Report, Interrupted, Killed,
     OrphanWrites, Exits, dir, file, File, list

(* The rows of a directory: they are of replays that have returned, and    *)
(* all in the records or none.                                             *)
AllRecorded(d) == \A i \in OwnRows(d) : Recorded(csv[d][i], d)
NoneRecorded(d) == \A i \in OwnRows(d), rec \in SpeedRecords(d) : rec.replay # csv[d][i].replay

RowsFit(d) ==
  /\ \A i \in OwnRows(d) :
       /\ csv[d][i] \in succeeded[d]
       /\ csv[d][i].replay <= replay /\ (at = "running" => csv[d][i].replay < replay)
  /\ \A i, j \in OwnRows(d) : i < j => csv[d][i].replay < csv[d][j].replay
  /\ AllRecorded(d) \/ NoneRecorded(d)

(* The records of successful replays of the speeds.                        *)
SucceededFit(d) ==
  \A rec \in SpeedRecords(d) :
    rec.status = "ok" => [entry |-> rec.entry, replay |-> rec.replay] \in succeeded[d]

(* After exit code 0, each record with its own statistics has a row.       *)
RowsComplete ==
  exit = "zero" /\ call.script = "speeds" /\ ~call.dry =>
    /\ AllRecorded(dir)
    /\ \A rec \in SpeedRecords(dir) :
         LET found == stats[dir][rec.entry] IN
         found # None => (found.replay = rec.replay =>
           \E i \in DOMAIN csv[dir] : csv[dir][i].replay = rec.replay)

CsvIInv == (\A d \in Dirs : RowsFit(d) /\ SucceededFit(d)) /\ RowsComplete

(* What a sweep, or a step of it, leaves of the records and of the         *)
(* replays that have succeeded.                                            *)
LEMMA SpeedRecordsStep ==
  ASSUME SweepInv, SweepNext, NEW d \in Dirs
  PROVE  /\ succeeded[d] \subseteq succeeded'[d]
         /\ \/ SpeedRecords(d)' = SpeedRecords(d) \/ SpeedRecords(d)' = {}
            \/ /\ at = "running" /\ replay' = replay
               /\ \E code \in {"zero", "nonzero"} :
                    LET rec == [entry |-> entry, replay |-> replay, returncode |-> code,
                                status |-> Status(code)] IN
                    /\ SpeedRecords(d)' = SpeedRecords(d) \cup {rec}
                    /\ rec.status = "ok" => [entry |-> entry, replay |-> replay] \in succeeded'[d]
<1>t. TypeOK /\ NumbersInv /\ dir \in Dirs
  BY CallFacts DEF SweepInv
<1> DEFINE f == <<d, "speeds">>
<1>f. f \in Files
  BY DEF Files, Scripts
<1>1. CASE Returns
  <2>1. PICK code \in {"zero", "nonzero"} : Record(code)
    BY <1>1 DEF Returns
  <2>2. at = "running" /\ replay # 0 /\ replay' = replay
    BY <1>t, <1>1, NumberFacts DEF Returns
  <2> DEFINE rec == [entry |-> entry, replay |-> replay, returncode |-> code, status |-> Status(code)]
             n == Len(results[file]) + 1
  <2>3. /\ \A g \in Files \ {file} : results'[g] = results[g]
        /\ \A i \in DOMAIN results[file] : results'[file][i] = results[file][i]
        /\ DOMAIN results'[file] = DOMAIN results[file] \cup {n}
        /\ results'[file][n] = rec
        /\ DOMAIN results[file] = 1 .. Len(results[file]) /\ Len(results[file]) \in Nat
    BY <1>t, <2>1, <2>2, RecordFacts
  <2> DEFINE own == [entry |-> entry, replay |-> replay]
  <2>4. succeeded' = IF code = "zero" /\ call.script = "speeds" /\ ~call.dry
          THEN [succeeded EXCEPT ![dir] = @ \cup {own}] ELSE succeeded
    BY <2>1 DEF Record
  <2>5. DOMAIN succeeded = Dirs
    BY <1>t DEF TypeOK
  <2>6. succeeded[d] \subseteq succeeded'[d]
    BY <1>t, <2>4, <2>5
  <2>7. CASE f = file
    <3>1. d = dir /\ call.script = "speeds"
      BY <1>t, <2>7, CallFacts
    <3>2. rec.status = "ok" => code = "zero" /\ ~call.dry
      BY <3>1 DEF Status
    <3>3. rec.status = "ok" => own \in succeeded'[d]
      BY <1>t, <2>4, <2>5, <3>1, <3>2
    <3>4. ToSet(results'[f]) = ToSet(results[f]) \cup {rec}
      <4>1. n \notin DOMAIN results[file]
        BY <2>3
      <4> HIDE DEF rec, n
      <4> QED
        BY <2>3, <2>7, <4>1 DEF ToSet
    <3>5. SpeedRecords(d)' = SpeedRecords(d) \cup {rec}
      BY <3>4 DEF SpeedRecords
    <3> QED
      BY <2>2, <2>6, <3>3, <3>5
  <2>8. CASE f # file
    <3>1. results'[f] = results[f]
      BY <1>f, <2>3, <2>8
    <3>2. SpeedRecords(d)' = SpeedRecords(d)
      BY <3>1 DEF SpeedRecords, ToSet
    <3> QED
      BY <2>6, <3>2
  <2> QED
    BY <2>7, <2>8
<1>2. CASE ~Returns
  <2>1. results'[f] = results[f] \/ results'[f] = <<>>
    BY <1>2, <1>f, RecordsKeep
  <2>2. succeeded' = succeeded
    BY <1>2 DEF SweepNext, Running, Inactive, Sweep, Replay, Writes, Report, Interrupted, Killed,
       OrphanWrites, OrphanEnds
  <2>3. SpeedRecords(d)' = SpeedRecords(d) \/ SpeedRecords(d)' = {}
    BY <2>1 DEF SpeedRecords, ToSet
  <2> QED
    BY <2>2, <2>3
<1> QED
  BY <1>1, <1>2

LEMMA SucceededStep ==
  ASSUME SweepInv, SweepNext, NEW d \in Dirs, SucceededFit(d)
  PROVE  SucceededFit(d)'
<1>1. succeeded[d] \subseteq succeeded'[d]
  BY SpeedRecordsStep
<1>2. CASE SpeedRecords(d)' = SpeedRecords(d) \/ SpeedRecords(d)' = {}
  BY <1>1, <1>2 DEF SucceededFit
<1>3. ASSUME NEW code \in {"zero", "nonzero"},
             SpeedRecords(d)' = SpeedRecords(d) \cup
               {[entry |-> entry, replay |-> replay, returncode |-> code, status |-> Status(code)]},
             Status(code) = "ok" => [entry |-> entry, replay |-> replay] \in succeeded'[d]
      PROVE  SucceededFit(d)'
  BY <1>1, <1>3 DEF SucceededFit
<1> QED
  BY <1>2, <1>3, SpeedRecordsStep

(* The statistics of a successful replay are its own.                      *)
LEMMA OwnStatistics ==
  ASSUME NoEntryTwice, SweepInv, StatsInv, at # "idle",
         NEW i \in DOMAIN results[file], Selected(results[file][i]),
         stats[dir][results[file][i].entry].replay \notin Orphaned
  PROVE  stats[dir][results[file][i].entry].replay = results[file][i].replay
<1>t. TypeOK /\ RecordsInv /\ dir \in Dirs /\ file \in Files /\ call \in Calls
  BY CallFacts DEF SweepInv
<1>1. results[file] \in Seq(Records)
  BY <1>t DEF TypeOK
<1>2. DOMAIN results[file] = 1 .. Len(results[file]) /\ results[file][i] \in Records
      /\ Len(results[file]) \in Nat
  BY <1>1, LenProperties
<1>5. \A n \in DOMAIN results[file] : n \in DOMAIN list /\ results[file][n].entry = list[n]
  BY <1>t, <1>2, TheList DEF RecordsInv
<1>3. results[file][i].entry \in ToSet(list)
  BY <1>t, <1>5, TheList DEF ToSet
<1>4. PICK k \in DOMAIN results[file] :
        /\ results[file][k].entry = results[file][i].entry
        /\ results[file][k].replay = stats[dir][results[file][i].entry].replay
  BY <1>3 DEF StatsInv, Selected
<1>6. k = i
  BY <1>t, <1>4, <1>5 DEF NoEntryTwice, list
<1> QED
  BY <1>4, <1>6

LEMMA ReportStep ==
  ASSUME NoEntryTwice, SweepInv, StatsInv, CsvIInv, Report
  PROVE  (\A d \in Dirs : RowsFit(d))' /\ RowsComplete'
<1>t. TypeOK /\ NumbersInv /\ RecordsInv /\ dir \in Dirs /\ file \in Files
  BY CallFacts DEF SweepInv
<1>u. /\ at = "next" /\ at' = "idle" /\ Orphaned' = Orphaned
      /\ UNCHANGED <<call, results, stats, succeeded, replay, dir, file>>
  BY DEF Report, Exits, dir, file, File, Orphaned
<1>s. \A d \in Dirs : SpeedRecords(d)' = SpeedRecords(d)
  BY <1>u DEF SpeedRecords, ToSet
<1> DEFINE chosen == {i \in DOMAIN results[file] : Selected(results[file][i])}
           rows == [i \in chosen |-> [entry |-> results[file][i].entry,
                                     replay |-> stats[dir][results[file][i].entry].replay]]
<1>1. \/ csv' = csv /\ exit' # "zero"
      \/ csv' = csv /\ (call.dry \/ call.script = "sizes")
      \/ call.script # "sizes" /\ csv' = [csv EXCEPT ![dir] = rows] /\ exit' \in {overallStatus, "nonzero"}
  BY DEF Report, Exits
<1>k. ASSUME NEW d \in Dirs, csv'[d] = csv[d] PROVE RowsFit(d)'
  <2>1. OwnRows(d)' = OwnRows(d) /\ SpeedRecords(d)' = SpeedRecords(d)
    BY <1>u, <1>s, <1>k DEF OwnRows
  <2> QED
    BY <1>u, <1>k, <2>1 DEF CsvIInv, RowsFit, AllRecorded, NoneRecorded, Recorded
<1>2. CASE csv' = csv /\ (exit' # "zero" \/ call.dry \/ call.script = "sizes")
  <2>2. ~(exit' = "zero" /\ call'.script = "speeds" /\ ~call'.dry)
    BY <1>u, <1>2
  <2>3. RowsComplete'
    BY <2>2 DEF RowsComplete
  <2>4. \A d \in Dirs : csv'[d] = csv[d]
    BY <1>2
  <2>5. \A d \in Dirs : RowsFit(d)'
    BY <1>k, <2>4
  <2> QED
    BY <2>3, <2>5
<1>3. CASE /\ call.script # "sizes" /\ csv' = [csv EXCEPT ![dir] = rows]
           /\ exit' \in {overallStatus, "nonzero"}
  <2>0. file = <<dir, "speeds">>
    BY <1>t, <1>3, CallFacts DEF Scripts
  <2>1. csv'[dir] = rows /\ \A d \in Dirs \ {dir} : csv'[d] = csv[d]
    BY <1>t, <1>3 DEF TypeOK
  <2>r. \A i \in chosen : /\ rows[i].replay = stats[dir][results[file][i].entry].replay
                          /\ rows[i].entry = results[file][i].entry
                          /\ rows[i] = [entry |-> rows[i].entry, replay |-> rows[i].replay]
    OBVIOUS
  <2>o. \A i \in chosen : rows[i].replay \notin Orphaned => rows[i].replay = results[file][i].replay
    BY <1>u, <2>r, OwnStatistics
  <2>d. DOMAIN rows = chosen /\ chosen \subseteq DOMAIN results[file]
    OBVIOUS
  <2>z. \A i \in chosen : /\ results[file][i].returncode = "zero" /\ results[file][i].status = "ok"
                          /\ results[file][i].replay <= replay
    BY <1>t DEF NumbersInv, Selected
  <2>s. \A k \in DOMAIN results[file] :
          results[file][k].status = "ok" /\ stats[dir][results[file][k].entry] # None => k \in chosen
    BY DEF Selected
  <2>e. \A i \in DOMAIN results[file] : results[file][i] \in SpeedRecords(dir)
    BY <2>0 DEF SpeedRecords, ToSet
  <2>f. ASSUME NEW rec \in SpeedRecords(dir) PROVE \E k \in DOMAIN results[file] : results[file][k] = rec
    BY <2>0 DEF SpeedRecords, ToSet
  <2> HIDE DEF rows, chosen
  <2>w. OwnRows(dir)' = {i \in chosen : rows[i].replay \notin Orphaned}
    BY <1>u, <2>1, <2>d DEF OwnRows
  <2>g. \A i \in chosen : rows[i].replay \notin Orphaned =>
          /\ rows[i] \in succeeded[dir] /\ rows[i].replay <= replay
    <3> SUFFICES ASSUME NEW i \in chosen, rows[i].replay \notin Orphaned
                 PROVE  rows[i] \in succeeded[dir] /\ rows[i].replay <= replay
      OBVIOUS
    <3>1. results[file][i] \in SpeedRecords(dir) /\ results[file][i].status = "ok"
      BY <2>d, <2>e, <2>z
    <3>2. [entry |-> results[file][i].entry, replay |-> results[file][i].replay] \in succeeded[dir]
      BY <1>t, <3>1 DEF CsvIInv, SucceededFit
    <3>3. rows[i] = [entry |-> results[file][i].entry, replay |-> results[file][i].replay]
      BY <2>r, <2>o
    <3> QED
      BY <2>z, <2>o, <3>2, <3>3
  <2>2. \A i, j \in chosen : i < j => results[file][i].replay < results[file][j].replay
    BY <1>t, <1>u, <2>d DEF RecordsInv
  <2>3. AllRecorded(dir)'
    <3> SUFFICES ASSUME NEW i \in chosen, rows[i].replay \notin Orphaned
                 PROVE  \E rec \in SpeedRecords(dir) : rec.replay = rows[i].replay
                          /\ rec.entry = rows[i].entry /\ rec.returncode = "zero"
      BY <1>u, <1>s, <1>t, <2>1, <2>w DEF AllRecorded, Recorded
    <3> QED
      BY <2>d, <2>e, <2>z, <2>r, <2>o
  <2>4. RowsFit(dir)'
    <3>1. \A i \in OwnRows(dir)' :
            csv'[dir][i] \in succeeded[dir] /\ csv'[dir][i].replay <= replay
      BY <2>1, <2>w, <2>g
    <3>2. \A i, j \in OwnRows(dir)' : i < j => csv'[dir][i].replay < csv'[dir][j].replay
      BY <2>1, <2>w, <2>o, <2>2
    <3>3. (\A i \in OwnRows(dir) : csv[dir][i] \in succeeded[dir] /\ csv[dir][i].replay <= replay
             /\ (at = "running" => csv[dir][i].replay < replay))'
      BY <1>u, <3>1
    <3> QED
      BY <1>u, <2>3, <3>2, <3>3 DEF RowsFit
  <2>5. RowsComplete'
    <3> SUFFICES ASSUME exit' = "zero", ~call.dry, NEW rec \in SpeedRecords(dir),
                        stats[dir][rec.entry] # None, stats[dir][rec.entry].replay = rec.replay
                 PROVE  \E i \in DOMAIN csv'[dir] : csv'[dir][i].replay = rec.replay
      BY <1>u, <1>s, <1>t, <2>3 DEF RowsComplete
    <3>k. PICK k \in DOMAIN results[file] : results[file][k] = rec
      BY <2>f
    <3>1. overallStatus = "zero"
      BY <1>3
    <3>2. results[file][k].returncode = "zero" /\ results[file][k].status = "ok"
      BY <1>t, <1>u, <3>1 DEF RecordsInv
    <3>3. k \in chosen
      BY <2>s, <3>2, <3>k
    <3> QED
      BY <2>1, <2>d, <2>r, <3>3, <3>k
  <2>6. ASSUME NEW d \in Dirs, d # dir PROVE RowsFit(d)'
    BY <1>k, <2>1, <2>6
  <2>7. ASSUME NEW d \in Dirs PROVE RowsFit(d)'
    <3>1. CASE d = dir
      <4>1. csv'[d] = csv'[dir'] /\ RowsFit(dir)'
        BY <1>u, <2>4, <3>1
      <4> QED
        BY <1>u, <2>4, <3>1
    <3> QED
      BY <2>6, <3>1
  <2> QED
    BY <2>5, <2>7
<1> QED
  BY <1>1, <1>2, <1>3

LEMMA RowsFitStep ==
  ASSUME SweepInv, SweepNext, ~Report, NEW d \in Dirs, RowsFit(d)
  PROVE  RowsFit(d)'
<1>t. TypeOK /\ NumbersInv
  BY DEF SweepInv
<1>c. csv' = csv
  BY DEF SweepNext, Running, Sweep, Inactive, Replay, Writes, Returns, Interrupted, Killed, OrphanWrites,
     OrphanEnds
<1>o. OwnRows(d)' \subseteq OwnRows(d)
  BY <1>c, Grow DEF OwnRows
<1>n. replay \in Nat /\ \A i \in OwnRows(d) : csv[d][i].replay \in Nat
  <2>1. csv[d] \in [DOMAIN csv[d] -> Rows]
    BY <1>t DEF TypeOK
  <2> QED
    BY <1>t, <2>1, NumberFacts, ReplaysAreNumbers DEF Rows, OwnRows
<1>r. \/ replay' = replay /\ (at' = "running" => at = "running")
      \/ replay' = replay + 1
  BY DEF SweepNext, Running, Sweep, Inactive, Replay, Writes, Returns, Interrupted, Killed,
     OrphanWrites, OrphanEnds, Exits
<1>1. \A i \in OwnRows(d)' :
        /\ csv'[d][i] \in succeeded'[d]
        /\ csv'[d][i].replay <= replay' /\ (at' = "running" => csv'[d][i].replay < replay')
  <2> SUFFICES ASSUME NEW i \in OwnRows(d)'
               PROVE  /\ csv[d][i] \in succeeded'[d]
                      /\ csv[d][i].replay <= replay' /\ (at' = "running" => csv[d][i].replay < replay')
    BY <1>c
  <2>1. i \in OwnRows(d) /\ csv[d][i].replay \in Nat
    BY <1>o, <1>n
  <2>2. csv[d][i] \in succeeded[d] /\ csv[d][i].replay <= replay /\ (at = "running" => csv[d][i].replay < replay)
    BY <2>1 DEF RowsFit
  <2>3. succeeded[d] \subseteq succeeded'[d]
    BY SpeedRecordsStep
  <2>4. csv[d][i].replay <= replay' /\ (at' = "running" => csv[d][i].replay < replay')
    BY <1>n, <1>r, <2>1, <2>2
  <2> QED
    BY <2>2, <2>3, <2>4
<1>2. \A i, j \in OwnRows(d)' : i < j => csv'[d][i].replay < csv'[d][j].replay
  BY <1>c, <1>o DEF RowsFit
<1>3. AllRecorded(d)' \/ NoneRecorded(d)'
  <2>1. CASE SpeedRecords(d)' = SpeedRecords(d)
    <3>1. AllRecorded(d) => AllRecorded(d)'
      BY <1>c, <1>o, <2>1 DEF AllRecorded, Recorded
    <3>2. NoneRecorded(d) => NoneRecorded(d)'
      BY <1>c, <1>o, <2>1 DEF NoneRecorded
    <3> QED
      BY <3>1, <3>2 DEF RowsFit
  <2>2. CASE SpeedRecords(d)' = {}
    BY <2>2 DEF NoneRecorded
  <2>3. ASSUME at = "running", NEW rec, rec.replay = replay,
               SpeedRecords(d)' = SpeedRecords(d) \cup {rec}
        PROVE  AllRecorded(d)' \/ NoneRecorded(d)'
    <3>1. AllRecorded(d) => AllRecorded(d)'
      BY <1>c, <1>o, <2>3 DEF AllRecorded, Recorded
    <3>2. ASSUME NoneRecorded(d) PROVE NoneRecorded(d)'
      <4>1. \A i \in OwnRows(d) : csv[d][i].replay < replay /\ csv[d][i].replay # replay
        BY <1>n, <2>3 DEF RowsFit
      <4> QED
        BY <1>c, <1>o, <2>3, <3>2, <4>1 DEF NoneRecorded
    <3> QED
      BY <3>1, <3>2 DEF RowsFit
  <2>4. ASSUME at = "running", NEW code \in {"zero", "nonzero"},
               SpeedRecords(d)' = SpeedRecords(d) \cup
                 {[entry |-> entry, replay |-> replay, returncode |-> code, status |-> Status(code)]}
        PROVE  AllRecorded(d)' \/ NoneRecorded(d)'
    <3> DEFINE rec == [entry |-> entry, replay |-> replay, returncode |-> code, status |-> Status(code)]
    <3>1. rec.replay = replay /\ SpeedRecords(d)' = SpeedRecords(d) \cup {rec}
      BY <2>4
    <3> HIDE DEF rec
    <3> QED
      BY <2>3, <2>4, <3>1
  <2> QED
    BY <2>1, <2>2, <2>4, SpeedRecordsStep
<1> QED
  BY <1>1, <1>2, <1>3 DEF RowsFit

LEMMA RowsCompleteStep ==
  ASSUME SweepInv, RowsComplete, SweepNext, ~Report
  PROVE  RowsComplete'
<1> SUFFICES ASSUME exit' = "zero", call'.script = "speeds" PROVE RowsComplete'
  BY DEF RowsComplete
<1>t. TypeOK /\ NumbersInv /\ dir \in Dirs /\ file \in Files
  BY CallFacts DEF SweepInv
<1>1. exit = "zero" /\ at = "idle" /\ UNCHANGED <<results, call, csv, dir, file>>
  BY EndedStays
<1>0. file = <<dir, "speeds">>
  BY <1>t, <1>1, CallFacts
<1>s. SpeedRecords(dir)' = SpeedRecords(dir)
  BY <1>1 DEF SpeedRecords, ToSet
<1>a. AllRecorded(dir) => AllRecorded(dir)'
  <2>1. OwnRows(dir)' \subseteq OwnRows(dir)
    BY <1>1, Grow DEF OwnRows
  <2> QED
    BY <1>1, <1>s, <2>1 DEF AllRecorded, Recorded
<1>2. CASE UNCHANGED stats
  BY <1>1, <1>2, <1>s, <1>a DEF RowsComplete
<1>3. ASSUME NEW o \in orphans, OrphanEnds(o) PROVE RowsComplete'
  <2>1. /\ stats' = [stats EXCEPT ![o.dir][o.entry] = [replay |-> o.replay, json |-> TRUE]]
        /\ o.replay \in Orphaned
    BY <1>3 DEF OrphanEnds, Orphaned
  <2>2. ASSUME NEW rec \in SpeedRecords(dir)
        PROVE  rec.replay \notin Orphaned /\ rec.entry \in Cases
    <3>1. results[file] \in Seq(Records)
      BY <1>t DEF TypeOK
    <3>k. PICK k \in DOMAIN results[file] : results[file][k] = rec
      BY <1>0, <2>2 DEF SpeedRecords, ToSet
    <3>2. results[file][k] \in Records
      BY <3>1, LenProperties
    <3> QED
      BY <1>t, <3>k, <3>2 DEF NumbersInv, Records
  <2>3. ASSUME NEW e \in Cases
        PROVE  stats'[dir][e] = stats[dir][e] \/ stats'[dir][e].replay = o.replay
    BY <1>t, <2>1 DEF TypeOK
  <2>4. \A rec \in SpeedRecords(dir) :
          stats'[dir][rec.entry].replay = rec.replay => stats'[dir][rec.entry] = stats[dir][rec.entry]
    BY <2>1, <2>2, <2>3
  <2> QED
    BY <1>1, <1>s, <1>a, <2>4 DEF RowsComplete
<1> QED
  BY <1>1, <1>2, <1>3 DEF SweepNext, Running, Sweep, Inactive, Replay, Writes, Returns, Interrupted,
     Killed, OrphanWrites

CsvAll == MatrixIInv /\ StatsInv /\ CsvIInv

LEMMA CsvInductive ==
  ASSUME NoEntryTwice
  PROVE  MatrixSpec => []CsvAll
<1>1. MatrixInit => CsvAll
  <2> SUFFICES ASSUME MatrixInit PROVE CsvAll
    OBVIOUS
  <2>1. StatsInv /\ CsvIInv
    <3>1. \A d \in Dirs : csv[d] = <<>> /\ SpeedRecords(d) = {}
      BY DEF MatrixInit, Init, SpeedRecords, ToSet, Files, Scripts
    <3>2. \A d \in Dirs : OwnRows(d) = {}
      BY <3>1 DEF OwnRows
    <3> QED
      BY <3>1, <3>2 DEF MatrixInit, Init, StatsInv, CsvIInv, RowsFit, AllRecorded, SucceededFit, RowsComplete
  <2> QED
    BY <2>1, MatrixInitial DEF CsvAll
<1>2. CsvAll /\ [MatrixNext]_<<vars, matrixVars>> => CsvAll'
  <2> SUFFICES ASSUME CsvAll, [MatrixNext]_<<vars, matrixVars>> PROVE CsvAll'
    OBVIOUS
  <2>1. SweepInv /\ SweepNext
    BY MatrixStepIsSweepStep DEF CsvAll, MatrixIInv
  <2>2. MatrixIInv'
    BY <2>1, SweepStep, MatrixTypeStep, MatrixInvStep DEF CsvAll, MatrixIInv
  <2>3. StatsInv'
    BY <2>1, StatsStep DEF CsvAll
  <2>4. CsvIInv'
    <3>0. ASSUME NEW d \in Dirs PROVE SucceededFit(d)'
      BY <2>1, SucceededStep DEF CsvAll, CsvIInv
    <3>1. CASE Report
      <4>1. (\A d \in Dirs : RowsFit(d))' /\ RowsComplete'
        BY <2>1, <3>1, ReportStep DEF CsvAll
      <4> QED
        BY <3>0, <4>1 DEF CsvIInv
    <3>2. CASE ~Report
      <4>1. ASSUME NEW d \in Dirs PROVE RowsFit(d)'
        BY <2>1, <3>2, RowsFitStep DEF CsvAll, CsvIInv
      <4>2. RowsComplete'
        BY <2>1, <3>2, RowsCompleteStep DEF CsvAll, CsvIInv
      <4> QED
        BY <3>0, <4>1, <4>2 DEF CsvIInv
    <3> QED
      BY <3>1, <3>2
  <2> QED
    BY <2>2, <2>3, <2>4 DEF CsvAll
<1> QED
  BY <1>1, <1>2, PTL DEF MatrixSpec

(* report.py, write_speed_sweep_csv: for lists in which no entry is        *)
(* repeated, a row of sweep-summary.csv is about a replay of the speeds    *)
(* that ended with 0, and has its own statistics; the rows are in the      *)
(* order of the replays; all are about records in sweep-results.jsonl, or  *)
(* none, when it is the CSV of an earlier sweep; and after exit code 0 all *)
(* are, and none is missing.  Any sweep can have any list.                 *)
THEOREM CsvHolds ==
  ASSUME NoEntryTwice
  PROVE  MatrixSpec => []CsvIsSuccessful
<1>1. CsvAll => CsvIsSuccessful
  BY DEF CsvAll, CsvIInv, RowsFit, RowsComplete, AllRecorded, NoneRecorded, CsvIsSuccessful
<1> QED
  BY <1>1, CsvInductive, PTL

(* replay_workload_sweep.sh and replay_backend_sweep.sh, whoever reads the *)
(* lists of the inner sweeps: when an outer sweep reaches its end it has a *)
(* record for each of its items, in their order, and its exit code is 0    *)
(* exactly when none of them failed.                                       *)
THEOREM AllTried == MatrixSpec => [](MatrixTypeOK /\ TriesAll)
<1>1. MatrixInit => TriesAll
  BY DEF MatrixInit, TriesAll, Codes
<1>2. MatrixIInv /\ TriesAll /\ [MatrixNext]_<<vars, matrixVars>> => TriesAll'
  BY TriesStep
<1>3. MatrixIInv => MatrixTypeOK
  BY DEF MatrixIInv
<1> QED
  BY <1>1, <1>2, <1>3, MatrixInductive, PTL DEF MatrixSpec

=============================================================================
