------------------------- MODULE MooncakeTraceProofs -------------------------
(***************************************************************************)
(* Proofs about MooncakeTrace, for any number of callers, traces, versions *)
(* and failures.                                                           *)
(***************************************************************************)
EXTENDS MooncakeTrace, SequenceTheorems, TLAPS

-----------------------------------------------------------------------------
(* Inductive invariants.                                                   *)

Downloading == {"made", "download", "replace", "unlink"}
Reading == {"count", "sum", "client"}

(* A call under way has a trace, and reads one that is there.              *)
CallInv ==
  \A c \in Callers :
    /\ pc[c] # "idle" => todo[c] # <<>>
    /\ pc[c] \in Reading => Current(c) # None

(* Only a download has a temporary file, which is a whole response before  *)
(* it is renamed.                                                          *)
TempInv ==
  \A c \in Callers :
    /\ temp[c] # None <=> pc[c] \in Downloading
    /\ pc[c] = "replace" => temp[c] \in fetched[Head(todo[c])]

IInv == TypeOK /\ CallInv /\ TempInv /\ FileIsAResponse /\ parts = kills + lapses

(* No plan is left of the trace before while the next one is read.         *)
NoPlan == \A c \in Callers : pc[c] \in Downloading \cup {"count", "sum"} => plan[c] = <<>>

IPlansInv == IInv /\ NoPlan /\ PlansInv

FitsModel(s) == \A i \in DOMAIN s : s[i].tokens <= MaxModelLen

(* A recorder whose file stays what its plan was made from asks for what   *)
(* the plan has.                                                           *)
RowsInv ==
  \A c \in Recorders :
    /\ result[c] = "ok" => pc[c] = "idle"
    /\ pc[c] = "client" => FitsModel(plan[c])
    /\ pc[c] = "client" /\ ~replaced[c] =>
         /\ Current(c) = opened[c] /\ Len(plan[c]) <= Len(opened[c])
         /\ plan[c] = SubSeq(opened[c], 1, Len(plan[c]))
    /\ pc[c] = "stats" \/ result[c] = "ok" =>
         FitsModel(plan[c]) /\ (~replaced[c] => rows[c] = plan[c])

-----------------------------------------------------------------------------
(* The operators of the model.                                             *)

(* What \div is, by the definition of a quotient.                          *)
LEMMA Quotient ==
  ASSUME NEW x \in Nat, NEW d \in Nat \ {0}
  PROVE  /\ x \div d \in Nat
         /\ (x \div d) * d <= x
         /\ x < (x \div d) * d + d
OBVIOUS

(* The product of naturals grows with its first factor.                    *)
LEMMA Product ==
  ASSUME NEW a \in Int, NEW b \in Int, NEW d \in Nat
  PROVE  /\ a * d \in Int
         /\ (a - 1) * d = a * d - d
         /\ a <= b => a * d <= b * d
         /\ d > 0 /\ a * d < b * d => a < b
OBVIOUS

(* The first whole number that is not below u / (100 * Percent).           *)
LEMMA CeilBounds ==
  ASSUME NEW u \in Int, u > -(100 * Percent)
  PROVE  /\ Ceil(u) \in Nat
         /\ Ceil(u) * (100 * Percent) >= u
         /\ (Ceil(u) - 1) * (100 * Percent) < u
<1> DEFINE d == 100 * Percent
           q == (u + d - 1) \div d
<1>1. d \in Nat \ {0} /\ u > -d
  BY MooncakeAssumption
<1> HIDE DEF d
<1>2. u + d - 1 \in Nat
  BY <1>1
<1>3. q \in Nat /\ q * d <= u + d - 1 /\ u + d - 1 < q * d + d
  BY <1>1, <1>2, Quotient
<1> HIDE DEF q
<1>4. q * d \in Int /\ (q - 1) * d = q * d - d
  BY <1>1, <1>3, Product
<1>5. q * d >= u /\ (q - 1) * d < u
  BY <1>1, <1>3, <1>4
<1>6. q = Ceil(u)
  BY DEF q, d, Ceil
<1> QED
  BY <1>3, <1>5, <1>6 DEF d

(* A percentage of a trace, rounded up: at least one request and at most   *)
(* all of them.                                                            *)
LEMMA ExactBounds ==
  ASSUME NEW n \in Nat \ {0}, NEW p \in 1 .. 100 * Percent
  PROVE  /\ n * p \in Nat \ {0}
         /\ Exact(n, p) \in 1 .. n
<1> DEFINE d == 100 * Percent
           x == n * p
           e == Exact(n, p)
<1>1. d \in Nat \ {0} /\ p \in Nat \ {0} /\ p <= d
  BY MooncakeAssumption
<1>2. x \in Nat /\ x >= 1 /\ x <= n * d
  <2>1. x = p * n /\ 1 * n = n /\ n * d = d * n
    BY <1>1
  <2> QED
    BY <1>1, <2>1, Product
<1>3. e \in Nat /\ e * d >= x /\ (e - 1) * d < x
  BY <1>1, <1>2, CeilBounds DEF Exact
<1> HIDE DEF d, x, e
<1>4. e * d \in Int /\ 0 * d = 0 /\ (e - 1) * d \in Int /\ n * d \in Int
  BY <1>1, <1>3, Product
<1>5. 0 < e
  BY <1>1, <1>2, <1>3, <1>4, Product
<1>6. e - 1 < n
  BY <1>1, <1>2, <1>3, <1>4, Product
<1> QED
  BY <1>2, <1>3, <1>5, <1>6 DEF x, e

(* Less than one request more or less, and rounded up: at most one more or *)
(* less.                                                                   *)
LEMMA CeilNear ==
  ASSUME NEW x \in Nat, NEW u \in Int, x - 100 * Percent < u, u < x + 100 * Percent
  PROVE  Ceil(u) \in Nat /\ Ceil(u) \in Ceil(x) - 1 .. Ceil(x) + 1
<1> DEFINE d == 100 * Percent
           q == Ceil(u)
           e == Ceil(x)
<1>1. d \in Nat \ {0} /\ u > -d /\ x > -d /\ x - d < u /\ u < x + d /\ x \in Int
  BY MooncakeAssumption
<1>2. q \in Nat /\ q * d >= u /\ (q - 1) * d < u
  BY <1>1, CeilBounds
<1>3. e \in Nat /\ e * d >= x /\ (e - 1) * d < x
  BY <1>1, CeilBounds
<1> HIDE DEF d, q, e
<1>4. /\ q * d \in Int /\ (q - 1) * d = q * d - d
      /\ e * d \in Int /\ (e - 1) * d = e * d - d
  BY <1>1, <1>2, <1>3, Product
<1>5. (q - 1) * d < e * d + d /\ (e - 1) * d < q * d + d
  BY <1>1, <1>2, <1>3, <1>4
<1>6. e * d + d = (e + 1) * d /\ q * d + d = (q + 1) * d
  <2>1. (e + 1 - 1) * d = (e + 1) * d - d /\ (q + 1 - 1) * d = (q + 1) * d - d
        /\ (e + 1) * d \in Int /\ (q + 1) * d \in Int
    BY <1>1, <1>2, <1>3, Product
  <2>2. e + 1 - 1 = e /\ q + 1 - 1 = q
    BY <1>2, <1>3
  <2> QED
    BY <1>1, <1>4, <2>1, <2>2
<1>7. q - 1 < e + 1
  BY <1>1, <1>2, <1>3, <1>5, <1>6, Product
<1>8. e - 1 < q + 1
  BY <1>1, <1>2, <1>3, <1>5, <1>6, Product
<1> QED
  BY <1>2, <1>3, <1>7, <1>8 DEF q, e

(* The limit of a selection; that of a percentage is at most all of the    *)
(* requests, and what PercentIsKept says of it.                            *)
LEMMA LimitBounds ==
  ASSUME NEW n \in Nat \ {0}, NEW w \in Selections, NEW l \in Limits(n, w)
  PROVE  /\ l \in Nat
         /\ w.percent # None =>
              /\ l \in 0 .. n
              /\ l \in Exact(n, w.percent) - 1 .. Exact(n, w.percent) + 1
              /\ w.percent % Percent = 0 => l = Exact(n, w.percent)
<1>1. CASE w.percent = None
  BY <1>1, MooncakeAssumption DEF Limits
<1>2. CASE w.percent # None
  <2> DEFINE p == w.percent
             x == n * p
             e == Exact(n, p)
             o == Off(p)
  <2>1. p \in 1 .. 100 * Percent
    BY <1>2, MooncakeAssumption
  <2>2. x \in Nat \ {0} /\ e \in 1 .. n
    BY <2>1, ExactBounds
  <2>3. o \in Nat /\ o < 100 * Percent /\ 100 * Percent \in Nat /\ (p % Percent = 0 => o = 0)
    BY MooncakeAssumption DEF Off
  <2>4. PICK u \in x - o .. x + o : l = AtMost(n, Ceil(u))
    BY <1>2 DEF Limits
  <2> HIDE DEF x, o
  <2>5. u \in Int /\ x - 100 * Percent < u /\ u < x + 100 * Percent
    BY <2>2, <2>3, <2>4
  <2>6. Ceil(u) \in Nat /\ Ceil(u) \in e - 1 .. e + 1
    BY <2>2, <2>5, CeilNear DEF Exact, x
  <2>7. p % Percent = 0 => Ceil(u) = e
    <3>1. o = 0 => u = x
      BY <2>2, <2>3, <2>4
    <3> QED
      BY <2>3, <3>1 DEF Exact, x
  <2> HIDE DEF e
  <2>8. l \in 0 .. n /\ l \in e - 1 .. e + 1 /\ (p % Percent = 0 => l = e)
    BY <2>2, <2>4, <2>6, <2>7 DEF AtMost
  <2> QED
    BY <2>8 DEF e
<1> QED
  BY <1>1, <1>2

(* A prefix of a sequence.                                                 *)
LEMMA Prefix ==
  ASSUME NEW S, NEW s \in Seq(S), NEW n \in 0 .. Len(s)
  PROVE  /\ SubSeq(s, 1, n) \in Seq(S)
         /\ Len(SubSeq(s, 1, n)) = n
         /\ \A i \in 1 .. n : SubSeq(s, 1, n)[i] = s[i]
<1>1. \A i \in 1 .. n : s[i] \in S
  BY LenProperties
<1> QED
  BY <1>1, SubSeqProperties, LenProperties

(* The lists of a call: not empty, and of traces.                          *)
LEMMA ListsOfTraces ==
  ASSUME NEW c \in Callers, NEW ts \in Lists(c)
  PROVE  ts \in Seq(Traces) /\ ts # <<>>
<1>1. \A t \in Traces : <<t>> \in Seq(Traces) /\ <<t>> # <<>>
  OBVIOUS
<1> QED
  BY <1>1, MooncakeAssumption DEF Lists

(* The trace a call is at.                                                 *)
LEMMA HeadIsTrace ==
  ASSUME TypeOK, CallInv, NEW c \in Callers, pc[c] # "idle"
  PROVE  Head(todo[c]) \in Traces /\ Tail(todo[c]) \in Seq(Traces)
BY HeadTailProperties DEF TypeOK, CallInv

-----------------------------------------------------------------------------
(* The files.                                                              *)

LEMMA InvInit == Init => IInv
<1> SUFFICES ASSUME Init PROVE IInv
  OBVIOUS
<1>1. (CHOOSE w \in Selections : TRUE) \in Selections
  BY MooncakeAssumption
<1>2. TypeOK
  BY <1>1, MooncakeAssumption DEF Init, TypeOK, Points
<1>3. CallInv /\ TempInv /\ FileIsAResponse /\ parts = kills + lapses
  BY DEF Init, CallInv, TempInv, FileIsAResponse, Reading, Downloading
<1> QED
  BY <1>2, <1>3 DEF IInv

(* A sequence of entries that a call holds.                                *)
LEMMA Held ==
  ASSUME IInv, NEW c \in Callers, temp[c] # None
  PROVE  /\ temp[c] \in Seq(Entries)
         /\ \A line \in {<<>>, <<Bad>>} : temp[c] \o line \in Seq(Entries)
         /\ Len(temp[c]) < Len(source[c]) =>
              SubSeq(source[c], 1, Len(temp[c]) + 1) \in Seq(Entries)
<1>1. temp[c] \in Seq(Entries) /\ source[c] \in Seq(Entries)
  BY DEF IInv, TypeOK
<1>2. <<>> \in Seq(Entries) /\ <<Bad>> \in Seq(Entries)
  BY DEF Entries
<1>3. Len(temp[c]) \in Nat /\ Len(source[c]) \in Nat
  BY <1>1, LenProperties
<1> QED
  BY <1>1, <1>2, <1>3, ConcatProperties, Prefix

(* A file that is there.                                                   *)
LEMMA Present ==
  ASSUME IInv, NEW c \in Callers, pc[c] \in Reading
  PROVE  Current(c) \in Seq(Entries) /\ Len(Current(c)) \in Nat
<1>1. Head(todo[c]) \in Traces
  BY HeadIsTrace DEF IInv, Reading
<1>2. Current(c) \in Seq(Entries)
  BY <1>1 DEF IInv, TypeOK, CallInv, Current
<1> QED
  BY <1>2, LenProperties

(* The limit a call has settled on is at most what it has counted.          *)
LimitInv == \A c \in Callers : pc[c] \in {"sum", "client", "stats"} => limit[c] \in 0 .. total[c]

(* Every step keeps the types.                                             *)
LEMMA TypeStep == IInv /\ [Next]_vars => TypeOK'
<1>a. MaxCalls \in Nat /\ MaxFailures \in Nat /\ MaxChanges \in Nat
  BY MooncakeAssumption
<1>b. \A v \in Versions : v \in Seq(Entries)
  BY MooncakeAssumption
<1>c. IInv => TypeOK /\ CallInv /\ TempInv
  BY DEF IInv
<1>1. ASSUME IInv, NEW c \in Callers, NEW w \in Selections, NEW ts \in Lists(c), Begin(c, ts, w) PROVE TypeOK'
  <2>t. TypeOK /\ CallInv /\ TempInv
    BY <1>1, <1>c
  <2>1. pc' \in [Callers -> Points]
    <3>1. Goto(c, "idle") \/ Goto(c, "ensure")
      BY <1>1, Zenon DEF Begin, Ends
    <3> QED
      BY <2>t, <3>1 DEF TypeOK, Points, Goto
  <2>2. result' \in [Callers -> {"none", "ok", "error"}]
    BY <1>1, <2>t DEF TypeOK, Begin, Ends
  <2>3. LimitInv'
    BY <1>1, <2>t DEF TypeOK, Begin, LimitInv, Goto, Ends
  <2>4. todo' \in [Callers -> Seq(Traces)]
    BY <1>1, <2>t, ListsOfTraces DEF TypeOK, Begin
  <2>5. want' \in [Callers -> Selections]
    BY <1>1, <2>t DEF TypeOK, Begin
  <2>6. plan' \in [Callers -> Seq(Entries)]
    BY <1>1, <2>t DEF TypeOK, Begin
  <2>7. rows' \in [Callers -> Seq(Entries)]
    BY <1>1, <2>t DEF TypeOK, Begin
  <2>8. opened' \in [Callers -> Seq(Entries)]
    BY <1>1, <2>t DEF TypeOK, Begin
  <2>9. total' \in [Callers -> Nat]
    BY <1>1, <2>t DEF TypeOK, Begin
  <2>10. limit' \in [Callers -> Nat]
    BY <1>1, <2>t DEF TypeOK, Begin
  <2>11. calls' \in 0 .. MaxCalls
    BY <1>1, <2>t, <1>a DEF TypeOK, Begin
  <2> QED
    BY <1>1, <2>t, <2>1, <2>2, <2>3, <2>4, <2>5, <2>6, <2>7, <2>8, <2>9, <2>10, <2>11 DEF TypeOK, Begin, LimitInv
<1>2. ASSUME IInv, NEW c \in Callers, Ensure(c) PROVE TypeOK'
  <2>t. TypeOK /\ CallInv /\ TempInv
    BY <1>2, <1>c
  <2>1. pc' \in [Callers -> Points]
    <3>1. Goto(c, "count") \/ Goto(c, "made") \/ Goto(c, "idle")
      BY <1>2, Zenon DEF Ensure, Ends
    <3> QED
      BY <2>t, <3>1 DEF TypeOK, Points, Goto
  <2>2. result' \in [Callers -> {"none", "ok", "error"}]
    BY <1>2, <2>t DEF TypeOK, Ensure, Ends
  <2>3. LimitInv'
    BY <1>2, <2>t DEF TypeOK, Ensure, LimitInv, Goto, Ends
  <2>4. temp' \in [Callers -> Seq(Entries) \cup {None}]
    <3>1. temp' = temp \/ temp' = [temp EXCEPT ![c] = <<>>]
      BY <1>2, Zenon DEF Ensure
    <3>2. temp \in [Callers -> Seq(Entries) \cup {None}] /\ <<>> \in Seq(Entries)
      BY <2>t DEF TypeOK
    <3> QED
      BY <3>1, <3>2
  <2>5. plan' \in [Callers -> Seq(Entries)]
    BY <1>2, <2>t DEF TypeOK, Ensure
  <2> QED
    BY <1>2, <2>t, <2>1, <2>2, <2>3, <2>4, <2>5 DEF TypeOK, Ensure, LimitInv
<1>3. ASSUME IInv, NEW c \in Callers, Copy(c) PROVE TypeOK'
  <2>t. TypeOK /\ CallInv /\ TempInv
    BY <1>3, <1>c
  <2>1. temp' \in [Callers -> Seq(Entries) \cup {None}]
    BY <1>3, <2>t, Held DEF TypeOK, Copy, Copied, TempInv, Downloading
  <2> QED
    BY <1>3, <2>t, <2>1 DEF TypeOK, Copy, LimitInv, Copied
<1>4. ASSUME IInv, NEW c \in Callers, Downloaded(c) PROVE TypeOK'
  <2>t. TypeOK /\ CallInv /\ TempInv
    BY <1>4, <1>c
  <2>1. temp[c] \in Seq(Entries)
    BY <1>4, <2>t, Held DEF Downloaded, TempInv, Downloading
  <2>2. pc' \in [Callers -> Points]
    BY <1>4, <2>t DEF TypeOK, Downloaded, Points, Goto, Ends
  <2>3. LimitInv'
    BY <1>4, <2>t DEF TypeOK, Downloaded, LimitInv, Goto, locals
  <2>4. fetched' \in [Traces -> SUBSET Seq(Entries)]
    BY <1>4, <2>t, <2>1 DEF TypeOK, Downloaded
  <2> QED
    BY <1>4, <2>t, <2>2, <2>3, <2>4 DEF TypeOK, Downloaded, LimitInv, locals
<1>5. ASSUME IInv, NEW c \in Callers, ConnectionCut(c) PROVE TypeOK'
  <2>t. TypeOK /\ CallInv /\ TempInv
    BY <1>5, <1>c
  <2>1. PICK line \in {<<>>, <<Bad>>} :
          /\ temp' = [temp EXCEPT ![c] = @ \o line]
          /\ fetched' = [fetched EXCEPT ![Head(todo[c])] = @ \cup {temp[c] \o line}]
    BY <1>5 DEF ConnectionCut
  <2>2. temp[c] \o line \in Seq(Entries)
    BY <1>5, <2>t, Held DEF ConnectionCut, TempInv, Downloading
  <2>3. pc' \in [Callers -> Points]
    BY <1>5, <2>t DEF TypeOK, ConnectionCut, Points, Goto, Ends
  <2>4. LimitInv'
    BY <1>5, <2>t DEF TypeOK, ConnectionCut, LimitInv, Goto, Ends
  <2>5. temp' \in [Callers -> Seq(Entries) \cup {None}]
    BY <1>5, <2>t, <2>1, <2>2 DEF TypeOK, ConnectionCut
  <2>6. fetched' \in [Traces -> SUBSET Seq(Entries)]
    BY <1>5, <2>t, <2>1, <2>2 DEF TypeOK, ConnectionCut
  <2>7. failures' \in 0 .. MaxFailures
    BY <1>5, <2>t, <1>a DEF TypeOK, ConnectionCut, Failure
  <2> QED
    BY <1>5, <2>t, <2>3, <2>4, <2>5, <2>6, <2>7 DEF TypeOK, ConnectionCut, LimitInv
<1>6. ASSUME IInv, NEW c \in Callers, Replace(c) PROVE TypeOK'
  <2>t. TypeOK /\ CallInv /\ TempInv
    BY <1>6, <1>c
  <2>1. pc' \in [Callers -> Points]
    BY <1>6, <2>t DEF TypeOK, Replace, Points, Goto, Ends
  <2>2. LimitInv'
    BY <1>6, <2>t DEF TypeOK, Replace, LimitInv, Goto, Ends
  <2>3. source' \in [Callers -> Seq(Entries)]
    BY <1>6, <2>t DEF TypeOK, Replace
  <2>4. temp' \in [Callers -> Seq(Entries) \cup {None}]
    BY <1>6, <2>t DEF TypeOK, Replace
  <2>5. file' \in [Traces -> Seq(Entries) \cup {None}]
    BY <1>6, <2>t DEF TypeOK, Replace
  <2>6. replaced' \in [Callers -> BOOLEAN]
    BY <1>6, <2>t DEF TypeOK, Replace
  <2> QED
    BY <1>6, <2>t, <2>1, <2>2, <2>3, <2>4, <2>5, <2>6 DEF TypeOK, Replace, LimitInv
<1>7. ASSUME IInv, NEW c \in Callers, DownloadFails(c) PROVE TypeOK'
  <2>t. TypeOK /\ CallInv /\ TempInv
    BY <1>7, <1>c
  <2>1. pc' \in [Callers -> Points]
    BY <1>7, <2>t DEF TypeOK, DownloadFails, Points, Goto
  <2>2. LimitInv'
    BY <1>7, <2>t DEF TypeOK, DownloadFails, LimitInv, Goto, locals
  <2>3. failures' \in 0 .. MaxFailures
    BY <1>7, <2>t, <1>a DEF TypeOK, DownloadFails, Failure
  <2> QED
    BY <1>7, <2>t, <2>1, <2>2, <2>3 DEF TypeOK, DownloadFails, LimitInv, locals
<1>8. ASSUME IInv, NEW c \in Callers, WriteStats(c) PROVE TypeOK'
  <2>t. TypeOK /\ CallInv /\ TempInv
    BY <1>8, <1>c
  <2>1. pc' \in [Callers -> Points]
    BY <1>8, <2>t DEF TypeOK, WriteStats, Points, Goto, Ends
  <2>2. result' \in [Callers -> {"none", "ok", "error"}]
    BY <1>8, <2>t DEF TypeOK, WriteStats, Ends
  <2>3. LimitInv'
    BY <1>8, <2>t DEF TypeOK, WriteStats, LimitInv, Goto, Ends
  <2>4. failures' \in 0 .. MaxFailures
    BY <1>8, <2>t, <1>a DEF TypeOK, WriteStats, Failure
  <2> QED
    BY <1>8, <2>t, <2>1, <2>2, <2>3, <2>4 DEF TypeOK, WriteStats, LimitInv
<1>9. ASSUME IInv, NEW c \in Callers, Killed(c) PROVE TypeOK'
  <2>t. TypeOK /\ CallInv /\ TempInv
    BY <1>9, <1>c
  <2>1. pc' \in [Callers -> Points]
    BY <1>9, <2>t DEF TypeOK, Killed, Points, Goto, Ends
  <2>2. result' \in [Callers -> {"none", "ok", "error"}]
    BY <1>9, <2>t DEF TypeOK, Killed, Ends
  <2>3. LimitInv'
    BY <1>9, <2>t DEF TypeOK, Killed, LimitInv, Goto, Ends
  <2>4. temp' \in [Callers -> Seq(Entries) \cup {None}]
    BY <1>9, <2>t DEF TypeOK, Killed
  <2>5. parts' \in Nat /\ kills' \in Nat /\ UNCHANGED lapses
    <3>1. parts \in Nat /\ kills \in Nat
      BY <2>t DEF TypeOK
    <3>2. \/ UNCHANGED <<parts, kills, lapses>>
          \/ parts' = parts + 1 /\ kills' = kills + 1 /\ UNCHANGED lapses
      BY <1>9, Zenon DEF Killed
    <3> QED
      BY <3>1, <3>2
  <2>6. failures' \in 0 .. MaxFailures
    BY <1>9, <2>t, <1>a DEF TypeOK, Killed, Failure
  <2> QED
    BY <1>9, <2>t, <2>1, <2>2, <2>3, <2>4, <2>5, <2>6 DEF TypeOK, Killed, LimitInv
<1>10. ASSUME IInv, NEW c \in Callers, Client(c) PROVE TypeOK'
  <2>t. TypeOK /\ CallInv /\ TempInv
    BY <1>10, <1>c
  <2>1. Current(c) \in Seq(Entries) /\ Len(Current(c)) \in Nat /\ Len(plan[c]) \in Nat
    BY <1>10, <2>t, Present, LenProperties DEF Client, Reading, TypeOK
  <2>2. SubSeq(Current(c), 1, AtMost(NumPrompts(c), Len(Current(c)))) \in Seq(Entries)
    BY <2>1, Prefix DEF AtMost, NumPrompts
  <2>3. pc' \in [Callers -> Points]
    <3>1. Goto(c, "stats") \/ Goto(c, "idle")
      BY <1>10, Zenon DEF Client, Ends
    <3> QED
      BY <2>t, <3>1 DEF TypeOK, Points, Goto
  <2>4. result' \in [Callers -> {"none", "ok", "error"}]
    BY <1>10, <2>t DEF TypeOK, Client, Ends
  <2>5. LimitInv'
    BY <1>10, <2>t DEF TypeOK, Client, LimitInv, Goto, Ends
  <2>6. rows' \in [Callers -> Seq(Entries)]
    BY <1>10, <2>t, <2>2 DEF TypeOK, Client
  <2> QED
    BY <1>10, <2>t, <2>3, <2>4, <2>5, <2>6 DEF TypeOK, Client, LimitInv, shared
<1>11. ASSUME IInv, NEW c \in Callers, Sum(c) PROVE TypeOK'
  <2>t. TypeOK /\ CallInv /\ TempInv
    BY <1>11, <1>c
  <2>1. Current(c) \in Seq(Entries) /\ Len(Current(c)) \in Nat /\ Tail(todo[c]) \in Seq(Traces)
    BY <1>11, <2>t, Present, HeadIsTrace DEF Sum, Reading
  <2>2. limit[c] \in Nat
    BY <2>t DEF TypeOK
  <2>3. SubSeq(Current(c), 1, Selected(Current(c), limit[c])) \in Seq(Entries)
    BY <2>1, <2>2, Prefix DEF Selected, AtMost
  <2>4. pc' \in [Callers -> Points]
    <3>1. Goto(c, "client") \/ Goto(c, "ensure") \/ Goto(c, "idle")
      BY <1>11, Zenon DEF Sum, Ends
    <3> QED
      BY <2>t, <3>1 DEF TypeOK, Points, Goto
  <2>5. result' \in [Callers -> {"none", "ok", "error"}]
    BY <1>11, <2>t DEF TypeOK, Sum, Ends
  <2>6. LimitInv'
    BY <1>11, <2>t DEF TypeOK, Sum, LimitInv, Goto, Ends
  <2>7. todo' \in [Callers -> Seq(Traces)]
    BY <1>11, <2>t, <2>1 DEF TypeOK, Sum
  <2>8. plan' \in [Callers -> Seq(Entries)]
    BY <1>11, <2>t, <2>3 DEF TypeOK, Sum
  <2>9. opened' \in [Callers -> Seq(Entries)]
    BY <1>11, <2>t, <2>1 DEF TypeOK, Sum
  <2>10. replaced' \in [Callers -> BOOLEAN]
    BY <1>11, <2>t DEF TypeOK, Sum
  <2> QED
    BY <1>11, <2>t, <2>4, <2>5, <2>6, <2>7, <2>8, <2>9, <2>10 DEF TypeOK, Sum, LimitInv
<1>12. ASSUME IInv, NEW c \in Callers, Count(c) PROVE TypeOK'
  <2>t. TypeOK
    BY <1>12, <1>c
  <2>1. Len(Current(c)) \in Nat /\ want[c] \in Selections
    BY <1>12, <2>t, Present DEF Count, Reading, TypeOK
  <2>u. UNCHANGED <<todo, want, source, temp, plan, rows, opened, shared>>
    BY <1>12 DEF Count
  <2>2. CASE Refuse(c) /\ UNCHANGED <<total, limit>>
    <3>1. pc' \in [Callers -> Points] /\ result' \in [Callers -> {"none", "ok", "error"}]
      BY <2>t, <2>2 DEF TypeOK, Refuse, Ends, Goto, Points
    <3>2. LimitInv'
      BY <2>t, <2>2 DEF TypeOK, Refuse, Ends, Goto, LimitInv
    <3> QED
      BY <2>t, <2>u, <2>2, <3>1, <3>2 DEF TypeOK, LimitInv, shared
  <2>3. ASSUME NEW l \in Limits(Len(Current(c)), want[c]), Len(Current(c)) > 0,
               total' = [total EXCEPT ![c] = Len(Current(c))], limit' = [limit EXCEPT ![c] = l],
               IF Len(Current(c)) < l THEN Refuse(c) ELSE Goto(c, "sum") /\ UNCHANGED result
        PROVE  TypeOK'
    <3>1. l \in Nat
      BY <2>1, <2>3, LimitBounds
    <3>2. total' \in [Callers -> Nat] /\ limit' \in [Callers -> Nat]
      <4>1. total \in [Callers -> Nat] /\ limit \in [Callers -> Nat]
        BY <2>t DEF TypeOK
      <4> QED
        BY <2>1, <2>3, <3>1, <4>1
    <3>3. pc' \in [Callers -> Points] /\ result' \in [Callers -> {"none", "ok", "error"}]
      BY <2>t, <2>3 DEF TypeOK, Refuse, Ends, Goto, Points
    <3>4. LimitInv'
      <4>1. DOMAIN pc = Callers /\ DOMAIN total = Callers /\ DOMAIN limit = Callers
        BY <2>t DEF TypeOK
      <4>2. pc' = [pc EXCEPT ![c] = IF Len(Current(c)) < l THEN "idle" ELSE "sum"]
        BY <2>3 DEF Refuse, Ends, Goto
      <4> SUFFICES ASSUME NEW d \in Callers, pc'[d] \in {"sum", "client", "stats"}
                   PROVE  limit'[d] \in 0 .. total'[d]
        BY DEF LimitInv
      <4>3. CASE d = c
        <5>1. ~(Len(Current(c)) < l)
          BY <4>1, <4>2, <4>3
        <5>2. limit'[d] = l /\ total'[d] = Len(Current(c))
          BY <2>3, <4>1, <4>3
        <5> QED
          BY <2>1, <3>1, <5>1, <5>2
      <4>4. CASE d # c
        <5>1. pc'[d] = pc[d] /\ limit'[d] = limit[d] /\ total'[d] = total[d]
          BY <2>3, <4>1, <4>2, <4>4
        <5> QED
          BY <2>t, <5>1 DEF TypeOK
      <4> QED
        BY <4>3, <4>4
    <3> QED
      BY <2>t, <2>u, <3>2, <3>3, <3>4 DEF TypeOK, LimitInv, shared
  <2> QED
    BY <1>12, <2>2, <2>3 DEF Count
<1>13. ASSUME IInv, NEW t \in Traces, NEW v \in Versions, NewVersion(t, v) PROVE TypeOK'
  BY <1>13, <1>a, <1>c DEF TypeOK, NewVersion, locals
<1>14. ASSUME IInv, UNCHANGED vars PROVE TypeOK'
  BY <1>14, <1>c DEF TypeOK, vars
<1>15. ASSUME IInv, NEW c \in Callers, Opens(c) PROVE TypeOK'
  <2>t. TypeOK /\ CallInv /\ TempInv
    BY <1>15, <1>c
  <2>1. Head(todo[c]) \in Traces
    BY <1>15, <2>t, HeadIsTrace DEF Opens
  <2>2. pc' \in [Callers -> Points]
    BY <1>15, <2>t DEF TypeOK, Opens, Points, Goto
  <2>3. LimitInv'
    BY <1>15, <2>t DEF TypeOK, Opens, LimitInv, Goto
  <2>4. source' \in [Callers -> Seq(Entries)]
    BY <1>15, <2>t, <1>b, <2>1 DEF TypeOK, Opens
  <2> QED
    BY <1>15, <2>t, <2>2, <2>3, <2>4 DEF TypeOK, Opens, LimitInv, shared
<1>16. ASSUME IInv, NEW c \in Callers, CleansUp(c) \/ Lapses(c) PROVE TypeOK'
  <2>t. TypeOK /\ CallInv /\ TempInv
    BY <1>16, <1>c
  <2>1. pc' \in [Callers -> Points]
    BY <1>16, <2>t DEF TypeOK, CleansUp, Lapses, Points, Goto, Ends
  <2>2. result' \in [Callers -> {"none", "ok", "error"}]
    BY <1>16, <2>t DEF TypeOK, CleansUp, Lapses, Ends
  <2>3. LimitInv'
    BY <1>16, <2>t DEF TypeOK, CleansUp, Lapses, LimitInv, Goto, Ends
  <2>4. temp' \in [Callers -> Seq(Entries) \cup {None}]
    BY <1>16, <2>t DEF TypeOK, CleansUp, Lapses, Unlink
  <2>5. failures' \in 0 .. MaxFailures /\ parts' \in Nat /\ lapses' \in Nat /\ UNCHANGED kills
    <3>1. CASE CleansUp(c)
      BY <3>1, <2>t DEF TypeOK, CleansUp, Unlink
    <3>2. CASE Lapses(c)
      <4>1. Failure \/ UNCHANGED failures
        BY <3>2, Zenon DEF Lapses
      <4>2. parts' = parts + 1 /\ lapses' = lapses + 1 /\ UNCHANGED kills
        BY <3>2 DEF Lapses
      <4> QED
        BY <2>t, <1>a, <4>1, <4>2 DEF TypeOK, Failure
    <3> QED
      BY <1>16, <3>1, <3>2
  <2> QED
    BY <1>16, <2>t, <2>1, <2>2, <2>3, <2>4, <2>5 DEF TypeOK, CleansUp, Lapses, LimitInv
<1> QED
  BY <1>1, <1>2, <1>3, <1>4, <1>5, <1>6, <1>7, <1>8, <1>9, <1>10, <1>11, <1>12, <1>13, <1>14,
     <1>15, <1>16
  DEF Next, Steps

(* What a file has been replaced with is there, and was fetched.           *)
LEMMA ReplaceFacts ==
  ASSUME IInv, NEW c \in Callers, Replace(c)
  PROVE  /\ temp[c] # None /\ temp[c] \in fetched[Head(todo[c])]
         /\ \A t \in Traces : file'[t] = IF t = Head(todo[c]) THEN temp[c] ELSE file[t]
         /\ Head(todo[c]) \in Traces
<1>1. Head(todo[c]) \in Traces
  BY HeadIsTrace DEF IInv, Replace
<1>2. temp[c] # None /\ temp[c] \in fetched[Head(todo[c])]
  BY DEF IInv, TempInv, Replace, Downloading
<1>3. file' = [file EXCEPT ![Head(todo[c])] = temp[c]] /\ DOMAIN file = Traces
  BY DEF IInv, TypeOK, Replace
<1> QED
  BY <1>1, <1>2, <1>3

(* Every step but Replace leaves the files as they are.                    *)
LEMMA FileKept ==
  ASSUME IInv, Next
  PROVE  UNCHANGED file \/ \E c \in Callers : Replace(c)
BY DEF Next, Steps, Begin, Ensure, Opens, Copy, Copied, Downloaded, ConnectionCut, DownloadFails,
   CleansUp, Lapses, Count, Sum, Client, WriteStats, Killed, NewVersion, shared

(* A call under way keeps its trace, and its file.                         *)
LEMMA CallStep == IInv /\ [Next]_vars => CallInv'
<1>t. IInv => TypeOK /\ CallInv
  BY DEF IInv
<1> SUFFICES ASSUME IInv, [Next]_vars, NEW d \in Callers
             PROVE  /\ pc'[d] # "idle" => todo'[d] # <<>>
                    /\ pc'[d] \in Reading => file'[Head(todo'[d])] # None
  BY DEF CallInv, Current
<1> USE <1>t DEF Reading, Goto
<1>1. ASSUME NEW c \in Callers, NEW w \in Selections, NEW ts \in Lists(c), Begin(c, ts, w)
      PROVE  /\ pc'[d] # "idle" => todo'[d] # <<>>
             /\ pc'[d] \in Reading => file'[Head(todo'[d])] # None
  BY <1>1, ListsOfTraces DEF TypeOK, CallInv, Current, Begin, Ends
<1>2. ASSUME NEW c \in Callers, Ensure(c)
      PROVE  /\ pc'[d] # "idle" => todo'[d] # <<>>
             /\ pc'[d] \in Reading => file'[Head(todo'[d])] # None
  BY <1>2 DEF TypeOK, CallInv, Current, Ensure, Ends
<1>3. ASSUME NEW c \in Callers, Replace(c)
      PROVE  /\ pc'[d] # "idle" => todo'[d] # <<>>
             /\ pc'[d] \in Reading => file'[Head(todo'[d])] # None
  BY <1>3, ReplaceFacts, HeadIsTrace DEF TypeOK, CallInv, Current, Replace
<1>4. ASSUME NEW c \in Callers,
             \/ Opens(c) \/ Copy(c) \/ Downloaded(c) \/ ConnectionCut(c) \/ DownloadFails(c)
             \/ CleansUp(c) \/ Lapses(c) \/ Killed(c)
      PROVE  /\ pc'[d] # "idle" => todo'[d] # <<>>
             /\ pc'[d] \in Reading => file'[Head(todo'[d])] # None
  BY <1>4 DEF TypeOK, CallInv, Current, Opens, Copy, Copied, Downloaded, ConnectionCut,
     DownloadFails, CleansUp, Lapses, Killed, Ends, locals, shared
<1>5. ASSUME NEW c \in Callers, Count(c) \/ Client(c) \/ WriteStats(c)
      PROVE  /\ pc'[d] # "idle" => todo'[d] # <<>>
             /\ pc'[d] \in Reading => file'[Head(todo'[d])] # None
  BY <1>5 DEF TypeOK, CallInv, Current, Count, Client, WriteStats, Refuse, Ends, shared
<1>6. ASSUME NEW c \in Callers, Sum(c)
      PROVE  /\ pc'[d] # "idle" => todo'[d] # <<>>
             /\ pc'[d] \in Reading => file'[Head(todo'[d])] # None
  BY <1>6 DEF TypeOK, CallInv, Current, Sum, Ends
<1>7. ASSUME UNCHANGED vars \/ \E t \in Traces, v \in Versions : NewVersion(t, v)
      PROVE  /\ pc'[d] # "idle" => todo'[d] # <<>>
             /\ pc'[d] \in Reading => file'[Head(todo'[d])] # None
  BY <1>7 DEF CallInv, Current, NewVersion, locals, vars
<1> QED
  BY <1>1, <1>2, <1>3, <1>4, <1>5, <1>6, <1>7 DEF Next, Steps

(* What was fetched stays fetched.                                         *)
LEMMA FetchedGrows ==
  ASSUME IInv, [Next]_vars, NEW t \in Traces
  PROVE  fetched[t] \subseteq fetched'[t]
<1>1. ASSUME NEW c \in Callers, Downloaded(c) PROVE fetched[t] \subseteq fetched'[t]
  BY <1>1 DEF IInv, TypeOK, Downloaded
<1>2. ASSUME NEW c \in Callers, ConnectionCut(c) PROVE fetched[t] \subseteq fetched'[t]
  BY <1>2 DEF IInv, TypeOK, ConnectionCut
<1>3. CASE UNCHANGED fetched
  BY <1>3
<1> QED
  BY <1>1, <1>2, <1>3 DEF Next, Steps, Begin, Ensure, Opens, Copy, Replace, DownloadFails, CleansUp,
     Lapses, Count, Sum, Client, WriteStats, Killed, NewVersion, shared, vars

(* A temporary file goes with its download, and is whole at its end.       *)
LEMMA TempStep == IInv /\ [Next]_vars => TempInv'
<1>t. IInv => TypeOK /\ TempInv /\ CallInv
  BY DEF IInv
<1> SUFFICES ASSUME IInv, [Next]_vars, NEW d \in Callers
             PROVE  /\ temp'[d] # None <=> pc'[d] \in Downloading
                    /\ pc'[d] = "replace" => temp'[d] \in fetched'[Head(todo'[d])]
  BY DEF TempInv
<1>h. pc[d] # "idle" => fetched[Head(todo[d])] \subseteq fetched'[Head(todo[d])]
  BY <1>t, FetchedGrows, HeadIsTrace
<1>n. None # <<>> /\ \A s \in Seq(Entries) : s # None
  <2>1. <<>> \in Seq(Entries)
    OBVIOUS
  <2>2. None \notin Seq(Entries)
    BY MooncakeAssumption
  <2> QED
    BY <2>1, <2>2
<1> USE <1>t DEF Downloading, Goto
<1>1. ASSUME NEW c \in Callers, NEW w \in Selections, NEW ts \in Lists(c), Begin(c, ts, w)
      PROVE  /\ temp'[d] # None <=> pc'[d] \in Downloading
             /\ pc'[d] = "replace" => temp'[d] \in fetched'[Head(todo'[d])]
  BY <1>1 DEF TypeOK, TempInv, Begin, Ends
<1>2. ASSUME NEW c \in Callers, Ensure(c)
      PROVE  /\ temp'[d] # None <=> pc'[d] \in Downloading
             /\ pc'[d] = "replace" => temp'[d] \in fetched'[Head(todo'[d])]
  <2>1. \/ Goto(c, "made") /\ temp' = [temp EXCEPT ![c] = <<>>]
        \/ (Goto(c, "count") \/ Goto(c, "idle")) /\ temp' = temp
    BY <1>2, Zenon DEF Ensure, Ends
  <2>2. temp[c] = None
    BY <1>2 DEF TempInv, Ensure
  <2>3. UNCHANGED <<todo, fetched>> /\ DOMAIN pc = Callers /\ DOMAIN temp = Callers
    BY <1>2 DEF TypeOK, Ensure
  <2> QED
    BY <1>n, <2>1, <2>2, <2>3 DEF TempInv
<1>3. ASSUME NEW c \in Callers, Copy(c)
      PROVE  /\ temp'[d] # None <=> pc'[d] \in Downloading
             /\ pc'[d] = "replace" => temp'[d] \in fetched'[Head(todo'[d])]
  BY <1>3, <1>n, Held DEF TypeOK, TempInv, Copy, Copied
<1>4. ASSUME NEW c \in Callers, Downloaded(c)
      PROVE  /\ temp'[d] # None <=> pc'[d] \in Downloading
             /\ pc'[d] = "replace" => temp'[d] \in fetched'[Head(todo'[d])]
  BY <1>4, <1>h, HeadIsTrace DEF TypeOK, TempInv, Downloaded, locals
<1>5. ASSUME NEW c \in Callers, ConnectionCut(c)
      PROVE  /\ temp'[d] # None <=> pc'[d] \in Downloading
             /\ pc'[d] = "replace" => temp'[d] \in fetched'[Head(todo'[d])]
  <2>1. PICK line \in {<<>>, <<Bad>>} :
          /\ temp' = [temp EXCEPT ![c] = @ \o line]
          /\ fetched' = [fetched EXCEPT ![Head(todo[c])] = @ \cup {temp[c] \o line}]
    BY <1>5 DEF ConnectionCut
  <2>2. temp[c] \o line # None /\ Head(todo[c]) \in Traces
    BY <1>5, <1>n, Held, HeadIsTrace DEF ConnectionCut, TempInv
  <2>3. temp'[d] # None <=> pc'[d] \in Downloading
    BY <1>5, <2>1, <2>2 DEF TypeOK, TempInv, ConnectionCut
  <2>4. CASE d = c
    BY <1>5, <2>1, <2>2, <2>3, <2>4 DEF TypeOK, ConnectionCut
  <2>5. CASE d # c
    BY <1>5, <1>h, <2>1, <2>3, <2>5 DEF TypeOK, TempInv, ConnectionCut
  <2> QED
    BY <2>4, <2>5
<1>6. ASSUME NEW c \in Callers,
             \/ Opens(c) \/ Replace(c) \/ DownloadFails(c) \/ CleansUp(c) \/ Lapses(c) \/ Killed(c)
      PROVE  /\ temp'[d] # None <=> pc'[d] \in Downloading
             /\ pc'[d] = "replace" => temp'[d] \in fetched'[Head(todo'[d])]
  BY <1>6 DEF TypeOK, TempInv, Opens, Replace, DownloadFails, CleansUp, Lapses, Unlink, Killed, Ends,
     locals, shared
<1>7. ASSUME NEW c \in Callers, Count(c) \/ Client(c) \/ WriteStats(c)
      PROVE  /\ temp'[d] # None <=> pc'[d] \in Downloading
             /\ pc'[d] = "replace" => temp'[d] \in fetched'[Head(todo'[d])]
  BY <1>7 DEF TypeOK, TempInv, Count, Client, WriteStats, Refuse, Ends, shared
<1>8. ASSUME NEW c \in Callers, Sum(c)
      PROVE  /\ temp'[d] # None <=> pc'[d] \in Downloading
             /\ pc'[d] = "replace" => temp'[d] \in fetched'[Head(todo'[d])]
  BY <1>8 DEF TypeOK, TempInv, Sum, Ends
<1>9. ASSUME UNCHANGED vars \/ \E t \in Traces, v \in Versions : NewVersion(t, v)
      PROVE  /\ temp'[d] # None <=> pc'[d] \in Downloading
             /\ pc'[d] = "replace" => temp'[d] \in fetched'[Head(todo'[d])]
  BY <1>9 DEF TempInv, NewVersion, locals, vars
<1> QED
  BY <1>1, <1>2, <1>3, <1>4, <1>5, <1>6, <1>7, <1>8, <1>9 DEF Next, Steps

(* A file changes only to a response that was read to its end, and only a  *)
(* kill and an interrupt in one of the two places leave a temporary one.   *)
LEMMA FileStep == IInv /\ [Next]_vars => FileIsAResponse' /\ parts' = kills' + lapses'
<1> SUFFICES ASSUME IInv, [Next]_vars PROVE FileIsAResponse' /\ parts' = kills' + lapses'
  OBVIOUS
<1>1. ASSUME NEW t \in Traces, file'[t] # None PROVE file'[t] \in fetched'[t]
  <2>1. CASE UNCHANGED file
    BY <1>1, <2>1, FetchedGrows DEF IInv, FileIsAResponse
  <2>2. ASSUME NEW c \in Callers, Replace(c) PROVE file'[t] \in fetched'[t]
    BY <1>1, <2>2, ReplaceFacts, FetchedGrows DEF IInv, FileIsAResponse
  <2> QED
    BY <2>1, <2>2, FileKept DEF vars
<1>2. parts' = kills' + lapses'
  <2>1. ASSUME NEW c \in Callers, Killed(c) \/ Lapses(c) PROVE parts' = kills' + lapses'
    BY <2>1 DEF Killed, Lapses, IInv, TypeOK
  <2>2. CASE UNCHANGED <<parts, kills, lapses>>
    BY <2>2 DEF IInv
  <2> QED
    BY <2>1, <2>2 DEF Next, Steps, Begin, Ensure, Opens, Copy, Downloaded, ConnectionCut, Replace,
       DownloadFails, CleansUp, Unlink, Count, Sum, Client, WriteStats, NewVersion, shared, vars
<1> QED
  BY <1>1, <1>2 DEF FileIsAResponse

LEMMA Inductive == Spec => []IInv
<1>1. IInv /\ [Next]_vars => IInv'
  BY TypeStep, CallStep, TempStep, FileStep DEF IInv
<1> QED
  BY <1>1, InvInit, PTL DEF Spec

(* The model's types; what is at the path of a trace is one response, from *)
(* its beginning to what the code took for its end; and a temporary file   *)
(* is left by a kill, or by an interrupt in one of two places, and by      *)
(* nothing else: ensure_mooncake_trace.                                    *)
THEOREM FilesHold == Spec => []FilesInv
<1>1. IInv => FilesInv
  BY DEF IInv, FilesInv, PartsAreExplained, TempInv, Downloading
<1> QED
  BY <1>1, Inductive, PTL

-----------------------------------------------------------------------------
(* The plans.                                                              *)

(* What the steps that plan nothing leave alone.                           *)
LEMMA PlanFacts ==
  ASSUME IInv, NEW c \in Callers,
         \/ Opens(c) \/ Copy(c) \/ Downloaded(c) \/ Replace(c) \/ ConnectionCut(c)
         \/ DownloadFails(c) \/ CleansUp(c) \/ Lapses(c) \/ Client(c) \/ WriteStats(c) \/ Killed(c)
  PROVE  /\ UNCHANGED <<plan, limit, total, opened, want>>
         /\ \A d \in Callers :
              /\ pc'[d] \in Downloading \cup {"count", "sum"} =>
                   pc[d] \in Downloading \cup {"count", "sum"}
              /\ pc'[d] = "sum" => pc[d] = "sum"
<1>1. UNCHANGED <<plan, limit, total, opened, want>>
  BY DEF Opens, Copy, Downloaded, Replace, ConnectionCut, DownloadFails, CleansUp, Lapses, Client,
     WriteStats, Killed, locals
<1>2. \/ UNCHANGED pc \/ Goto(c, "idle") \/ Goto(c, "stats")
      \/ /\ pc[c] \in Downloading
         /\ Goto(c, "download") \/ Goto(c, "replace") \/ Goto(c, "unlink") \/ Goto(c, "count")
  <2>1. CASE \/ Opens(c) \/ Copy(c) \/ Downloaded(c) \/ Replace(c) \/ ConnectionCut(c)
             \/ DownloadFails(c) \/ CleansUp(c) \/ Lapses(c)
    BY <2>1 DEF Opens, Copy, Downloaded, Replace, ConnectionCut, DownloadFails, CleansUp, Lapses,
       Ends, Downloading
  <2>2. CASE Client(c) \/ WriteStats(c) \/ Killed(c)
    BY <2>2, Zenon DEF Client, WriteStats, Killed, Ends
  <2> QED
    BY <2>1, <2>2
<1>3. pc \in [Callers -> Points]
  BY DEF IInv, TypeOK
<1> QED
  BY <1>1, <1>2, <1>3 DEF Goto, Downloading

(* A plan comes from the second pass alone, and a limit from the first.    *)
LEMMA PlanStep == IPlansInv /\ [Next]_vars => NoPlan' /\ PlansInv'
<1>t. IPlansInv => IInv /\ TypeOK /\ NoPlan /\ PlanIsPrefix /\ PercentIsKept
  BY DEF IPlansInv, IInv, PlansInv
<1> SUFFICES ASSUME IPlansInv, [Next]_vars, NEW d \in Callers
             PROVE  /\ pc'[d] \in Downloading \cup {"count", "sum"} => plan'[d] = <<>>
                    /\ plan'[d] # <<>> =>
                         /\ plan'[d] = SubSeq(opened'[d], 1, Len(plan'[d]))
                         /\ Len(plan'[d]) = limit'[d] \/ Len(plan'[d]) = Len(opened'[d])
                         /\ Len(plan'[d]) <= limit'[d] /\ Len(plan'[d]) <= total'[d]
                    /\ (pc'[d] = "sum" /\ want'[d].percent # None) =>
                         /\ limit'[d] \in Exact(total'[d], want'[d].percent) - 1
                                        .. Exact(total'[d], want'[d].percent) + 1
                         /\ want'[d].percent % Percent = 0 =>
                              limit'[d] = Exact(total'[d], want'[d].percent)
  BY DEF NoPlan, PlansInv, PlanIsPrefix, PercentIsKept
<1> DEFINE Planless == pc'[d] \in Downloading \cup {"count", "sum"} => plan'[d] = <<>>
           IsPrefix == plan'[d] # <<>> =>
             /\ plan'[d] = SubSeq(opened'[d], 1, Len(plan'[d]))
             /\ Len(plan'[d]) = limit'[d] \/ Len(plan'[d]) = Len(opened'[d])
             /\ Len(plan'[d]) <= limit'[d] /\ Len(plan'[d]) <= total'[d]
           IsKept == (pc'[d] = "sum" /\ want'[d].percent # None) =>
             /\ limit'[d] \in Exact(total'[d], want'[d].percent) - 1
                            .. Exact(total'[d], want'[d].percent) + 1
             /\ want'[d].percent % Percent = 0 =>
                  limit'[d] = Exact(total'[d], want'[d].percent)
<1>d. DOMAIN pc = Callers /\ DOMAIN plan = Callers /\ DOMAIN want = Callers
      /\ DOMAIN limit = Callers /\ DOMAIN total = Callers /\ DOMAIN opened = Callers
  BY <1>t DEF TypeOK
<1>s. UNCHANGED <<pc, plan, limit, total, opened, want>> => Planless /\ IsPrefix /\ IsKept
  BY <1>t DEF NoPlan, PlanIsPrefix, PercentIsKept
<1>1. ASSUME NEW c \in Callers, NEW w \in Selections, NEW ts \in Lists(c), Begin(c, ts, w)
      PROVE  Planless /\ IsPrefix /\ IsKept
  <2>1. /\ want' = [want EXCEPT ![c] = w] /\ plan' = [plan EXCEPT ![c] = <<>>]
        /\ total' = [total EXCEPT ![c] = 0] /\ limit' = [limit EXCEPT ![c] = 0]
        /\ opened' = [opened EXCEPT ![c] = <<>>]
        /\ Goto(c, "idle") \/ Goto(c, "ensure")
    BY <1>1, Zenon DEF Begin, Ends
  <2> QED
    BY <1>t, <1>d, <2>1 DEF NoPlan, PlanIsPrefix, PercentIsKept, Goto, Downloading
<1>2. ASSUME NEW c \in Callers, Ensure(c) PROVE Planless /\ IsPrefix /\ IsKept
  <2>1. /\ plan' = [plan EXCEPT ![c] = <<>>] /\ UNCHANGED <<want, total, limit, opened>>
        /\ Goto(c, "count") \/ Goto(c, "made") \/ Goto(c, "idle")
    BY <1>2, Zenon DEF Ensure, Ends
  <2> QED
    BY <1>t, <1>d, <2>1 DEF NoPlan, PlanIsPrefix, PercentIsKept, Goto, Downloading
<1>3. ASSUME NEW c \in Callers, Count(c) PROVE Planless /\ IsPrefix /\ IsKept
  <2>1. pc[c] = "count" /\ plan[c] = <<>> /\ UNCHANGED <<plan, want, opened>>
    BY <1>3, <1>t DEF NoPlan, Count
  <2>2. CASE Goto(c, "idle") /\ UNCHANGED <<total, limit>>
    BY <1>t, <1>d, <2>1, <2>2 DEF NoPlan, PlanIsPrefix, PercentIsKept, Goto, Downloading
  <2>3. ASSUME NEW l \in Limits(Len(Current(c)), want[c]), Len(Current(c)) > 0,
               total' = [total EXCEPT ![c] = Len(Current(c))], limit' = [limit EXCEPT ![c] = l],
               Goto(c, "idle") \/ Goto(c, "sum")
        PROVE  Planless /\ IsPrefix /\ IsKept
    <3>1. Len(Current(c)) \in Nat \ {0} /\ want[c] \in Selections
      BY <1>3, <1>t, <2>3, Present DEF Count, Reading, TypeOK
    <3>2. want[c].percent # None =>
            /\ l \in Exact(Len(Current(c)), want[c].percent) - 1
                     .. Exact(Len(Current(c)), want[c].percent) + 1
            /\ want[c].percent % Percent = 0 => l = Exact(Len(Current(c)), want[c].percent)
      BY <2>3, <3>1, LimitBounds
    <3>3. CASE d = c
      BY <1>d, <2>1, <2>3, <3>2, <3>3
    <3>4. CASE d # c
      BY <1>t, <1>d, <2>1, <2>3, <3>4 DEF NoPlan, PlanIsPrefix, PercentIsKept, Goto, Downloading
    <3> QED
      BY <3>3, <3>4
  <2>4. Refuse(c) => Goto(c, "idle")
    BY DEF Refuse, Ends
  <2> QED
    BY <1>3, <2>2, <2>3, <2>4 DEF Count
<1>4. ASSUME NEW c \in Callers, Sum(c) PROVE Planless /\ IsPrefix /\ IsKept
  <2> DEFINE s == Current(c)
             n == Selected(s, limit[c])
  <2>1. /\ pc[c] = "sum" /\ plan[c] = <<>> /\ opened' = [opened EXCEPT ![c] = s]
        /\ UNCHANGED <<want, total, limit>>
        /\ Goto(c, "idle") \/ Goto(c, "client") \/ Goto(c, "ensure")
        /\ UNCHANGED plan \/ (n > 0 /\ plan' = [plan EXCEPT ![c] = SubSeq(s, 1, n)])
    <3>1. pc[c] = "sum" /\ plan[c] = <<>> /\ opened' = [opened EXCEPT ![c] = s]
          /\ UNCHANGED <<want, total, limit>>
      BY <1>4, <1>t DEF NoPlan, Sum
    <3>2. Goto(c, "idle") \/ Goto(c, "client") \/ Goto(c, "ensure")
      BY <1>4, Zenon DEF Sum, Ends
    <3>3. UNCHANGED plan \/ (n > 0 /\ plan' = [plan EXCEPT ![c] = SubSeq(s, 1, n)])
      BY <1>4, Zenon DEF Sum
    <3> QED
      BY <3>1, <3>2, <3>3
  <2>2. s \in Seq(Entries) /\ Len(s) \in Nat /\ limit[c] \in 0 .. total[c] /\ total[c] \in Nat
    BY <1>4, <1>t, Present DEF Sum, Reading, TypeOK
  <2>3. /\ n \in 0 .. Len(s) /\ (n = limit[c] \/ n = Len(s)) /\ n <= limit[c] /\ n <= total[c]
        /\ Len(SubSeq(s, 1, n)) = n
    BY <2>2, Prefix DEF Selected, AtMost
  <2> HIDE DEF s, n
  <2>4. CASE d = c
    BY <1>d, <2>1, <2>3, <2>4 DEF Goto, Downloading
  <2>5. CASE d # c
    BY <1>t, <1>d, <2>1, <2>5 DEF NoPlan, PlanIsPrefix, PercentIsKept, Goto, Downloading
  <2> QED
    BY <2>4, <2>5
<1>5. ASSUME NEW c \in Callers,
             \/ Opens(c) \/ Copy(c) \/ Downloaded(c) \/ Replace(c) \/ ConnectionCut(c)
             \/ DownloadFails(c) \/ CleansUp(c) \/ Lapses(c)
             \/ Client(c) \/ WriteStats(c) \/ Killed(c)
      PROVE  Planless /\ IsPrefix /\ IsKept
  BY <1>5, <1>t, PlanFacts DEF NoPlan, PlanIsPrefix, PercentIsKept
<1>6. ASSUME UNCHANGED vars \/ \E t \in Traces, v \in Versions : NewVersion(t, v)
      PROVE  Planless /\ IsPrefix /\ IsKept
  BY <1>6, <1>s DEF NewVersion, locals, vars
<1> QED
  BY <1>1, <1>2, <1>3, <1>4, <1>5, <1>6 DEF Next, Steps

LEMMA PlansInductive == Spec => []IPlansInv
<1>1. Init => NoPlan /\ PlansInv
  BY DEF Init, NoPlan, PlansInv, PlanIsPrefix, PercentIsKept, Downloading
<1>2. IPlansInv /\ [Next]_vars /\ IInv' => IPlansInv'
  BY PlanStep DEF IPlansInv
<1>3. Init /\ IInv => IPlansInv
  BY <1>1 DEF IPlansInv
<1> QED
  BY <1>2, <1>3, Inductive, PTL DEF Spec

(* A plan is the beginning of one file, never longer than the limit and    *)
(* the count; a whole percentage selects its share of the count, rounded   *)
(* up, another one at most one request more or less:                       *)
(* prepare_mooncake_workload, between whose passes any other caller may    *)
(* rename the trace.                                                       *)
THEOREM PlansHold == Spec => []PlansInv
<1>1. IPlansInv => PlansInv
  BY DEF IPlansInv
<1> QED
  BY <1>1, PlansInductive, PTL

-----------------------------------------------------------------------------
(* What a recorder records.                                                *)

IRowsInv == IPlansInv /\ RowsInv

(* The parts of RowsInv, of one recorder.                                  *)
Rows(d) ==
  /\ result[d] = "ok" => pc[d] = "idle"
  /\ pc[d] = "client" => FitsModel(plan[d])
  /\ pc[d] = "client" /\ ~replaced[d] =>
       /\ Current(d) = opened[d] /\ Len(plan[d]) <= Len(opened[d])
       /\ plan[d] = SubSeq(opened[d], 1, Len(plan[d]))
  /\ pc[d] = "stats" \/ result[d] = "ok" =>
       FitsModel(plan[d]) /\ (~replaced[d] => rows[d] = plan[d])

(* The steps of a call up to its second pass.                              *)
Prepares(c) ==
  \/ Ensure(c) \/ Opens(c) \/ Copy(c) \/ Downloaded(c) \/ ConnectionCut(c) \/ Replace(c)
  \/ DownloadFails(c) \/ CleansUp(c) \/ Lapses(c) \/ Count(c)

(* A step leaves the locals of every other call alone.                     *)
LEMMA OthersKeep ==
  ASSUME IInv, NEW c \in Callers, NEW d \in Callers, c # d,
         \/ \E w \in Selections : \E ts \in Lists(c) : Begin(c, ts, w)
         \/ Prepares(c) \/ Sum(c) \/ Client(c) \/ WriteStats(c) \/ Killed(c)
  PROVE  /\ pc'[d] = pc[d] /\ todo'[d] = todo[d] /\ plan'[d] = plan[d]
         /\ opened'[d] = opened[d] /\ rows'[d] = rows[d] /\ result'[d] = result[d]
<1>t. TypeOK
  BY DEF IInv
<1> USE <1>t DEF TypeOK, Goto, Ends
<1>1. CASE \E w \in Selections : \E ts \in Lists(c) : Begin(c, ts, w)
  BY <1>1 DEF Begin
<1>2. CASE Ensure(c)
  BY <1>2 DEF Ensure
<1>3. CASE \/ Opens(c) \/ Copy(c) \/ Downloaded(c) \/ ConnectionCut(c) \/ Replace(c)
           \/ DownloadFails(c) \/ CleansUp(c) \/ Lapses(c)
  BY <1>3 DEF Opens, Copy, Downloaded, ConnectionCut, Replace, DownloadFails, CleansUp, Lapses,
     locals
<1>4. CASE Count(c)
  BY <1>4 DEF Count, Refuse
<1>5. CASE Sum(c)
  <2>1. Goto(c, "idle") \/ Goto(c, "client") \/ Goto(c, "ensure")
    BY <1>5, Zenon DEF Sum, Ends
  <2>2. \/ UNCHANGED result
        \/ result' = [result EXCEPT ![c] = "ok"] \/ result' = [result EXCEPT ![c] = "error"]
    BY <1>5, Zenon DEF Sum, Ends
  <2>3. UNCHANGED todo \/ todo' = [todo EXCEPT ![c] = Tail(@)]
    BY <1>5, Zenon DEF Sum
  <2>4. \/ UNCHANGED plan
        \/ plan' = [plan EXCEPT ![c] = SubSeq(Current(c), 1, Selected(Current(c), limit[c]))]
    BY <1>5, Zenon DEF Sum
  <2>5. opened' = [opened EXCEPT ![c] = Current(c)] /\ UNCHANGED rows
    BY <1>5 DEF Sum
  <2> QED
    BY <2>1, <2>2, <2>3, <2>4, <2>5
<1>6. CASE Client(c) \/ WriteStats(c) \/ Killed(c)
  BY <1>6 DEF Client, WriteStats, Killed
<1> QED
  BY <1>1, <1>2, <1>3, <1>4, <1>5, <1>6 DEF Prepares

(* A call that is still before its second pass has nothing to record.      *)
LEMMA PreparingStep ==
  ASSUME IRowsInv, NEW d \in Recorders, Prepares(d) \/ Killed(d)
  PROVE  Rows(d)'
<1>t. TypeOK /\ d \in Callers /\ (result[d] = "ok" => pc[d] = "idle") /\ pc[d] # "idle"
  BY DEF IRowsInv, IPlansInv, IInv, RowsInv, Callers, Prepares, Ensure, Opens, Copy, Downloaded,
     ConnectionCut, Replace, DownloadFails, CleansUp, Lapses, Count, Killed
<1>d. DOMAIN pc = Callers /\ DOMAIN result = Callers
  BY <1>t DEF TypeOK
<1>1. CASE \/ Opens(d) \/ Copy(d) \/ Downloaded(d) \/ ConnectionCut(d) \/ Replace(d)
           \/ DownloadFails(d)
  <2>1. UNCHANGED result /\ pc'[d] \notin {"client", "stats", "idle"}
    BY <1>1, <1>t, <1>d DEF Opens, Copy, Downloaded, ConnectionCut, Replace, DownloadFails, Goto,
       locals
  <2> QED
    BY <1>t, <2>1 DEF Rows
<1>2. CASE Ensure(d) \/ Count(d)
  <2>1. \/ UNCHANGED result /\ (Goto(d, "count") \/ Goto(d, "made") \/ Goto(d, "sum"))
        \/ Ends(d, "error")
    BY <1>2, Zenon DEF Ensure, Count, Refuse
  <2> QED
    BY <1>t, <1>d, <2>1 DEF Rows, Goto, Ends
<1>3. CASE CleansUp(d) \/ Lapses(d) \/ Killed(d)
  BY <1>3, <1>t, <1>d DEF CleansUp, Lapses, Killed, Ends, Goto, Rows
<1> QED
  BY <1>1, <1>2, <1>3 DEF Prepares

(* The second pass: what it plans fits the model, and is the beginning of  *)
(* the file.                                                               *)
LEMMA SumStep ==
  ASSUME IRowsInv, NEW d \in Recorders, Sum(d)
  PROVE  Rows(d)'
<1>t. TypeOK /\ IInv /\ d \in Callers /\ pc[d] = "sum" /\ d \notin Checkers
      /\ (result[d] = "ok" => pc[d] = "idle")
  BY MooncakeAssumption DEF IRowsInv, IPlansInv, IInv, RowsInv, Callers, Sum
<1>d. DOMAIN pc = Callers /\ DOMAIN plan = Callers /\ DOMAIN opened = Callers
      /\ DOMAIN replaced = Callers /\ DOMAIN result = Callers
  BY <1>t DEF TypeOK
<1> DEFINE s == Current(d)
           n == Selected(s, limit[d])
<1>1. s \in Seq(Entries) /\ Len(s) \in Nat /\ limit[d] \in Nat
  BY <1>t, Present DEF Reading, TypeOK
<1>2. n \in 0 .. Len(s) /\ n <= AtMost(limit[d] + 1, Len(s)) /\ n \in Nat
      /\ AtMost(limit[d] + 1, Len(s)) \in Nat
  BY <1>1 DEF Selected, AtMost
<1>3. \/ Ends(d, "error")
      \/ /\ Goto(d, "client") /\ UNCHANGED <<result, todo, file>>
         /\ plan' = [plan EXCEPT ![d] = SubSeq(s, 1, n)] /\ opened' = [opened EXCEPT ![d] = s]
         /\ Validated(s, AtMost(limit[d] + 1, Len(s)))
         /\ ~ \E i \in 1 .. n : s[i].tokens > MaxModelLen
  BY <1>t, Zenon DEF Sum
<1>4. CASE Ends(d, "error")
  BY <1>t, <1>d, <1>4 DEF Ends, Goto, Rows
<1>5. CASE /\ Goto(d, "client") /\ UNCHANGED <<result, todo, file>>
           /\ plan' = [plan EXCEPT ![d] = SubSeq(s, 1, n)] /\ opened' = [opened EXCEPT ![d] = s]
           /\ Validated(s, AtMost(limit[d] + 1, Len(s)))
           /\ ~ \E i \in 1 .. n : s[i].tokens > MaxModelLen
  <2>1. \A i \in 1 .. n : s[i].tokens <= MaxModelLen
    <3>1. \A i \in 1 .. n : s[i] \in Entries /\ s[i] # Bad
      <4>1. s \in [1 .. Len(s) -> Entries]
        BY <1>1, LenProperties
      <4>2. \A i \in 1 .. AtMost(limit[d] + 1, Len(s)) : s[i] # Bad
        BY <1>5, Zenon DEF Validated
      <4> HIDE DEF s, n
      <4> QED
        BY <1>1, <1>2, <4>1, <4>2
    <3>2. MaxModelLen \in Nat
      BY MooncakeAssumption
    <3>3. \A i \in 1 .. n : s[i].tokens \in Nat
      BY <3>1 DEF Entries
    <3> QED
      BY <1>2, <1>5, <3>2, <3>3
  <2>2. plan'[d] \in Seq(Entries) /\ Len(plan'[d]) = n /\ \A i \in 1 .. n : plan'[d][i] = s[i]
    BY <1>d, <1>t, <1>1, <1>2, <1>5, Prefix
  <2>3. \A i \in DOMAIN plan'[d] : plan'[d][i].tokens <= MaxModelLen
    BY <2>1, <2>2, LenProperties
  <2>4. opened'[d] = s /\ Current(d)' = s /\ plan'[d] = SubSeq(s, 1, n)
    BY <1>d, <1>t, <1>5 DEF Current
  <2>5. pc'[d] = "client" /\ result'[d] # "ok"
    BY <1>d, <1>t, <1>5 DEF Goto
  <2> HIDE DEF s, n
  <2> QED
    BY <1>2, <2>2, <2>3, <2>4, <2>5 DEF Rows, FitsModel
<1> QED
  BY <1>3, <1>4, <1>5

(* The client sends what the plan has, if the file is still the one the    *)
(* plan was made from.                                                     *)
LEMMA ClientStep ==
  ASSUME IRowsInv, NEW d \in Recorders, Client(d)
  PROVE  Rows(d)'
<1>t. TypeOK /\ d \in Callers /\ pc[d] = "client" /\ result[d] # "ok" /\ FitsModel(plan[d])
  BY DEF IRowsInv, IPlansInv, IInv, RowsInv, Callers, Client
<1>r. ~replaced[d] => /\ Current(d) = opened[d] /\ Len(plan[d]) <= Len(opened[d])
                      /\ plan[d] = SubSeq(opened[d], 1, Len(plan[d]))
  BY <1>t DEF IRowsInv, RowsInv
<1>d. DOMAIN pc = Callers /\ DOMAIN rows = Callers /\ DOMAIN result = Callers
      /\ Len(plan[d]) \in Nat /\ Len(opened[d]) \in Nat
  BY <1>t, LenProperties DEF TypeOK
<1> DEFINE n == AtMost(NumPrompts(d), Len(Current(d)))
<1>1. ~replaced[d] => SubSeq(Current(d), 1, n) = plan[d]
  BY <1>r, <1>d DEF AtMost, NumPrompts
<1>2. UNCHANGED <<plan, opened, replaced, file, todo>>
  BY DEF Client, shared
<1>3. \/ Ends(d, "error")
      \/ Goto(d, "stats") /\ UNCHANGED result
         /\ rows' = [rows EXCEPT ![d] = SubSeq(Current(d), 1, n)]
  BY Zenon DEF Client
<1> HIDE DEF n
<1> QED
  BY <1>t, <1>d, <1>1, <1>2, <1>3 DEF Rows, Ends, Goto

(* A new call, and the end of one.                                         *)
LEMMA BeginAndEndStep ==
  ASSUME IRowsInv, NEW d \in Recorders,
         \/ WriteStats(d)
         \/ \E w \in Selections : \E ts \in Lists(d) : Begin(d, ts, w)
  PROVE  Rows(d)'
<1>t. TypeOK /\ d \in Callers /\ Rows(d)
  BY DEF IRowsInv, IPlansInv, IInv, RowsInv, Rows, Callers
<1>d. DOMAIN pc = Callers /\ DOMAIN result = Callers
  BY <1>t DEF TypeOK
<1>1. CASE WriteStats(d)
  <2>1. pc[d] = "stats" /\ UNCHANGED <<plan, rows, replaced>>
        /\ (Ends(d, "ok") \/ Ends(d, "error"))
    BY <1>1 DEF WriteStats
  <2> QED
    BY <1>t, <1>d, <2>1 DEF Rows, Ends, Goto
<1>2. CASE \E w \in Selections : \E ts \in Lists(d) : Begin(d, ts, w)
  <2>1. Ends(d, "error") \/ (Goto(d, "ensure") /\ result' = [result EXCEPT ![d] = "none"])
    BY <1>2, Zenon DEF Begin
  <2> QED
    BY <1>d, <1>t, <2>1 DEF Rows, Ends, Goto
<1> QED
  BY <1>1, <1>2

(* Another call can only replace the file, which is noted.                 *)
LEMMA OthersStep ==
  ASSUME IRowsInv, NEW d \in Recorders, NEW c \in Callers, c # d,
         \/ \E w \in Selections : \E ts \in Lists(c) : Begin(c, ts, w)
         \/ Prepares(c) \/ Sum(c) \/ Client(c) \/ WriteStats(c) \/ Killed(c)
  PROVE  Rows(d)'
<1>t. IInv /\ TypeOK /\ CallInv /\ d \in Callers /\ Rows(d)
  BY DEF IRowsInv, IPlansInv, IInv, RowsInv, Rows, Callers
<1>1. /\ pc'[d] = pc[d] /\ todo'[d] = todo[d] /\ plan'[d] = plan[d]
      /\ opened'[d] = opened[d] /\ rows'[d] = rows[d] /\ result'[d] = result[d]
  BY <1>t, OthersKeep
<1>2. CASE Replace(c)
  <2>1. replaced'[d] = (replaced[d] \/ (pc[d] = "client" /\ Head(todo[d]) = Head(todo[c])))
    BY <1>t, <1>2 DEF Replace
  <2>2. pc[d] = "client" /\ Head(todo[d]) # Head(todo[c]) => Current(d)' = Current(d)
    BY <1>t, <1>1, <1>2, ReplaceFacts, HeadIsTrace DEF Current
  <2>3. pc[d] # "client" => replaced'[d] = replaced[d]
    BY <1>t, <2>1 DEF TypeOK
  <2> QED
    BY <1>t, <1>1, <2>1, <2>2, <2>3 DEF Rows
<1>3. CASE ~Replace(c)
  <2>1. UNCHANGED file
    <3>1. CASE \/ Opens(c) \/ Copy(c) \/ Downloaded(c) \/ ConnectionCut(c) \/ DownloadFails(c)
               \/ CleansUp(c) \/ Lapses(c)
      BY <3>1 DEF Opens, Copy, Copied, Downloaded, ConnectionCut, DownloadFails, CleansUp, Lapses,
         shared
    <3>2. CASE Ensure(c) \/ Count(c)
      BY <3>2 DEF Ensure, Count, shared
    <3>3. CASE \/ \E w \in Selections : \E ts \in Lists(c) : Begin(c, ts, w)
               \/ Sum(c) \/ Client(c) \/ WriteStats(c) \/ Killed(c)
      BY <3>3 DEF Begin, Sum, Client, WriteStats, Killed, shared
    <3> QED
      BY <1>3, <3>1, <3>2, <3>3 DEF Prepares
  <2>2. replaced'[d] = replaced[d]
    <3>1. CASE Sum(c)
      BY <1>t, <3>1 DEF TypeOK, Sum
    <3>2. CASE Prepares(c)
      BY <1>3, <3>2 DEF Prepares, Ensure, Opens, Copy, Downloaded, ConnectionCut, DownloadFails,
         CleansUp, Lapses, Count, shared
    <3>3. CASE \/ \E w \in Selections : \E ts \in Lists(c) : Begin(c, ts, w)
               \/ Client(c) \/ WriteStats(c) \/ Killed(c)
      BY <3>3 DEF Begin, Client, WriteStats, Killed, shared
    <3> QED
      BY <3>1, <3>2, <3>3
  <2> QED
    BY <1>t, <1>1, <2>1, <2>2 DEF Rows, Current
<1> QED
  BY <1>2, <1>3

LEMMA RowsStep == IRowsInv /\ [Next]_vars => RowsInv'
<1> SUFFICES ASSUME IRowsInv, [Next]_vars, NEW d \in Recorders PROVE Rows(d)'
  BY DEF RowsInv, Rows
<1>1. ASSUME NEW c \in Callers,
             \/ \E w \in Selections : \E ts \in Lists(c) : Begin(c, ts, w)
             \/ Prepares(c) \/ Sum(c) \/ Client(c) \/ WriteStats(c) \/ Killed(c)
      PROVE  Rows(d)'
  BY <1>1, PreparingStep, SumStep, ClientStep, BeginAndEndStep, OthersStep
<1>2. ASSUME UNCHANGED vars \/ \E t \in Traces, v \in Versions : NewVersion(t, v)
      PROVE  Rows(d)'
  <2>1. Rows(d)
    BY DEF IRowsInv, RowsInv, Rows
  <2> QED
    BY <1>2, <2>1 DEF Rows, Current, NewVersion, locals, vars
<1> QED
  BY <1>1, <1>2 DEF Next, Steps, Prepares

(* What a recorder has recorded, from prepare_mooncake_workload to         *)
(* write_request_stats, is what its plan said and fits the model, unless   *)
(* another call has replaced the trace after the plan was made.            *)
THEOREM RecordedPlans == Spec => []RecordedIsPlanned
<1>1. Init /\ IPlansInv => IRowsInv
  BY DEF Init, IRowsInv, RowsInv, Callers
<1>2. IRowsInv /\ [Next]_vars /\ IPlansInv' => IRowsInv'
  BY RowsStep DEF IRowsInv
<1>3. IRowsInv => RecordedIsPlanned
  BY DEF IRowsInv, RowsInv, RecordedIsPlanned, FitsModel
<1> QED
  BY <1>1, <1>2, <1>3, PlansInductive, PTL DEF Spec

===================================================================================
