--------------------------- MODULE MCMooncakeTrace ---------------------------
(* MooncakeTrace with versions of traces, and selections in hundredths of a *)
(* percent.                                                                 *)
EXTENDS MooncakeTrace

e1 == [time |-> 0, tokens |-> 1]
e2 == [time |-> 1, tokens |-> 2]
e3 == [time |-> 1, tokens |-> 3]

(* The second one is shorter, and its request does not fit the model.        *)
TwoVersions == {<<e1, e2>>, <<e3>>}

(* Of two requests, a little more than half: one or two.                     *)
ManySelections ==
  {[percent |-> None, requests |-> 2], [percent |-> 5001, requests |-> None],
   [percent |-> 10000, requests |-> 1]}

(* Long enough for a percentage with a decimal to select a whole number     *)
(* (PercentIsExact).                                                        *)
LongVersion == {[i \in 1 .. 250 |-> e1]}
LongSelection == {[percent |-> 6440, requests |-> None]}

TwoTraces == <<"conversation", "toolagent">>

=============================================================================
