--------------------------- MODULE MCReleaseAsset ---------------------------
(* ReleaseAsset with up to four versions of a trace, named after the parts *)
(* they are split into, in a unit of which an asset has less than three    *)
(* and a part at most two.                                                 *)
EXTENDS ReleaseAsset

SizeOf == [one |-> 1, two |-> 3, three |-> 6, four |-> 7]
Sizes == [v \in Versions |-> SizeOf[v]]

=============================================================================
