---------------------------- MODULE MCReplaySweep ----------------------------
(* ReplayMatrix with lists of cases and configurations.                    *)
EXTENDS ReplayMatrix

CONSTANTS r1, r2, d1, d2

TheCases == {"x1", "x2", "x3", "l1-4gb"}

TheDefaults ==
  [l2_adapter |-> [type |-> "fs_native", base_path |-> r2], l2_store_policy |-> "skip_l1",
   rest |-> "valid"]

(* configs/replayer/base.yaml, fs-native.yaml and nixl-hf3fs.yaml, with a  *)
(* path of their own, and others that extend them.                         *)
Base == [l2_store_policy |-> "skip_l1"]
FsNative == <<Base, [l2_adapter |-> [type |-> "fs_native", base_path |-> r2]]>>
Nixl == <<Base, [l2_adapter |-> [type |-> "nixl_store_dynamic", file_path |-> r2]]>>
NixlAsFs == Append(Nixl, [l2_adapter |-> [type |-> "fs_native"]])
FsAsNixl == Append(FsNative, [l2_adapter |-> [type |-> "nixl_store_dynamic"]])
Policy == Append(FsNative, [l2_store_policy |-> "default"])

Node(name) == [name |-> name, role |-> "storage", devices |-> {"/dev/nvme0n1"}, interfaces |-> {},
               rest |-> "valid"]
Profile(node) == [nodes |-> <<Node("s1")>>, replayNode |-> node, rest |-> "valid"]

Speeds == [script |-> "speeds", entries |-> <<"x1", "x2">>, root |-> r1, dir |-> d1,
           keep |-> FALSE, dry |-> FALSE, config |-> FsNative, profile |-> None]

(* The replay node has the name of a storage node.                         *)
BadProfile == Profile(Node("s1"))

ProfiledCall == {[Speeds EXCEPT !.profile = Profile(Node("r1"))]}

OnNixl == [Speeds EXCEPT !.config = Nixl]
OnNixl2 == [OnNixl EXCEPT !.dir = d2, !.root = r2]

(* A list of its own can go to an output root that has been written to.    *)
OtherList == [OnNixl EXCEPT !.entries = <<"x3">>]
Sizes == [Speeds EXCEPT !.script = "sizes", !.entries = <<"l1-4gb">>]

(* Whatever is the root, or the directory, can be swept by the next call.  *)
ManyCalls ==
  {OnNixl, OnNixl2, OtherList, [Speeds EXCEPT !.keep = TRUE],
   [Sizes EXCEPT !.root = r2, !.config = NixlAsFs],
   [Sizes EXCEPT !.dry = TRUE, !.config = FsAsNixl],
   [OtherList EXCEPT !.dry = TRUE, !.profile = BadProfile], [Speeds EXCEPT !.config = Policy]}

(* Two workloads, the same one twice, and two backends.                    *)
TwoMatrices ==
  {[kind |-> "workloads", items |-> <<OnNixl, OnNixl2>>],
   [kind |-> "backends", items |-> <<[Speeds EXCEPT !.config = Policy], OnNixl2>>],
   [kind |-> "workloads", items |-> <<OnNixl, OnNixl>>]}
OneMatrix == {[kind |-> "workloads", items |-> <<[Speeds EXCEPT !.profile = Profile(Node("r1"))]>>]}

=============================================================================
