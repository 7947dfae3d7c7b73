---------------------------- MODULE MCRecordSweep ----------------------------
(* RecordSweep with the repository's configurations, and with others that  *)
(* extend each other.                                                      *)
EXTENDS RecordSweep

Mount == <<"mnt", "nvme", "lm">>
HomeDir == <<"home", "u">>
WorkDir == <<"home", "u", "src", "repo">>
BothTraces == {"toolagent", "conversation"}

Path(f, parts) == [t \in BothTraces |-> [from |-> f, parts |-> parts]]
Relative(parts) == Path("relative", parts)

(* The first one leads out of the mountpoint.                              *)
TwoLinks ==
  (Mount \o <<"link">> :> <<"home", "u", "src", "repo", "data">>) @@
  (Mount \o <<"lmcache-trace", "mooncake-conversation", "old">> :> Mount \o <<"old">>)

TheDefaults ==
  [model |-> [gpu |-> "0.90", kv |-> None, rest |-> "valid"],
   l2 |-> [rest |-> "valid", type |-> "fs_native", subpath |-> Relative(<<"lmcache-trace", "tensormesh-all">>),
           reset |-> FALSE],
   workload |-> [rest |-> "valid", backend |-> "tensormesh", source |-> "all", order |-> "round_robin",
                 timing |-> "respect-gaps", number |-> "30", speedup |-> "1"],
   mooncake |-> [rest |-> "valid", trace |-> "toolagent", number |-> "1000", speedup |-> "1",
     path |-> [t \in BothTraces |->
       [from |-> "relative", parts |-> <<"mooncake-traces", t>>]]]]

(* configs/recorder/qwen3-coder-480b-tp8-{base,swebench,mooncake}.yaml.    *)
BaseSays ==
  [model |-> [gpu |-> "0.90"],
   l2 |-> [subpath |-> Relative(<<"lmcache-trace", "tensormesh-all">>), reset |-> TRUE],
   workload |-> [source |-> "all"]]
SwebenchSays ==
  [l2 |-> [subpath |-> Relative(<<"lmcache-trace", "tensormesh-swebench">>)],
   workload |-> [source |-> "swebench", order |-> "original", number |-> None]]
MooncakeSays ==
  [model |-> [gpu |-> "0.90"],
   l2 |-> [reset |-> TRUE, subpath |-> [t \in BothTraces |-> [from |-> "relative",
     parts |-> <<"lmcache-trace", IF t = "toolagent" THEN "mooncake-toolagent"
                                  ELSE "mooncake-conversation">>]]],
   workload |-> [backend |-> "mooncake"], mooncake |-> [trace |-> "toolagent"]]

OwnSettings ==
  {[model |-> [kv |-> "72"]], [model |-> [kv |-> "72", gpu |-> None]], [model |-> None],
   [model |-> [gpu |-> "0.25"], workload |-> [number |-> "5"]]}

WrongSettings ==
  {[workload |-> [rest |-> "invalid"]], [l2 |-> [base_path |-> "x"]],
   [l2 |-> [subpath |-> Relative(<<"a", "..", "b">>)]], [workload |-> [backend |-> "other"]],
   [workload |-> [source |-> "gaia"]], [l2 |-> [type |-> "mock"]]}

GaiaSays == [workload |-> [source |-> "gaia", order |-> "original", number |-> "30"]]

(* The mappings that these sections, and what is merged of them, can be.   *)
Optional(key, values) == {<<>>} \cup {key :> v : v \in values}
Subpaths == {s.l2.subpath : s \in {BaseSays, SwebenchSays, MooncakeSays, [l2 |-> [subpath |-> Relative(<<"a", "..", "b">>)]]}}

AllSections ==
  [model |-> {a @@ b : a \in Optional("gpu", {None, "0.90", "0.25"}), b \in Optional("kv", {"72"})},
   l2 |-> {a @@ b @@ c @@ d : a \in Optional("subpath", Subpaths), b \in Optional("reset", {TRUE}),
             c \in Optional("base_path", {"x"}), d \in Optional("type", {"mock"})},
   workload |->
     {a @@ b @@ c @@ d @@ e :
        a \in Optional("source", {"all", "swebench", "gaia"}), b \in Optional("order", {"original"}),
        c \in Optional("number", {None, "5", "30"}), d \in Optional("backend", {"mooncake", "other"}),
        e \in Optional("rest", {"invalid"})},
   mooncake |-> Optional("trace", {"toolagent"})]

AllSettings ==
  OwnSettings \cup WrongSettings \cup {BaseSays, SwebenchSays, MooncakeSays, GaiaSays}

AllFiles == {"base", "swebench", "mooncake", "own1", "own2", "own3"}

Repository ==
  [f \in AllFiles |->
     CASE f = "base" -> [extends |-> None, settings |-> BaseSays]
       [] f = "swebench" -> [extends |-> "base", settings |-> SwebenchSays]
       [] f = "mooncake" -> [extends |-> None, settings |-> MooncakeSays]
       [] OTHER -> None]

File(extends, settings) == {[extends |-> e, settings |-> s] : e \in extends, s \in settings}

Chain(a, b, c) ==
  [f \in AllFiles |-> IF f = "own1" THEN a ELSE IF f = "own2" THEN b ELSE IF f = "own3" THEN c
                      ELSE None]

(* Chains of up to three files, circles, and files that are not there.     *)
OwnContents ==
  LET one == [model |-> None] IN
  {Chain(a, b, c) : a \in File({"own2"}, OwnSettings), b \in File({"own3"}, OwnSettings),
                    c \in File({None}, OwnSettings) \cup File({"own1"}, {one}) \cup {None}}
  \cup {Chain(a, b, None) : a \in File({"own2"}, OwnSettings),
                           b \in File({None}, OwnSettings) \cup File({"bad"}, {one})}
  \cup {Chain(a, None, None) : a \in File({None}, OwnSettings \cup WrongSettings \cup {GaiaSays})}

Option == [config |-> "mooncake", trace |-> None, path |-> None, l2Path |-> None,
           percent |-> None, speedup |-> None, dry |-> FALSE, output |-> WorkDir \o <<"out">>]

SomeOptions ==
  {[Option EXCEPT !.config = "own1", !.dry = TRUE],
   [Option EXCEPT !.config = "own1", !.percent = "10", !.dry = TRUE],
   [Option EXCEPT !.config = "swebench", !.percent = "10"],
   [Option EXCEPT !.trace = "conversation", !.l2Path = Relative(<<"..", "..", "x">>)],
   [Option EXCEPT !.l2Path = Relative(<<"link", "x">>)],
   [Option EXCEPT !.l2Path = Relative(<<"a", "..", "kv">>)],
   [Option EXCEPT !.l2Path = Path("root", <<"home", "u", "src">>)],
   [Option EXCEPT !.l2Path = Path("root", <<"home", "u">>)],
   [Option EXCEPT !.l2Path = Path("home", <<"kv">>)]}

Speeds == [script |-> "speeds", workloads |-> <<"toolagent">>, speedups |-> <<"1", "2">>,
           percent |-> None, keep |-> FALSE, dry |-> FALSE]

SomeCalls ==
  {Speeds, [Speeds EXCEPT !.keep = TRUE], [Speeds EXCEPT !.dry = TRUE],
   [Speeds EXCEPT !.workloads = <<"conversation">>, !.speedups = <<"2">>],
   [Speeds EXCEPT !.workloads = <<"swebench">>, !.speedups = <<"2">>, !.percent = "10"],
   [Speeds EXCEPT !.script = "sources", !.workloads = <<"swebench", "conversation">>,
                  !.speedups = <<None>>]}

Configs == [w \in BothTraces \cup {"swebench"} |->
              IF w = "swebench" THEN "swebench" ELSE "mooncake"]
CaseNames == [w \in BothTraces \cup {"swebench"} |->
            CASE w = "swebench" -> "tensormesh-swebench" [] w = "toolagent" -> "mooncake-toolagent"
              [] OTHER -> "mooncake-conversation"]

Old(parts, kind, workload) == [at |-> Mount \o parts, kind |-> kind, workload |-> workload, run |-> 0]

(* Blocks and a trace of earlier days, and what others keep there.         *)
OneDisk ==
  {{Directory(HomeDir), Directory(WorkDir), Old(<<"data">>, "other", None),
    Old(<<"mooncake-traces", "toolagent">>, "mooncake", "toolagent"),
    Old(<<"lmcache-trace", "mooncake-toolagent", "kv">>, "blocks", "toolagent"),
    Old(<<"lmcache-trace", "tensormesh-swebench", "kv">>, "blocks", "swebench")}}

Output == WorkDir \o <<"sweep">>

(* Every name of the instance; None is in the output directory of a run    *)
(* without a speedup.                                                      *)
AllNames ==
  {"mnt", "nvme", "lm", "home", "u", "src", "repo", "link", "data", "old", "mooncake-traces", "x",
   "a", "b", "..", "kv", "lmcache-trace", "trace", "out", "sweep", "1", "2", None}
  \cup BothTraces \cup {CaseNames[w] : w \in DOMAIN CaseNames} \cup DOMAIN CaseNames \cup {"tensormesh-all"}

(* The theorems about the cases are about these contents, too.             *)
MCInit ==
  /\ contents \in {Repository} \cup OwnContents /\ RecordInit
  /\ Assert(Agreed /\ Apart, "the hypotheses of the theorems")
MCSpec == MCInit /\ [][RecordNext]_recordVars
=============================================================================
