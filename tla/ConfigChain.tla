----------------------------- MODULE ConfigChain -----------------------------
(***************************************************************************)
(* Loading a YAML file that extends another one: _load_raw_config and      *)
(* _merge of src/recorder/config.py, which src/replayer/config.py repeats. *)
(*                                                                         *)
(* A call reads its file, calls itself for the file it extends, and merges *)
(* its own settings over what that call returns.  Settings are sections,   *)
(* each a mapping from keys to values, or null.                            *)
(***************************************************************************)
EXTENDS Naturals, Sequences, FiniteSetsExt, TLC

CONSTANTS
  Files,     \* resolved paths of configurations
  Sections,  \* [names of sections -> the mappings from keys that can be there]
  Settings,  \* what a file can say: sections, or None (null) for some of them
  None       \* null, no value, no file

(* The keys of a with their values, and those of b that a does not have.   *)
Over(a, b) == [k \in DOMAIN a \cup DOMAIN b |-> IF k \in DOMAIN a THEN a[k] ELSE b[k]]

(* Mappings over mappings are mappings; null is none.                      *)
ASSUME ChainAssumption ==
  /\ Files # {} /\ IsFiniteSet(Files)
  /\ \A n \in DOMAIN Sections :
       None \notin Sections[n] /\ \A a, b \in Sections[n] : Over(a, b) \in Sections[n]
  /\ \A s \in Settings : \A n \in DOMAIN s :
       n \in DOMAIN Sections /\ s[n] \in Sections[n] \cup {None}

VARIABLES
  contents,  \* [Files -> [extends, settings], or None: no file, or no mapping]
  load,      \* where the load is
  file,      \* the file the current call is about
  ancestry,  \* files of the calls that have not returned, outermost first
  merged     \* what the last call has returned

chain == <<contents, load, file, ancestry, merged>>

Extendable == Files \cup {None, "bad"}
Contents == [Files -> [extends : Extendable, settings : Settings] \cup {None}]
Loads == {"idle", "open", "return", "loaded", "refused"}

ChainTypeOK ==
  /\ contents \in Contents /\ load \in Loads /\ file \in Files
  /\ ancestry \in Seq(Files)

Listed(s) == {s[i] : i \in DOMAIN s}

-----------------------------------------------------------------------------
(* Mutant: a section replaces the inherited one.                           *)
Merge_Shallow(base, override) == Over(override, base)

(* _merge.                                                                 *)
Merge(base, override) ==
  [s \in DOMAIN base \cup DOMAIN override |->
     IF s \notin DOMAIN override THEN base[s]
     ELSE IF s \in DOMAIN base /\ base[s] # None /\ override[s] # None
       THEN Over(override[s], base[s])
     ELSE override[s]]

(* load_config calls _load_raw_config.                                     *)
OpenConfig(f) ==
  load' = "open" /\ file' = f /\ ancestry' = <<>> /\ merged' = <<>> /\ UNCHANGED contents

(* Mutant: a file is compared with the one that extends it only.           *)
Cycle_Parent(f) == ancestry # <<>> /\ f = ancestry[Len(ancestry)]

(* resolved_path in ancestry.                                              *)
Cycle(f) == f \in Listed(ancestry)

(* A call, up to its recursive call or, in the last file, its return.      *)
Open ==
  /\ load = "open"
  /\ IF Cycle(file) \/ contents[file] = None
       THEN load' = "refused" /\ UNCHANGED <<file, ancestry, merged>>
     ELSE IF contents[file].extends = "bad"
       THEN load' = "refused" /\ UNCHANGED <<file, ancestry, merged>>
     ELSE IF contents[file].extends = None
       THEN load' = "return" /\ merged' = contents[file].settings /\ UNCHANGED <<file, ancestry>>
     ELSE /\ ancestry' = Append(ancestry, file) /\ file' = contents[file].extends
          /\ UNCHANGED <<load, merged>>
  /\ UNCHANGED contents

(* The innermost call that waits goes on: it merges, and returns.          *)
Return ==
  /\ load = "return"
  /\ IF ancestry = <<>>
       THEN load' = "loaded" /\ UNCHANGED <<file, ancestry, merged>>
       ELSE LET caller == ancestry[Len(ancestry)] IN
              /\ merged' = Merge(merged, contents[caller].settings)
              /\ file' = caller
              /\ ancestry' = SubSeq(ancestry, 1, Len(ancestry) - 1)
              /\ UNCHANGED load
  /\ UNCHANGED contents

Load == Open \/ Return

-----------------------------------------------------------------------------
(* The file reached from f over n extends.                                 *)
Above(f, n) ==
  LET up[i \in 0 .. n] == IF i = 0 THEN f ELSE contents[up[i - 1]].extends IN up[n]

(* What the file at distance i from f says of a section.                   *)
Says(f, i, s) == s \in DOMAIN contents[Above(f, i)].settings
Section(f, i, s) == contents[Above(f, i)].settings[s]

(* The distance from f of the first file that extends no other one.        *)
Tops(f) ==
  {n \in 0 .. Cardinality(Files) :
     /\ \A m \in 0 .. n - 1 : contents[Above(f, m)].extends # None
     /\ contents[Above(f, n)].extends = None}
Depth(f) == Min(Tops(f))

(* n is the distance from f to the end of a chain that can be loaded.      *)
Chained(f, n) ==
  /\ n \in 0 .. Cardinality(Files)
  /\ \A i \in 0 .. n : Above(f, i) \in Files /\ contents[Above(f, i)] # None
  /\ contents[Above(f, n)].extends = None
  /\ \A i \in 0 .. n - 1 : contents[Above(f, i)].extends # None

Loadable(f) == \E n \in 0 .. Cardinality(Files) : Chained(f, n)

(* The nearest file that has key k of section s, unless a nearer one makes *)
(* the section null: a set of one distance, or empty.                      *)
Nearest(f, s, k) ==
  {i \in 0 .. Depth(f) :
     /\ Says(f, i, s) /\ Section(f, i, s) # None /\ k \in DOMAIN Section(f, i, s)
     /\ \A j \in 0 .. i - 1 :
          Says(f, j, s) => Section(f, j, s) # None /\ k \notin DOMAIN Section(f, j, s)}

(* No file is read twice in one load, also where files extend each other   *)
(* in a circle: a load is as long as the chain, and ends.                  *)
NoFileTwice ==
  \A i, j \in DOMAIN ancestry : ancestry[i] = ancestry[j] => i = j

(* What a load returns is what the nearest file that says something says,  *)
(* key by key, and nothing else: the merging from the far end of the chain *)
(* loses no key of a section that several files have, and brings none back *)
(* that a nearer file has dropped with its section.                        *)
NearestWins ==
  load \in {"return", "loaded"} =>
    /\ \A s \in DOMAIN merged :
         IF merged[s] = None
           THEN \E i \in 0 .. Depth(file) :
                  /\ Says(file, i, s) /\ Section(file, i, s) = None
                  /\ \A j \in 0 .. i - 1 : ~Says(file, j, s)
           ELSE \A k \in DOMAIN merged[s] :
                  \E i \in Nearest(file, s, k) : merged[s][k] = Section(file, i, s)[k]
    /\ \A i \in 0 .. Depth(file) : \A s \in DOMAIN contents[Above(file, i)].settings :
         /\ s \in DOMAIN merged
         /\ Section(file, i, s) # None => \A k \in DOMAIN Section(file, i, s) :
              i \in Nearest(file, s, k) => merged[s] # None /\ k \in DOMAIN merged[s]

=============================================================================
