--------------------------- MODULE TraceAssetsProofs ---------------------------
(***************************************************************************)
(* Proofs about the two stores of traces: the GitHub Release of            *)
(* ReleaseAsset, for any sizes, versions, limits and calls, and the        *)
(* Dataset of HubAsset, for any uploaders and downloaders.                 *)
(***************************************************************************)
EXTENDS ReleaseAsset, HubAsset, WellFoundedInduction, TLAPS

-----------------------------------------------------------------------------
(* The inductive invariant of the release.                                 *)

(* What was sent is in the release, as the version that is uploaded.       *)
UploadInv ==
  /\ up \in {"split", "upload", "put"} => sent \subseteq Pieces(version)
  /\ up \in {"upload", "put"} => Pieces(version) \subseteq Names
  /\ up = "put" => sent # Pieces(version) /\ assets[NextName] = None
  /\ up \in {"split", "upload", "put", "zero"} => \A i \in sent : assets[i] = version
  /\ up = "zero" => sent = Pieces(version)

(* No asset is a piece of a version that has more pieces than there are    *)
(* names.                                                                  *)
NamedInv == \A i \in Names : assets[i] # None => Pieces(assets[i]) \subseteq Names

(* While nobody disturbs a download, what is beside the output is what the *)
(* release has, as far as gh has got.                                      *)
PartsInv ==
  undisturbed =>
    /\ down \in {"list", "getWhole", "getParts"} => \A i \in Parts : parts[i] = None
    /\ down = "getWhole" => assets[0] # None
    /\ down \in {"getParts", "gh", "cat"} => assets[1] # None
    /\ down = "gh" => \A i \in Parts :
         IF i \in DOMAIN pending THEN pending[i] = assets[i] ELSE parts[i] = assets[i]
    /\ down = "cat" => \A i \in Parts : parts[i] = assets[i]
    /\ down \in {"remove", "zero"} => \A v \in Versions : Holds(v) => output = Whole(v)

(* A download without --clobber goes on only where there was no file.      *)
OutputInv ==
  down \in {"list", "getWhole", "getParts", "gh", "cat"} => output = NoPieces \/ clobber

IInv == TypeOK /\ UploadInv /\ NamedInv /\ PartsInv /\ OutputInv

-----------------------------------------------------------------------------
(* The names of the pieces.                                                *)

(* A set of naturals that is not empty has a least one.                    *)
LEMMA Least ==
  ASSUME NEW T \in SUBSET Nat, T # {}
  PROVE  \E i \in T : \A j \in T : i <= j
<1>1. PICK x \in T : \A y \in T : ~(<<y, x>> \in OpToRel(<, Nat))
  BY NatLessThanWellFounded, WFMin
<1>2. \A y \in T : ~(y < x)
  BY <1>1 DEF OpToRel
<1> QED
  BY <1>2

(* Its pieces have numbers; a file that is split has a first part.         *)
LEMMA PiecesAreNumbers ==
  ASSUME NEW v \in Versions
  PROVE  /\ Pieces(v) \subseteq Nat
         /\ 1 \in Pieces(v) => Pieces(v) \subseteq Nat \ {0}
         /\ PartCount(v) \in Nat
<1>1. Size[v] \in Nat /\ Chunk \in Nat \ {0}
  BY ReleaseAssumption
<1>2. PartCount(v) \in Nat
  BY <1>1 DEF PartCount
<1> QED
  BY <1>2 DEF Pieces

(* UploadAsset takes a piece that is not in the release yet.               *)
LEMMA NextIsLeft ==
  ASSUME version \in Versions, sent \subseteq Pieces(version), sent # Pieces(version)
  PROVE  NextName \in Pieces(version) \ sent
<1>1. Pieces(version) \ sent \subseteq Nat /\ Pieces(version) \ sent # {}
  BY PiecesAreNumbers
<1>2. \E i \in Pieces(version) \ sent : \A j \in Pieces(version) \ sent : i <= j
  BY <1>1, Least
<1> QED
  BY <1>2 DEF NextName

-----------------------------------------------------------------------------
(* The release is created and filled.                                      *)

(* The uploader and the downloader have the release in common, which only  *)
(* the uploader changes.                                                   *)
LEMMA UploaderKeeps == Uploader => UNCHANGED downloader
BY DEF Uploader, CreateRelease, Upload, SplitFile, UploadAsset, Put, Uploaded, UploadFails,
   UploadKilled

LEMMA DownloaderKeeps ==
  Downloader => UNCHANGED uploader /\ (undisturbed' = undisturbed \/ Download)
BY DEF Downloader, Download, List, GetWhole, ListParts, GetPart, Concatenate, Remove,
   DownloadFails, Unchanged

LEMMA InvInit == Init => IInv
<1> SUFFICES ASSUME Init PROVE IInv
  OBVIOUS
<1>1. TypeOK
  <2>1. DOMAIN NoPieces = {} /\ calls \in [{"up", "down"} -> 0 .. MaxCalls]
    BY ReleaseAssumption DEF Init, NoPieces
  <2>2. parts \in [Parts -> Contents \cup {None}] /\ assets \in [Names -> Versions \cup {None}]
    BY DEF Init
  <2>3. DOMAIN pending = {} /\ DOMAIN output = {} /\ failures \in 0 .. MaxFailures
    BY <2>1, ReleaseAssumption DEF Init
  <2> QED
    BY <2>1, <2>2, <2>3 DEF Init, TypeOK
<1>2. UploadInv /\ NamedInv /\ PartsInv /\ OutputInv
  BY DEF Init, UploadInv, NamedInv, PartsInv, OutputInv
<1> QED
  BY <1>1, <1>2 DEF IInv

LEMMA UploaderTypes ==
  ASSUME IInv, Uploader
  PROVE  TypeOK'
<1>t. TypeOK /\ MaxCalls \in Nat /\ MaxFailures \in Nat
  BY ReleaseAssumption DEF IInv
<1>1. CASE CreateRelease
  BY <1>t, <1>1 DEF TypeOK, CreateRelease, downloader
<1>2. CASE Upload
  <2>1. calls' \in [{"up", "down"} -> 0 .. MaxCalls]
    BY <1>t, <1>2 DEF TypeOK, Upload, Call
  <2>2. up' \in {"split", "nonzero"} /\ workdir' \in BOOLEAN
    BY <1>t, <1>2 DEF TypeOK, Upload
  <2> QED
    BY <1>t, <1>2, <2>1, <2>2 DEF TypeOK, Upload, downloader
<1>3. CASE SplitFile
  BY <1>t, <1>3 DEF TypeOK, SplitFile, UploadEnds, downloader
<1>4. CASE UploadAsset
  <2>1. assets' \in [Names -> Versions \cup {None}]
    BY <1>t, <1>4 DEF TypeOK, UploadAsset, UploadEnds
  <2>2. up' \in {"put", "nonzero"} /\ workdir' \in BOOLEAN /\ undisturbed' \in BOOLEAN
    BY <1>t, <1>4 DEF TypeOK, UploadAsset, UploadEnds
  <2> QED
    BY <1>t, <1>4, <2>1, <2>2 DEF TypeOK, UploadAsset, UploadEnds, downloader
<1>5. CASE Put
  <2>1. NextName \in Names
    BY <1>t, <1>5, NextIsLeft DEF IInv, TypeOK, UploadInv, Put
  <2>2. assets' \in [Names -> Versions \cup {None}] /\ sent' \in SUBSET Names
    BY <1>t, <1>5, <2>1 DEF TypeOK, Put
  <2> QED
    BY <1>t, <1>5, <2>2 DEF TypeOK, Put, downloader
<1>6. CASE Uploaded
  BY <1>t, <1>6 DEF TypeOK, Uploaded, UploadEnds, downloader
<1>7. CASE UploadFails
  <2>1. failures' \in 0 .. MaxFailures
    BY <1>t, <1>7 DEF TypeOK, UploadFails, Failure
  <2> QED
    BY <1>t, <1>7, <2>1 DEF TypeOK, UploadFails, UploadEnds, downloader
<1>8. CASE UploadKilled
  BY <1>t, <1>8 DEF TypeOK, UploadKilled, Failure, downloader
<1> QED
  BY <1>1, <1>2, <1>3, <1>4, <1>5, <1>6, <1>7, <1>8 DEF Uploader

(* A split file that is uploaded has no more parts than there are names.   *)
LEMMA UploaderStep ==
  ASSUME IInv, Uploader
  PROVE  UploadInv' /\ NamedInv'
<1>t. TypeOK /\ UploadInv /\ NamedInv
  BY DEF IInv
<1>1. CASE CreateRelease \/ Uploaded \/ UploadFails \/ UploadKilled
  <2>1. UNCHANGED <<assets, version, sent>> /\ up' \in {up, "zero", "nonzero"}
        /\ (up' = "zero" => up = "zero" \/ (up = "upload" /\ sent = Pieces(version)))
    BY <1>1 DEF CreateRelease, Uploaded, UploadFails, UploadKilled, UploadEnds
  <2>2. NextName' = NextName
    BY <2>1 DEF NextName, Pieces, IsSplit, PartCount
  <2>3. Pieces(version)' = Pieces(version)
    BY <2>1
  <2> QED
    BY <1>t, <2>1, <2>2, <2>3 DEF UploadInv, NamedInv
<1>2. CASE Upload
  <2>1. sent' = {} /\ up' \in {"split", "nonzero"} /\ UNCHANGED assets
    BY <1>2 DEF Upload
  <2> QED
    BY <1>t, <2>1 DEF UploadInv, NamedInv
<1>3. CASE SplitFile
  <2>1. UNCHANGED <<assets, version, sent>> /\ up = "split" /\ up' \in {"upload", "nonzero"}
        /\ (up' = "upload" => ~(IsSplit(version) /\ PartCount(version) > MaxParts))
    BY <1>3 DEF SplitFile, UploadEnds
  <2>2. version \in Versions /\ MaxParts \in Nat
    BY <1>t, ReleaseAssumption DEF TypeOK
  <2>3. up' = "upload" => Pieces(version) \subseteq Names
    BY <2>1, <2>2, PiecesAreNumbers DEF Pieces, Names
  <2> QED
    BY <1>t, <2>1, <2>3 DEF UploadInv, NamedInv
<1>4. CASE UploadAsset
  <2>1. up = "upload" /\ sent # Pieces(version) /\ UNCHANGED <<version, sent>>
        /\ up' \in {"put", "nonzero"}
    BY <1>4 DEF UploadAsset, UploadEnds
  <2>2. NextName \in Pieces(version) \ sent /\ NextName \in Names
    BY <1>t, <2>1, NextIsLeft DEF TypeOK, UploadInv
  <2>3. \/ UNCHANGED assets /\ (up' = "put" => assets[NextName] = None)
        \/ assets' = [assets EXCEPT ![NextName] = None]
    BY <1>4 DEF UploadAsset, UploadEnds
  <2>4. NextName' = NextName /\ Pieces(version') = Pieces(version)
    BY <2>1 DEF NextName
  <2>5. up' = "put" => assets'[NextName] = None
    BY <1>t, <2>2, <2>3 DEF TypeOK
  <2>6. \A i \in Names : i # NextName => assets'[i] = assets[i]
    BY <1>t, <2>3 DEF TypeOK
  <2>7. \A i \in Names : assets'[i] = None \/ assets'[i] = assets[i]
    BY <1>t, <2>2, <2>3 DEF TypeOK
  <2>8. NamedInv'
    BY <1>t, <2>7 DEF NamedInv
  <2>9. \A i \in sent : assets'[i] = version
    BY <1>t, <2>1, <2>2, <2>6 DEF UploadInv, TypeOK
  <2> QED
    BY <1>t, <2>1, <2>4, <2>5, <2>8, <2>9 DEF UploadInv
<1>5. CASE Put
  <2>1. up = "put" /\ up' = "upload" /\ UNCHANGED version /\ sent' = sent \cup {NextName}
        /\ assets' = [assets EXCEPT ![NextName] = version]
    BY <1>5 DEF Put
  <2>2. NextName \in Pieces(version) \ sent /\ NextName \in Names
    BY <1>t, <2>1, NextIsLeft DEF TypeOK, UploadInv
  <2>3. \A i \in Names : assets'[i] = IF i = NextName THEN version ELSE assets[i]
    BY <1>t, <2>1 DEF TypeOK
  <2> HIDE DEF NextName
  <2>4. sent' \subseteq Pieces(version) /\ Pieces(version) \subseteq Names
    BY <1>t, <2>1, <2>2 DEF UploadInv
  <2>5. \A i \in sent' : assets'[i] = version
    BY <1>t, <2>1, <2>2, <2>3, <2>4 DEF UploadInv
  <2>6. NamedInv'
    BY <1>t, <2>3, <2>4 DEF NamedInv
  <2> QED
    BY <2>1, <2>4, <2>5, <2>6 DEF UploadInv
<1> QED
  BY <1>1, <1>2, <1>3, <1>4, <1>5 DEF Uploader

-----------------------------------------------------------------------------
(* The download.                                                           *)

LEMMA DownloaderTypes ==
  ASSUME IInv, Downloader
  PROVE  TypeOK'
<1>t. TypeOK /\ MaxCalls \in Nat /\ MaxFailures \in Nat
  BY ReleaseAssumption DEF IInv
<1>n. DOMAIN NoPieces = {} /\ 0 \in Names /\ Parts \subseteq Names /\ DOMAIN Truncated = {0}
      /\ Truncated[0] = Partial
  BY ReleaseAssumption DEF NoPieces, Names, Parts, Truncated
<1>1. CASE Download
  <2>1. calls' \in [{"up", "down"} -> 0 .. MaxCalls]
    BY <1>t, <1>1 DEF TypeOK, Download, Call
  <2>2. down' \in {"list", "nonzero"} /\ undisturbed' \in BOOLEAN
    BY <1>1 DEF Download
  <2> QED
    BY <1>t, <1>n, <1>1, <2>1, <2>2 DEF TypeOK, Download, uploader
<1>2. CASE List
  BY <1>t, <1>2 DEF TypeOK, List, Options, Unchanged, uploader
<1>3. CASE GetWhole
  <2>1. \/ UNCHANGED output
        \/ assets[0] # None /\ output' = [i \in {0} |-> assets[0]]
    BY <1>3 DEF GetWhole
  <2>2. DOMAIN output' \subseteq Names /\ \A i \in DOMAIN output' : output'[i] \in Contents
    BY <1>t, <1>n, <2>1 DEF TypeOK, Contents
  <2>3. down' \in {"zero", "nonzero"}
    BY <1>3 DEF GetWhole
  <2> QED
    BY <1>t, <1>3, <2>2, <2>3 DEF TypeOK, GetWhole, Options, Unchanged, uploader
<1>4. CASE ListParts
  <2>1. UNCHANGED pending \/ pending' = [i \in Listed \ {0} |-> assets[i]]
    BY <1>4 DEF ListParts
  <2>2. DOMAIN pending' \subseteq Parts /\ \A i \in DOMAIN pending' : pending'[i] \in Versions
    BY <1>t, <2>1, ReleaseAssumption DEF TypeOK, Listed, Names, Parts
  <2>3. down' \in {"gh", "nonzero"}
    BY <1>4 DEF ListParts
  <2> QED
    BY <1>t, <1>4, <2>2, <2>3 DEF TypeOK, ListParts, Options, Unchanged, uploader
<1>5. CASE GetPart
  <2>1. PICK i \in DOMAIN pending :
          \/ down' = "nonzero" /\ pending' = NoPieces /\ UNCHANGED parts
          \/ /\ parts' = [parts EXCEPT ![i] = pending[i]]
             /\ pending' = [j \in DOMAIN pending \ {i} |-> pending[j]]
             /\ down' \in {"cat", "gh"}
    BY <1>5 DEF GetPart
  <2>2. DOMAIN pending' \subseteq Parts /\ \A j \in DOMAIN pending' : pending'[j] \in Versions
    BY <1>t, <1>n, <2>1 DEF TypeOK
  <2>3. parts' \in [Parts -> Contents \cup {None}]
    BY <1>t, <2>1 DEF TypeOK, Contents
  <2> QED
    BY <1>t, <1>5, <2>1, <2>2, <2>3 DEF TypeOK, GetPart, Options, Unchanged, uploader
<1>6. CASE Concatenate
  <2>1. output' = [i \in {j \in Parts : parts[j] # None} |-> parts[i]]
        /\ down' \in {"zero", "remove"}
    BY <1>6 DEF Concatenate
  <2>2. DOMAIN output' \subseteq Names /\ \A i \in DOMAIN output' : output'[i] \in Contents
    BY <1>t, <1>n, <2>1 DEF TypeOK
  <2> QED
    BY <1>t, <1>6, <2>1, <2>2 DEF TypeOK, Concatenate, Options, Unchanged, uploader
<1>7. CASE Remove
  BY <1>t, <1>7 DEF TypeOK, Remove, Options, Unchanged, uploader
<1>8. CASE DownloadFails
  <2>1. /\ down' = "nonzero" /\ pending' = NoPieces /\ output' \in {output, Truncated}
        /\ UNCHANGED parts \/ \E i \in DOMAIN pending : parts' = [parts EXCEPT ![i] = Partial]
        /\ failures' \in 0 .. MaxFailures
    <3>1. failures' \in 0 .. MaxFailures
      BY <1>t, <1>8 DEF TypeOK, DownloadFails, Failure
    <3> QED
      BY <1>8, <3>1 DEF DownloadFails
  <2>2. DOMAIN output' \subseteq Names /\ \A i \in DOMAIN output' : output'[i] \in Contents
    BY <1>t, <1>n, <2>1 DEF TypeOK, Contents
  <2>3. parts' \in [Parts -> Contents \cup {None}]
    BY <1>t, <2>1 DEF TypeOK, Contents
  <2> QED
    BY <1>t, <1>n, <1>8, <2>1, <2>2, <2>3 DEF TypeOK, DownloadFails, Options, Unchanged, uploader
<1> QED
  BY <1>1, <1>2, <1>3, <1>4, <1>5, <1>6, <1>7, <1>8 DEF Downloader

(* The release a download finds has one version, which has parts if it has *)
(* a first one: what gh has brought is the whole of it.                    *)
LEMMA PartsAreWhole ==
  ASSUME IInv, NEW v \in Versions, Holds(v), assets[1] # None,
         \A i \in Parts : parts[i] = assets[i]
  PROVE  [i \in {j \in Parts : parts[j] # None} |-> parts[i]] = Whole(v)
<1>1. 1 \in Names /\ Parts = Names \ {0} /\ v # None
  BY ReleaseAssumption, NamesAssumption DEF Names, Parts
<1>2. \A i \in Names : assets[i] = IF i \in Pieces(v) THEN v ELSE None
  BY DEF Holds
<1>3. 1 \in Pieces(v) /\ assets[1] = v
  BY <1>1, <1>2
<1>4. Pieces(v) \subseteq Parts
  BY <1>1, <1>3, PiecesAreNumbers DEF IInv, NamedInv
<1>5. {j \in Parts : parts[j] # None} = Pieces(v)
  BY <1>1, <1>2, <1>4
<1> QED
  BY <1>1, <1>2, <1>4, <1>5 DEF Whole

(* The steps of the download, as far as nobody disturbs it.                *)
LEMMA PartsStep == IInv /\ [Next]_vars => PartsInv' /\ OutputInv'
<1> SUFFICES ASSUME IInv, [Next]_vars PROVE PartsInv' /\ OutputInv'
  OBVIOUS
<1>t. TypeOK /\ PartsInv /\ OutputInv
  BY DEF IInv
<1>n. 0 \in Names /\ 1 \in Names /\ Parts = Names \ {0}
  BY ReleaseAssumption DEF Names, Parts
<1>1. CASE Uploader \/ UNCHANGED vars
  <2>1. UNCHANGED downloader
    BY <1>1, UploaderKeeps DEF vars
  <2>2. undisturbed' => undisturbed /\ UNCHANGED assets
    BY <1>1 DEF Uploader, CreateRelease, Upload, SplitFile, UploadAsset, Put, Uploaded,
       UploadFails, UploadKilled, UploadEnds, vars, uploader
  <2> QED
    BY <1>t, <2>1, <2>2 DEF PartsInv, OutputInv, downloader, Holds
<1>2. CASE Download
  <2>1. /\ down' \in {"list", "nonzero"} /\ UNCHANGED <<assets, parts, output>>
        /\ (down' = "list" => output = NoPieces \/ clobber')
        /\ (undisturbed' <=> \A i \in Parts : parts[i] = None)
    BY <1>2 DEF Download, uploader
  <2> QED
    BY <2>1 DEF PartsInv, OutputInv
<1>3. CASE List
  <2>1. /\ down = "list" /\ UNCHANGED <<assets, parts, output, clobber, undisturbed>>
        /\ \/ 0 \in Listed /\ down' = "getWhole"
           \/ 1 \in Listed /\ down' = "getParts"
           \/ down' = "notFound"
    BY <1>3 DEF List, MayBeFound, MayBeMissed, Unchanged, Options, uploader
  <2> QED
    BY <1>t, <2>1 DEF PartsInv, OutputInv, Listed
<1>4. CASE GetWhole
  <2>1. /\ down = "getWhole" /\ UNCHANGED <<assets, parts, clobber, undisturbed>>
        /\ \/ down' = "nonzero"
           \/ down' = "zero" /\ output' = [i \in {0} |-> assets[0]]
    BY <1>4 DEF GetWhole, Unchanged, Options, uploader
  <2>2. ASSUME NEW v \in Versions, undisturbed, Holds(v) PROVE Whole(v) = [i \in {0} |-> assets[0]]
    <3>1. \A i \in Names : assets[i] = IF i \in Pieces(v) THEN v ELSE None
      BY <2>2 DEF Holds
    <3>2. 0 \in Pieces(v) /\ assets[0] = v
      BY <1>t, <1>n, <2>1, <2>2, <3>1 DEF PartsInv
    <3>3. Pieces(v) = {0}
      BY <3>2, PiecesAreNumbers DEF Pieces
    <3> QED
      BY <3>2, <3>3 DEF Whole
  <2>3. \A v \in Versions : Holds(v)' <=> Holds(v)
    BY <2>1 DEF Holds
  <2> QED
    BY <2>1, <2>2, <2>3 DEF PartsInv, OutputInv
<1>5. CASE ListParts
  <2>1. /\ down = "getParts" /\ UNCHANGED <<assets, parts, output, clobber, undisturbed>>
        /\ \/ down' = "nonzero"
           \/ down' = "gh" /\ pending' = [i \in Listed \ {0} |-> assets[i]]
    BY <1>5 DEF ListParts, Unchanged, Options, uploader
  <2>2. down' = "gh" => \A i \in Parts :
          IF i \in DOMAIN pending' THEN pending'[i] = assets[i] ELSE assets[i] = None
    BY <1>n, <2>1 DEF Listed
  <2> QED
    BY <1>t, <2>1, <2>2 DEF PartsInv, OutputInv
<1>6. CASE GetPart
  <2>1. down = "gh" /\ UNCHANGED <<assets, output, clobber, undisturbed>>
    BY <1>6 DEF GetPart, Unchanged, Options, uploader
  <2>2. PICK i \in DOMAIN pending :
          \/ down' = "nonzero"
          \/ /\ parts' = [parts EXCEPT ![i] = pending[i]]
             /\ pending' = [j \in DOMAIN pending \ {i} |-> pending[j]]
             /\ \/ DOMAIN pending = {i} /\ down' = "cat"
                \/ down' = "gh"
    BY <1>6 DEF GetPart
  <2>3. i \in Parts
    BY <1>t DEF TypeOK
  <2>4. CASE down' = "nonzero"
    BY <2>4 DEF PartsInv, OutputInv
  <2>5. CASE /\ parts' = [parts EXCEPT ![i] = pending[i]]
             /\ pending' = [j \in DOMAIN pending \ {i} |-> pending[j]]
             /\ \/ DOMAIN pending = {i} /\ down' = "cat"
                \/ down' = "gh"
    <3>1. \A j \in Parts : parts'[j] = IF j = i THEN pending[i] ELSE parts[j]
      BY <1>t, <2>5 DEF TypeOK
    <3>2. DOMAIN pending' = DOMAIN pending \ {i}
          /\ \A j \in DOMAIN pending \ {i} : pending'[j] = pending[j]
      BY <2>5
    <3>3. undisturbed => \A j \in Parts :
            IF j \in DOMAIN pending THEN pending[j] = assets[j] ELSE parts[j] = assets[j]
      BY <1>t, <2>1 DEF PartsInv
    <3>4. undisturbed => assets[1] # None
      BY <1>t, <2>1 DEF PartsInv
    <3>5. OutputInv'
      BY <1>t, <2>1, <2>5 DEF OutputInv
    <3> QED
      BY <2>1, <2>3, <2>5, <3>1, <3>2, <3>3, <3>4, <3>5 DEF PartsInv
  <2> QED
    BY <2>2, <2>4, <2>5
<1>7. CASE Concatenate
  <2>1. /\ down = "cat" /\ down' \in {"zero", "remove"} /\ UNCHANGED <<assets, undisturbed>>
        /\ output' = [i \in {j \in Parts : parts[j] # None} |-> parts[i]]
    BY <1>7 DEF Concatenate, Unchanged, uploader
  <2>2. undisturbed => \A v \in Versions : Holds(v) => output' = Whole(v)
    BY <1>t, <2>1, PartsAreWhole DEF PartsInv
  <2>3. \A v \in Versions : Holds(v)' <=> Holds(v)
    BY <2>1 DEF Holds
  <2> QED
    BY <2>1, <2>2, <2>3 DEF PartsInv, OutputInv
<1>8. CASE Remove
  <2>1. down = "remove" /\ down' = "zero" /\ UNCHANGED <<assets, undisturbed, output>>
    BY <1>8 DEF Remove, Unchanged, uploader
  <2> QED
    BY <1>t, <2>1 DEF PartsInv, OutputInv, Holds
<1>9. CASE DownloadFails
  BY <1>9 DEF DownloadFails, PartsInv, OutputInv
<1> QED
  BY <1>1, <1>2, <1>3, <1>4, <1>5, <1>6, <1>7, <1>8, <1>9 DEF Next, Downloader

LEMMA Inductive == Spec => []IInv
<1>1. IInv /\ [Next]_vars => IInv'
  <2> SUFFICES ASSUME IInv, [Next]_vars PROVE IInv'
    OBVIOUS
  <2>1. CASE Uploader
    BY <2>1, UploaderTypes, UploaderStep, PartsStep DEF IInv
  <2>2. CASE Downloader \/ UNCHANGED vars
    <3>1. UNCHANGED uploader
      BY <2>2, DownloaderKeeps DEF vars
    <3>2. TypeOK'
      BY <2>2, DownloaderTypes DEF IInv, TypeOK, vars, uploader, downloader
    <3>3. NextName' = NextName
      BY <3>1 DEF uploader, NextName
    <3>4. UploadInv' /\ NamedInv'
      BY <3>1, <3>3 DEF IInv, UploadInv, NamedInv, uploader
    <3> QED
      BY <3>2, <3>4, PartsStep DEF IInv
  <2> QED
    BY <2>1, <2>2 DEF Next
<1> QED
  BY <1>1, InvInit, PTL DEF Spec

(* The model's types; and a download that nobody disturbs, of a release    *)
(* that has one version, is the whole of that version when it exits with   *)
(* 0, whatever failed before: download_asset of release_asset.sh, for any  *)
(* number of parts.                                                        *)
THEOREM DownloadsHold == Spec => []DownloadInv
<1>1. IInv => DownloadInv
  BY DEF IInv, DownloadInv, DownloadIsWhole, PartsInv
<1> QED
  BY <1>1, Inductive, PTL

(* Exit code 0 of upload_asset: the release has every piece of the file.   *)
THEOREM UploadsComplete == Spec => []UploadIsComplete
<1>1. IInv => UploadIsComplete
  BY DEF IInv, UploadIsComplete, UploadInv
<1> QED
  BY <1>1, Inductive, PTL

(* --clobber: an upload without it changes no asset, a download without it *)
(* no file, in any step of either.                                         *)
THEOREM NoneReplaced == Spec => NothingReplaced
<1>1. IInv /\ [Next]_vars =>
        [/\ ~replace => \A i \in Names : assets[i] # None => assets'[i] = assets[i]
         /\ ~clobber' /\ output # NoPieces => output' = output]_vars
  <2> SUFFICES ASSUME IInv, Next
               PROVE  /\ ~replace => \A i \in Names : assets[i] # None => assets'[i] = assets[i]
                      /\ ~clobber' /\ output # NoPieces => output' = output
    OBVIOUS
  <2>t. TypeOK /\ UploadInv /\ OutputInv
    BY DEF IInv
  <2>1. ~replace => \A i \in Names : assets[i] # None => assets'[i] = assets[i]
    <3>1. CASE UNCHANGED assets
      BY <3>1
    <3>2. CASE UploadAsset
      BY <3>2 DEF UploadAsset, UploadEnds
    <3>3. CASE Put
      BY <2>t, <3>3 DEF Put, UploadInv, TypeOK
    <3> QED
      BY <3>1, <3>2, <3>3, DownloaderKeeps DEF Next, Uploader, uploader, CreateRelease, Upload,
         SplitFile, Uploaded, UploadFails, UploadKilled, UploadEnds
  <2>2. ~clobber' /\ output # NoPieces => output' = output
    <3>1. CASE UNCHANGED output
      BY <3>1
    <3>2. CASE GetWhole
      BY <3>2 DEF GetWhole, Options
    <3>3. CASE Concatenate \/ DownloadFails
      BY <2>t, <3>3 DEF Concatenate, DownloadFails, Options, OutputInv
    <3> QED
      BY <3>1, <3>2, <3>3, UploaderKeeps DEF Next, Downloader, downloader, Download, List, ListParts,
         GetPart, Remove
  <2> QED
    BY <2>1, <2>2
<1> QED
  BY <1>1, Inductive, PTL DEF Spec, NothingReplaced

-----------------------------------------------------------------------------
(* The dataset.                                                            *)

Alone(d) == \A e \in Downloaders \ {d} : hubCalls[e] = 0

(* What a download has in its cache was in the repository during its call, *)
(* and nobody but the downloaders that have been called touches the        *)
(* destination.                                                            *)
DuringInv ==
  /\ \A c \in Callers : at[c] # "idle" => hubCalls[c] > 0
  /\ \A d \in Downloaders :
       /\ at[d] \notin HubEnded /\ repo # "none" => repo \in during[d]
       /\ at[d] \in {"open", "copy"} => hubVersion[d] \in during[d]
       /\ at[d] = "copy" /\ Alone(d) => destination = "partial"

(* The branch never loses its archive again; a download that finds its     *)
(* destination has ended at once.                                          *)
KeptInv ==
  /\ \A u \in Uploaders : at[u] \in {"list", "upload"} /\ existed[u] => repo # "none"
  /\ \A d \in Downloaders : existed[d] /\ ~hubClobber[d] => at[d] \in HubEnded

HubInv ==
  HubTypeOK /\ DuringInv /\ ZeroIsCurrent /\ KeptInv /\ ExistingIsKept

LEMMA DatasetInit == HubInit => HubInv
BY HubAssumption DEF HubInit, HubTypeOK, DuringInv, ZeroIsCurrent, KeptInv,
   ExistingIsKept, HubInv, HubEnded, Callers

LEMMA HubTypeStep ==
  ASSUME HubInv, [HubNext]_hubVars
  PROVE  HubTypeOK'
<1>t. HubTypeOK /\ MaxHubCalls \in Nat /\ MaxHubFailures \in Nat
  BY HubAssumption DEF HubInv
<1>c. Uploaders \subseteq Callers /\ Downloaders \subseteq Callers
      /\ Uploaders \cap Downloaders = {}
  BY HubAssumption DEF Callers
<1> USE DEF HubTypeOK, Goto, HubEnded
<1>1. ASSUME NEW u \in Uploaders, HubUpload(u) PROVE HubTypeOK'
  <2>1. hubCalls' \in [Callers -> 0 .. MaxHubCalls]
    BY <1>t, <1>c, <1>1 DEF HubUpload, HubCall
  <2>2. hubClobber' \in [Callers -> BOOLEAN] /\ existed' \in [Callers -> BOOLEAN]
    BY <1>t, <1>c, <1>1 DEF HubUpload, HubCall
  <2>3. hubVersion' \in [Callers -> HubVersions]
    BY <1>t, <1>c, <1>1 DEF HubUpload
  <2> QED
    BY <1>t, <1>c, <1>1, <2>1, <2>2, <2>3 DEF HubUpload
<1>2. ASSUME NEW u \in Uploaders, ListFiles(u) PROVE HubTypeOK'
  BY <1>t, <1>c, <1>2 DEF ListFiles
<1>3. ASSUME NEW u \in Uploaders, UploadFile(u) PROVE HubTypeOK'
  <2>1. hubVersion[u] \in HubVersions
    BY <1>t, <1>c
  <2>2. during' \in [Downloaders -> SUBSET HubVersions]
    BY <1>t, <1>3, <2>1 DEF UploadFile
  <2> QED
    BY <1>t, <1>c, <1>3, <2>1, <2>2 DEF UploadFile
<1>4. ASSUME NEW d \in Downloaders, HubDownload(d) PROVE HubTypeOK'
  <2>1. hubCalls' \in [Callers -> 0 .. MaxHubCalls]
    BY <1>t, <1>c, <1>4 DEF HubDownload, HubCall
  <2>2. hubClobber' \in [Callers -> BOOLEAN] /\ existed' \in [Callers -> BOOLEAN]
    BY <1>t, <1>c, <1>4 DEF HubDownload, HubCall
  <2>3. during' \in [Downloaders -> SUBSET HubVersions]
    BY <1>t, <1>4 DEF HubDownload, Present
  <2> QED
    BY <1>t, <1>c, <1>4, <2>1, <2>2, <2>3 DEF HubDownload
<1>5. ASSUME NEW d \in Downloaders, Fetch(d) PROVE HubTypeOK'
  BY <1>t, <1>c, <1>5 DEF Fetch
<1>6. ASSUME NEW d \in Downloaders, Open(d) PROVE HubTypeOK'
  BY <1>t, <1>c, <1>6 DEF Open
<1>7. ASSUME NEW d \in Downloaders, Copied(d) PROVE HubTypeOK'
  BY <1>t, <1>c, <1>7 DEF Copied
<1>8. ASSUME NEW c \in Callers, Fails(c) PROVE HubTypeOK'
  BY <1>t, <1>c, <1>8 DEF Fails
<1>9. CASE UNCHANGED hubVars
  BY <1>t, <1>9 DEF hubVars
<1> QED
  BY <1>1, <1>2, <1>3, <1>4, <1>5, <1>6, <1>7, <1>8, <1>9 DEF HubNext

(* Every step of the dataset keeps DuringInv and ZeroIsCurrent.            *)
LEMMA HubDuringStep ==
  ASSUME HubInv, [HubNext]_hubVars
  PROVE  (DuringInv /\ ZeroIsCurrent)'
<1>t. /\ HubTypeOK /\ DuringInv /\ ZeroIsCurrent
      /\ {"none", "partial"} \cap HubVersions = {}
  BY HubAssumption DEF HubInv
<1>d. /\ DOMAIN at = Callers /\ DOMAIN hubCalls = Callers
      /\ DOMAIN hubVersion = Callers /\ DOMAIN during = Downloaders
      /\ \A c \in Callers : hubCalls[c] \in Nat /\ hubVersion[c] \in HubVersions
      /\ \A u \in Uploaders : at[u] \notin {"fetch", "open", "copy"}
      /\ \A d \in Downloaders : at[d] \notin {"list", "upload"}
  BY <1>t DEF HubTypeOK
<1>c. Uploaders \subseteq Callers /\ Downloaders \subseteq Callers
      /\ Uploaders \cap Downloaders = {}
  BY HubAssumption DEF Callers
<1> USE DEF DuringInv, ZeroIsCurrent, Alone, Goto, HubEnded
<1>1. ASSUME NEW u \in Uploaders, HubUpload(u) PROVE (DuringInv /\ ZeroIsCurrent)'
  BY <1>t, <1>d, <1>c, <1>1 DEF HubUpload, HubCall
<1>2. ASSUME NEW u \in Uploaders, ListFiles(u) PROVE (DuringInv /\ ZeroIsCurrent)'
  BY <1>t, <1>d, <1>c, <1>2 DEF ListFiles
<1>3. ASSUME NEW u \in Uploaders, UploadFile(u) PROVE (DuringInv /\ ZeroIsCurrent)'
  BY <1>t, <1>d, <1>c, <1>3 DEF UploadFile
<1>4. ASSUME NEW d \in Downloaders, HubDownload(d) PROVE (DuringInv /\ ZeroIsCurrent)'
  BY <1>t, <1>d, <1>c, <1>4 DEF HubDownload, HubCall, Present
<1>5. ASSUME NEW d \in Downloaders, Fetch(d) PROVE (DuringInv /\ ZeroIsCurrent)'
  BY <1>t, <1>d, <1>c, <1>5 DEF Fetch
<1>6. ASSUME NEW d \in Downloaders, Open(d) PROVE (DuringInv /\ ZeroIsCurrent)'
  BY <1>t, <1>d, <1>c, <1>6 DEF Open
<1>7. ASSUME NEW d \in Downloaders, Copied(d) PROVE (DuringInv /\ ZeroIsCurrent)'
  BY <1>t, <1>d, <1>c, <1>7 DEF Copied, Overlapped
<1>8. ASSUME NEW c \in Callers, Fails(c) PROVE (DuringInv /\ ZeroIsCurrent)'
  BY <1>t, <1>d, <1>c, <1>8 DEF Fails
<1>9. CASE UNCHANGED hubVars
  BY <1>t, <1>9 DEF hubVars, Callers
<1> QED
  BY <1>1, <1>2, <1>3, <1>4, <1>5, <1>6, <1>7, <1>8, <1>9 DEF HubNext

(* Every step of the dataset keeps KeptInv and ExistingIsKept.             *)
LEMMA HubKeptStep ==
  ASSUME HubInv, [HubNext]_hubVars
  PROVE  (KeptInv /\ ExistingIsKept)'
<1>t. /\ HubTypeOK /\ KeptInv /\ ExistingIsKept
      /\ {"none", "partial"} \cap HubVersions = {}
  BY HubAssumption DEF HubInv
<1>d. /\ DOMAIN at = Callers /\ DOMAIN hubClobber = Callers
      /\ DOMAIN existed = Callers
      /\ \A c \in Callers : hubVersion[c] # "none"
      /\ \A u \in Uploaders : at[u] \notin {"fetch", "open", "copy"}
      /\ \A d \in Downloaders : at[d] \notin {"list", "upload"}
  BY <1>t DEF HubTypeOK
<1>c. Uploaders \subseteq Callers /\ Downloaders \subseteq Callers
      /\ Uploaders \cap Downloaders = {} /\ Callers = Uploaders \cup Downloaders
  BY HubAssumption DEF Callers
<1> USE DEF KeptInv, ExistingIsKept, Goto, HubEnded
<1>1. ASSUME NEW u \in Uploaders, HubUpload(u) PROVE (KeptInv /\ ExistingIsKept)'
  BY <1>t, <1>d, <1>c, <1>1 DEF HubUpload, HubCall
<1>2. ASSUME NEW u \in Uploaders, ListFiles(u) PROVE (KeptInv /\ ExistingIsKept)'
  BY <1>t, <1>d, <1>c, <1>2 DEF ListFiles
<1>3. ASSUME NEW u \in Uploaders, UploadFile(u) PROVE (KeptInv /\ ExistingIsKept)'
  BY <1>t, <1>d, <1>c, <1>3 DEF UploadFile
<1>4. ASSUME NEW d \in Downloaders, HubDownload(d) PROVE (KeptInv /\ ExistingIsKept)'
  BY <1>t, <1>d, <1>c, <1>4 DEF HubDownload, HubCall
<1>5. ASSUME NEW d \in Downloaders, Fetch(d) PROVE (KeptInv /\ ExistingIsKept)'
  BY <1>t, <1>d, <1>c, <1>5 DEF Fetch
<1>6. ASSUME NEW d \in Downloaders, Open(d) PROVE (KeptInv /\ ExistingIsKept)'
  BY <1>t, <1>d, <1>c, <1>6 DEF Open
<1>7. ASSUME NEW d \in Downloaders, Copied(d) PROVE (KeptInv /\ ExistingIsKept)'
  BY <1>t, <1>d, <1>c, <1>7 DEF Copied
<1>8. ASSUME NEW c \in Callers, Fails(c) PROVE (KeptInv /\ ExistingIsKept)'
  BY <1>t, <1>d, <1>c, <1>8 DEF Fails
<1>9. CASE UNCHANGED hubVars
  BY <1>t, <1>9 DEF hubVars, Callers
<1> QED
  BY <1>1, <1>2, <1>3, <1>4, <1>5, <1>6, <1>7, <1>8, <1>9 DEF HubNext

LEMMA HubInductive == HubSpec => []HubInv
<1>1. HubInv /\ [HubNext]_hubVars => HubInv'
  BY HubTypeStep, HubDuringStep, HubKeptStep DEF HubInv
<1> QED
  BY DatasetInit, <1>1, PTL DEF HubSpec

(* hf_trace_asset.sh download: exit code 0 with the destination to itself  *)
(* is a whole archive, and one that was on the branch during this call:    *)
(* neither one of an earlier call, nor half of one.                        *)
THEOREM DatasetHolds == HubSpec => []DatasetInv
<1>1. HubInv => DatasetInv
  BY DEF HubInv, DatasetInv
<1> QED
  BY <1>1, HubInductive, PTL

(* hf_trace_asset.sh: without --clobber, a call that found its destination *)
(* there when it began writes nothing to it.                               *)
THEOREM ExistingKept == HubSpec => []ExistingIsKept
<1>1. HubInv => ExistingIsKept
  BY DEF HubInv
<1> QED
  BY <1>1, HubInductive, PTL

================================================================================
