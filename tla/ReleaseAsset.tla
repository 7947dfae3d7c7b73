----------------------------- MODULE ReleaseAsset -----------------------------
(***************************************************************************)
(* Traces as assets of a GitHub Release: tools/artifacts/release_asset.sh, *)
(* one node uploading versions of a trace under one asset name while       *)
(* another downloads it, again and again.                                  *)
(*                                                                         *)
(* A file of 2 GiB or more is split; its parts are separate assets, and    *)
(* neither side keeps a record of how many there are.  gh can fail at each *)
(* asset and either side can be killed at each step.                       *)
(***************************************************************************)
EXTENDS Naturals

CONSTANTS
  Versions,        \* the contents uploaded over time
  Size,            \* [Versions -> bytes]
  Limit,           \* max_release_asset_bytes
  Chunk,           \* split_chunk_bytes
  MaxParts,        \* the last number of a suffix of three digits
  Others,          \* the release has assets of other names
  MaxCalls,        \* bound: calls of upload, and of download
  MaxFailures      \* bound: failures of gh or split, kills

ASSUME ReleaseAssumption ==
  /\ Size \in [Versions -> Nat]
  /\ Chunk \in Nat \ {0} /\ Limit \in Nat /\ Chunk < Limit
  /\ MaxParts \in Nat \ {0} /\ Others \in BOOLEAN
  /\ MaxCalls \in Nat /\ MaxFailures \in Nat

None == "none"
Partial == "partial"
ASSUME NamesAssumption == {None, Partial} \cap Versions = {}

(* The asset NAME is 0, the asset NAME.part-i is i.                        *)
Names == 0 .. MaxParts
Parts == 1 .. MaxParts
PartCount(v) == (Size[v] + Chunk - 1) \div Chunk
IsSplit(v) == Size[v] >= Limit
Pieces(v) == IF IsSplit(v) THEN 1 .. PartCount(v) ELSE {0}

(* A whole file is the concatenation of its pieces, in order.              *)
Whole(v) == [i \in Pieces(v) |-> v]

VARIABLES
  created,      \* the release exists
  assets,       \* [Names -> the version an asset is a piece of, or None]
  up,           \* where the upload is
  version, replace, sent,  \* what it uploads, --clobber, the assets done
  workdir,      \* its temporary directory exists
  down,         \* where the download is
  clobber, keep,           \* --clobber, --keep-parts
  pending,      \* the parts gh has still to download: [name -> version]
  output,       \* the pieces the file is made of: no piece, no file
  parts,        \* [Parts -> None, Partial or a version]: beside the output
  undisturbed,  \* (history) this download began with no part beside the output,
                \* and no upload has changed the release since
  calls, failures  \* (bounds)

uploader == <<created, assets, up, version, replace, sent, workdir>>
downloader == <<down, clobber, keep, pending, output, parts>>
vars == <<uploader, downloader, undisturbed, calls, failures>>

Contents == Versions \cup {Partial}

TypeOK ==
  /\ created \in BOOLEAN /\ replace \in BOOLEAN /\ workdir \in BOOLEAN
  /\ clobber \in BOOLEAN /\ keep \in BOOLEAN /\ undisturbed \in BOOLEAN
  /\ assets \in [Names -> Versions \cup {None}]
  /\ up \in {"idle", "split", "upload", "put", "zero", "nonzero"}
  /\ version \in Versions /\ sent \in SUBSET Names
  /\ down \in {"idle", "list", "getWhole", "getParts", "gh", "cat", "remove",
               "zero", "nonzero", "notFound"}
  /\ DOMAIN pending \subseteq Parts /\ \A i \in DOMAIN pending : pending[i] \in Versions
  /\ DOMAIN output \subseteq Names /\ \A i \in DOMAIN output : output[i] \in Contents
  /\ parts \in [Parts -> Contents \cup {None}]
  /\ calls \in [{"up", "down"} -> 0 .. MaxCalls] /\ failures \in 0 .. MaxFailures

NoPieces == [i \in {} |-> None]
Truncated == [i \in {0} |-> Partial]

Init ==
  /\ created = FALSE /\ assets = [i \in Names |-> None]
  /\ up = "idle" /\ version \in Versions /\ replace = FALSE /\ sent = {}
  /\ workdir = FALSE
  /\ down = "idle" /\ clobber = FALSE /\ keep = FALSE /\ pending = NoPieces
  /\ output = NoPieces /\ parts = [i \in Parts |-> None]
  /\ undisturbed = FALSE
  /\ calls = [x \in {"up", "down"} |-> 0] /\ failures = 0

Failure == failures < MaxFailures /\ failures' = failures + 1
Call(x) == calls[x] < MaxCalls /\ calls' = [calls EXCEPT ![x] = @ + 1]
Ended == {"idle", "zero", "nonzero", "notFound"}

-----------------------------------------------------------------------------
(* release, upload.                                                        *)

CreateRelease ==
  /\ ~created /\ created' = TRUE
  /\ UNCHANGED <<assets, up, version, replace, sent, workdir, downloader, undisturbed,
                 calls, failures>>

UploadEnds(e) ==
  /\ up' = e /\ workdir' = FALSE
  /\ UNCHANGED <<created, version, replace>>

(* gh release view fails without a release.                                *)
Upload ==
  /\ up \in Ended /\ Call("up")
  /\ version' \in Versions /\ replace' \in BOOLEAN /\ sent' = {}
  /\ up' = IF created THEN "split" ELSE "nonzero"
  /\ workdir' = created
  /\ UNCHANGED <<created, assets, downloader, undisturbed, failures>>

(* split runs out of suffixes after MaxParts; a small file is a link.      *)
SplitFile ==
  /\ up = "split"
  /\ IF IsSplit(version) /\ PartCount(version) > MaxParts
       THEN UploadEnds("nonzero")
       ELSE up' = "upload" /\ UNCHANGED <<created, version, replace, workdir>>
  /\ UNCHANGED <<assets, sent, downloader, undisturbed, calls, failures>>

(* The parts in the order of the glob.                                     *)
NextName == CHOOSE i \in Pieces(version) \ sent :
              \A j \in Pieces(version) \ sent : i <= j

(* gh release upload: an error for an asset that is there, or with         *)
(* --clobber its deletion before the upload.                               *)
UploadAsset ==
  /\ up = "upload" /\ sent # Pieces(version)
  /\ \/ /\ assets[NextName] = None
        /\ up' = "put" /\ UNCHANGED <<created, assets, version, replace, workdir, undisturbed>>
     \/ /\ assets[NextName] # None /\ replace
        /\ up' = "put" /\ assets' = [assets EXCEPT ![NextName] = None]
        /\ undisturbed' = FALSE
        /\ UNCHANGED <<created, version, replace, workdir>>
     \/ /\ assets[NextName] # None /\ ~replace
        /\ UploadEnds("nonzero") /\ UNCHANGED <<assets, undisturbed>>
  /\ UNCHANGED <<sent, downloader, calls, failures>>

Put ==
  /\ up = "put"
  /\ assets' = [assets EXCEPT ![NextName] = version]
  /\ sent' = sent \cup {NextName}
  /\ up' = "upload" /\ undisturbed' = FALSE
  /\ UNCHANGED <<created, version, replace, workdir, downloader, calls, failures>>

Uploaded ==
  /\ up = "upload" /\ sent = Pieces(version) /\ UploadEnds("zero")
  /\ UNCHANGED <<assets, sent, downloader, undisturbed, calls, failures>>

(* Mutant: the upload goes on after a part that failed.                    *)
UploadFails_GoesOn ==
  /\ up = "put" /\ Failure
  /\ up' = "upload" /\ sent' = sent \cup {NextName}
  /\ UNCHANGED <<created, assets, version, replace, workdir, downloader, undisturbed, calls>>

(* set -e, and the trap that removes the temporary directory.              *)
UploadFails ==
  /\ up \in {"split", "upload", "put"} /\ Failure /\ UploadEnds("nonzero")
  /\ UNCHANGED <<assets, sent, downloader, undisturbed, calls>>

(* SIGKILL, a reboot: the directory, with the parts, stays.                *)
UploadKilled ==
  /\ up \in {"split", "upload", "put"} /\ Failure /\ up' = "nonzero"
  /\ UNCHANGED <<created, assets, version, replace, sent, workdir, downloader,
                 undisturbed, calls>>

-----------------------------------------------------------------------------
(* download.                                                               *)

Unchanged == UNCHANGED <<uploader, calls, undisturbed>>
Options == <<clobber, keep>>

(* Mutant: whether the output exists is left to gh.                        *)
Download_NoCheck ==
  /\ down \in Ended /\ Call("down")
  /\ clobber' \in BOOLEAN /\ keep' \in BOOLEAN /\ pending' = NoPieces
  /\ down' = IF created THEN "list" ELSE "nonzero"
  /\ undisturbed' = \A i \in Parts : parts[i] = None
  /\ UNCHANGED <<uploader, output, parts, failures>>

(* An output that exists ends the call unless --clobber.                   *)
Download ==
  /\ down \in Ended /\ Call("down")
  /\ clobber' \in BOOLEAN /\ keep' \in BOOLEAN /\ pending' = NoPieces
  /\ down' = IF created /\ (output = NoPieces \/ clobber') THEN "list" ELSE "nonzero"
  /\ undisturbed' = \A i \in Parts : parts[i] = None
  /\ UNCHANGED <<uploader, output, parts, failures>>

(* The names of the assets, in any order, one to a line: NAME is found as  *)
(* the first line, as the only one, or between two others.                 *)
Listed == {i \in Names : assets[i] # None}
MayBeFound == 0 \in Listed
MayBeMissed == 0 \notin Listed \/ Listed # {0} \/ Others

List ==
  /\ down = "list"
  /\ \/ MayBeFound /\ down' = "getWhole"
     \/ MayBeMissed /\ down' = IF 1 \in Listed THEN "getParts" ELSE "notFound"
  /\ UNCHANGED <<Options, pending, output, parts, failures>> /\ Unchanged

(* gh release download of NAME; it has an error for a file that is there   *)
(* without --clobber, and for a pattern that matches no asset.             *)
GetWhole ==
  /\ down = "getWhole"
  /\ IF assets[0] = None \/ (output # NoPieces /\ ~clobber)
       THEN down' = "nonzero" /\ UNCHANGED output
       ELSE down' = "zero" /\ output' = [i \in {0} |-> assets[0]]
  /\ UNCHANGED <<Options, pending, parts, failures>> /\ Unchanged

(* gh release download of NAME.part-*: the assets it lists itself, in any  *)
(* order, and an error for a part that is there without --clobber.         *)
ListParts ==
  /\ down = "getParts"
  /\ IF Listed \subseteq {0}
       THEN down' = "nonzero" /\ UNCHANGED pending
       ELSE down' = "gh" /\ pending' = [i \in Listed \ {0} |-> assets[i]]
  /\ UNCHANGED <<Options, output, parts, failures>> /\ Unchanged

GetPart ==
  /\ down = "gh"
  /\ \E i \in DOMAIN pending :
       IF parts[i] # None /\ ~clobber
         THEN down' = "nonzero" /\ pending' = NoPieces /\ UNCHANGED parts
         ELSE /\ parts' = [parts EXCEPT ![i] = pending[i]]
              /\ pending' = [j \in DOMAIN pending \ {i} |-> pending[j]]
              /\ down' = IF DOMAIN pending = {i} THEN "cat" ELSE "gh"
  /\ UNCHANGED <<Options, output, failures>> /\ Unchanged

(* cat of every part beside the output, over the output.                   *)
Concatenate ==
  /\ down = "cat"
  /\ output' = [i \in {j \in Parts : parts[j] # None} |-> parts[i]]
  /\ down' = IF keep THEN "zero" ELSE "remove"
  /\ UNCHANGED <<Options, pending, parts, failures>> /\ Unchanged

Remove ==
  /\ down = "remove" /\ down' = "zero"
  /\ parts' = [i \in Parts |-> None]
  /\ UNCHANGED <<Options, pending, output, failures>> /\ Unchanged

(* Mutant: the exit status of gh is not looked at.                         *)
DownloadFails_Ignored ==
  /\ down = "gh" /\ Failure /\ down' = "cat"
  /\ pending' = NoPieces /\ UNCHANGED <<Options, output, parts>> /\ Unchanged

(* gh or cat fails, or the script is killed: what was being written stays. *)
DownloadFails ==
  /\ down \notin Ended /\ Failure /\ down' = "nonzero"
  /\ CASE down = "getWhole" /\ (output = NoPieces \/ clobber) ->
            output' \in {output, Truncated} /\ UNCHANGED parts
       [] down = "gh" ->
            /\ \/ UNCHANGED parts
               \/ \E i \in DOMAIN pending : parts' = [parts EXCEPT ![i] = Partial]
            /\ UNCHANGED output
       [] down = "cat" -> output' \in {output, Truncated} /\ UNCHANGED parts
       [] OTHER -> UNCHANGED <<output, parts>>
  /\ pending' = NoPieces
  /\ UNCHANGED Options /\ Unchanged

Uploader ==
  CreateRelease \/ Upload \/ SplitFile \/ UploadAsset \/ Put \/ Uploaded
    \/ UploadFails \/ UploadKilled

Downloader ==
  Download \/ List \/ GetWhole \/ ListParts \/ GetPart \/ Concatenate \/ Remove
    \/ DownloadFails

Next == Uploader \/ Downloader

Spec == Init /\ [][Next]_vars

-----------------------------------------------------------------------------
(* Properties.                                                             *)

(* The release has exactly the pieces of v.                                *)
Holds(v) == assets = [i \in Names |-> IF i \in Pieces(v) THEN v ELSE None]

(* A download that nobody disturbs, of a release that has one version, is  *)
(* the whole of that version when it exits with 0, whatever failed before. *)
DownloadIsWhole ==
  down = "zero" /\ undisturbed => \A v \in Versions : Holds(v) => output = Whole(v)

DownloadInv == TypeOK /\ DownloadIsWhole

(* Exit code 0 of an upload: every piece of the file is in the release.    *)
UploadIsComplete ==
  up = "zero" => \A i \in Pieces(version) : assets[i] = version

(* --clobber (trace-assets.md:30-31): an upload without it never changes   *)
(* an asset, a download without it never a file that is there.             *)
NothingReplaced ==
  [][/\ ~replace => \A i \in Names : assets[i] # None => assets'[i] = assets[i]
     /\ ~clobber' /\ output # NoPieces => output' = output]_vars

-----------------------------------------------------------------------------
(* What a document says and the code does not do (README, section 8).      *)

(* trace-assets.md:39-41: split parts are joined to the original file.     *)
DownloadIsOriginal ==
  down = "zero" => \E v \in Versions : output = Whole(v)

(* trace-assets.md:30-31: --clobber replaces the asset.                    *)
ReplacedIsDownloaded ==
  down = "zero" /\ undisturbed /\ up = "zero" => output = Whole(version)

(* Usage, release_asset.sh:21: download downloads NAME.                    *)
AssetIsFound == down = "notFound" /\ undisturbed => assets[0] = None

=============================================================================
