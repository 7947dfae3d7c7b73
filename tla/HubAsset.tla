------------------------------ MODULE HubAsset ------------------------------
(***************************************************************************)
(* One trace archive in a Hugging Face Dataset:                            *)
(* tools/artifacts/hf_trace_asset.sh, run again and again by some          *)
(* uploaders, and by some downloaders that have the same output directory. *)
(*                                                                         *)
(* A commit to the dataset is atomic, and so is the cache of the client:   *)
(* the copy from the cache to the output directory is not.  The names that *)
(* ReleaseAsset has as well begin with hub here.                           *)
(***************************************************************************)
EXTENDS Naturals

CONSTANTS
  Uploaders, Downloaders,
  HubVersions,     \* the contents of the archive over time
  MaxHubCalls,     \* bound: calls of each uploader and downloader
  MaxHubFailures   \* bound: failed requests and copies, kills

ASSUME HubAssumption ==
  /\ Uploaders \cap Downloaders = {}
  /\ {"none", "partial"} \cap HubVersions = {}
  /\ MaxHubCalls \in Nat /\ MaxHubFailures \in Nat

Callers == Uploaders \cup Downloaders

VARIABLES
  repo,         \* "none" or the version on the branch
  at,           \* [Callers -> where its call is]
  hubClobber,   \* [Callers -> --clobber]
  existed,      \* [Callers -> (history) the destination was there at the call]
  hubVersion,   \* [Callers -> what it uploads, or its cached_path]
  during,       \* [Downloaders -> (history) versions of the repo in its call]
  destination,  \* "none", "partial" or a version
  hubCalls, hubFailures  \* (bounds)

hubVars ==
  <<repo, at, hubClobber, existed, hubVersion, during, destination, hubCalls, hubFailures>>

HubEnded == {"idle", "zero", "nonzero"}

HubTypeOK ==
  /\ repo \in HubVersions \cup {"none"}
  /\ at \in [Callers -> HubEnded \cup {"list", "upload", "fetch", "open", "copy"}]
  /\ \A d \in Downloaders : at[d] \notin {"list", "upload"}
  /\ \A u \in Uploaders : at[u] \notin {"fetch", "open", "copy"}
  /\ hubClobber \in [Callers -> BOOLEAN] /\ existed \in [Callers -> BOOLEAN]
  /\ hubVersion \in [Callers -> HubVersions]
  /\ during \in [Downloaders -> SUBSET HubVersions]
  /\ destination \in HubVersions \cup {"none", "partial"}
  /\ hubCalls \in [Callers -> 0 .. MaxHubCalls] /\ hubFailures \in 0 .. MaxHubFailures

HubInit ==
  /\ repo = "none" /\ destination = "none"
  /\ at = [c \in Callers |-> "idle"]
  /\ hubClobber = [c \in Callers |-> FALSE] /\ existed = [c \in Callers |-> FALSE]
  /\ hubVersion \in [Callers -> HubVersions]
  /\ during = [d \in Downloaders |-> {}]
  /\ hubCalls = [c \in Callers |-> 0] /\ hubFailures = 0

Goto(c, place) == at' = [at EXCEPT ![c] = place]
Present(v) == {v} \ {"none"}

HubCall(c, there) ==
  /\ at[c] \in HubEnded /\ hubCalls[c] < MaxHubCalls
  /\ hubCalls' = [hubCalls EXCEPT ![c] = @ + 1]
  /\ \E b \in BOOLEAN : hubClobber' = [hubClobber EXCEPT ![c] = b]
  /\ existed' = [existed EXCEPT ![c] = there]

-----------------------------------------------------------------------------
(* upload: the files are listed, and then the file is committed.           *)

HubUpload(u) ==
  /\ HubCall(u, repo # "none") /\ Goto(u, "list")
  /\ \E v \in HubVersions : hubVersion' = [hubVersion EXCEPT ![u] = v]
  /\ UNCHANGED <<repo, during, destination, hubFailures>>

(* Mutant: the list is not looked at.                                      *)
ListFiles_Ignored(u) ==
  /\ at[u] = "list" /\ Goto(u, "upload")
  /\ UNCHANGED <<repo, hubClobber, existed, hubVersion, during, destination, hubCalls, hubFailures>>

ListFiles(u) ==
  /\ at[u] = "list"
  /\ Goto(u, IF repo # "none" /\ ~hubClobber[u] THEN "nonzero" ELSE "upload")
  /\ UNCHANGED <<repo, hubClobber, existed, hubVersion, during, destination, hubCalls, hubFailures>>

UploadFile(u) ==
  /\ at[u] = "upload" /\ Goto(u, "zero")
  /\ repo' = hubVersion[u]
  /\ during' = [d \in Downloaders |->
       IF at[d] \in HubEnded THEN during[d] ELSE during[d] \cup {hubVersion[u]}]
  /\ UNCHANGED <<hubClobber, existed, hubVersion, destination, hubCalls, hubFailures>>

-----------------------------------------------------------------------------
(* download: into the cache, and from there to the destination.            *)

HubDownload(d) ==
  /\ HubCall(d, destination # "none")
  /\ Goto(d, IF destination # "none" /\ ~hubClobber'[d] THEN "nonzero" ELSE "fetch")
  /\ during' = [during EXCEPT ![d] = Present(repo)]
  /\ UNCHANGED <<repo, hubVersion, destination, hubFailures>>

(* Mutant: an archive of an earlier call is taken from the cache.          *)
Fetch_Cached(d) ==
  /\ at[d] = "fetch" /\ repo # "none" /\ Goto(d, "open")
  /\ hubVersion' = [hubVersion EXCEPT ![d] = IF hubCalls[d] > 1 THEN @ ELSE repo]
  /\ UNCHANGED <<repo, hubClobber, existed, during, destination, hubCalls, hubFailures>>

(* hf_hub_download asks the Hub for the commit of the revision.            *)
Fetch(d) ==
  /\ at[d] = "fetch"
  /\ IF repo = "none"
       THEN Goto(d, "nonzero") /\ UNCHANGED hubVersion
       ELSE Goto(d, "open") /\ hubVersion' = [hubVersion EXCEPT ![d] = repo]
  /\ UNCHANGED <<repo, hubClobber, existed, during, destination, hubCalls, hubFailures>>

(* shutil.copyfile opens the destination for writing, then copies.         *)
Open(d) ==
  /\ at[d] = "open" /\ Goto(d, "copy")
  /\ destination' = "partial"
  /\ UNCHANGED <<repo, hubClobber, existed, hubVersion, during, hubCalls, hubFailures>>

(* Two copies at the same time may leave a mixture, or holes.              *)
Overlapped(d) ==
  destination # "partial" \/ \E e \in Downloaders \ {d} : at[e] = "copy"

Copied(d) ==
  /\ at[d] = "copy" /\ Goto(d, "zero")
  /\ \/ destination' = hubVersion[d]
     \/ Overlapped(d) /\ destination' = "partial"
  /\ UNCHANGED <<repo, hubClobber, existed, hubVersion, during, hubCalls, hubFailures>>

-----------------------------------------------------------------------------
(* A request or a copy fails, or a call is killed.                         *)
Fails(c) ==
  /\ at[c] \notin HubEnded /\ Goto(c, "nonzero")
  /\ hubFailures < MaxHubFailures /\ hubFailures' = hubFailures + 1
  /\ UNCHANGED <<repo, hubClobber, existed, hubVersion, during, destination, hubCalls>>

HubNext ==
  \/ \E u \in Uploaders : HubUpload(u) \/ ListFiles(u) \/ UploadFile(u)
  \/ \E d \in Downloaders : HubDownload(d) \/ Fetch(d) \/ Open(d) \/ Copied(d)
  \/ \E c \in Callers : Fails(c)

HubSpec == HubInit /\ [][HubNext]_hubVars

-----------------------------------------------------------------------------
(* Properties.                                                             *)

(* Exit code 0 of a download, with nobody else at the destination: the     *)
(* whole of a version that was in the repository during this very call.    *)
ZeroIsCurrent ==
  \A d \in Downloaders :
    at[d] = "zero" /\ (\A e \in Downloaders \ {d} : hubCalls[e] = 0) =>
      destination \in during[d]

DatasetInv == HubTypeOK /\ ZeroIsCurrent

(* A call without --clobber that began when its destination was there,     *)
(* whole or not, never gets as far as writing to it.                       *)
ExistingIsKept ==
  \A c \in Callers : existed[c] /\ ~hubClobber[c] => at[c] \notin {"upload", "open", "copy"}

-----------------------------------------------------------------------------
(* What a document says and the code does not do (README, section 8).      *)

(* "HF script는 기존 파일을 덮어쓰지 않습니다" (trace-assets.md:118): without    *)
(* --clobber, an archive that is in the repository is not replaced.        *)
UploadIsKept ==
  [][\A u \in Uploaders :
       at[u] = "upload" /\ at'[u] = "zero" /\ ~hubClobber[u] => repo = "none"]_hubVars

(* Usage, hf_trace_asset.sh:32: only --clobber replaces a destination file.*)
DownloadIsKept ==
  [][(\A d \in Downloaders : ~hubClobber[d]) /\ destination \in HubVersions
       => destination' = destination]_hubVars

=============================================================================
