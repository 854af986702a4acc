-------------------------- MODULE ImageDistribution --------------------------
(***************************************************************************)
(* How the orchestrator creates an instance on a node: it brings the node  *)
(* the image the instance names (remote_manager.go), has the node create   *)
(* the instance and starts it in the background (server.go).  One image,   *)
(* one node, concurrent creations, and users that replace and remove the   *)
(* image meanwhile (handler.go).  The registries are atomic here; their    *)
(* inside is ImageStore.  A version of the image stands for its hash.      *)
(***************************************************************************)
EXTENDS Naturals

CONSTANTS
    Creations,   \* requests to create an instance, each with its own name
    MaxVersions  \* bound: versions of the image that are uploaded

ASSUME DistributionAssumption == MaxVersions \in Nat

NoVersion == 0
\* What is no version from its beginning to its end: a file that was replaced
\* while it was read, or whose writing failed.
Torn == MaxVersions + 1
Copies == 0 .. MaxVersions + 1

VARIABLES
    versions,    \* uploads so far; the newest version
    local,       \* version the orchestrator's registry lists
    remote,      \* version the node's registry lists
    damaged,     \* registries whose file was left halfway under its old hash
    uploader,    \* creations whose upload the node is receiving
    step,        \* creation -> where its request is, answered in the end
    wanted,      \* creation -> version it has listed locally
    copy,        \* creation -> version in its temporary file
    start,       \* creation -> its start in the orchestrator's goroutine
    work,        \* creation -> its start in the controller's goroutine
    disk,        \* creation -> version the node starts it from
    stopping,    \* the orchestrator's server is being closed
    localSince,  \* creation -> versions local has had since it began
    pushed       \* creation -> others that have replaced its image on the node

registries == <<versions, local, remote, damaged>>
asked == <<step, wanted, copy>>
starts == <<start, work, disk>>
history == <<localSince, pushed>>
distributionVars == <<registries, uploader, asked, starts, stopping, history>>

DistributionInit ==
    /\ versions = 0 /\ local = NoVersion /\ remote = NoVersion /\ damaged = {}
    /\ uploader = {}
    /\ step = [c \in Creations |-> "none"]
    /\ wanted = [c \in Creations |-> NoVersion] /\ copy = wanted /\ disk = wanted
    /\ start = [c \in Creations |-> "none"] /\ work = start
    /\ stopping = FALSE
    /\ localSince = [c \in Creations |-> {}] /\ pushed = localSince

Advance(c, from, to) ==
    /\ step[c] = from
    /\ step' = [step EXCEPT ![c] = to]

\* What a registry's file holds.
HeldLocally == IF "orchestrator" \in damaged THEN Torn ELSE local
HeldByNode == IF "node" \in damaged THEN Torn ELSE remote

-----------------------------------------------------------------------------
(* Users *)

Copying == {c \in Creations : work[c] = "copying"}

\* Creations that have begun and whose image the node has not copied yet.
Preparing ==
    {c \in Creations : /\ step[c] \notin {"none", "failed"}
                       /\ disk[c] = NoVersion \/ c \in Copying}

\* What is overwritten while it is read is torn; what is deleted is not.
TearDownloads ==
    copy' = [c \in Creations |-> IF step[c] = "read" THEN Torn ELSE copy[c]]

Replace(v) ==
    /\ local' = v
    /\ damaged' = damaged \ {"orchestrator"}
    /\ localSince' = [c \in Creations |->
          IF c \in Preparing THEN localSince[c] \cup {v} ELSE localSince[c]]
    /\ UNCHANGED <<remote, uploader, step, wanted, starts, stopping, pushed>>

PostImage ==
    /\ versions < MaxVersions
    /\ versions' = versions + 1
    /\ Replace(versions + 1)
    /\ TearDownloads

\* The upload fails after Store has opened the old file for writing.
PostFails ==
    /\ versions < MaxVersions
    /\ damaged' = damaged \cup {"orchestrator"}
    /\ TearDownloads
    /\ UNCHANGED <<versions, local, remote, uploader, step, wanted, starts, stopping,
                   history>>

DeleteImage ==
    /\ local # NoVersion
    /\ Replace(NoVersion)
    /\ UNCHANGED <<versions, copy>>

-----------------------------------------------------------------------------
(* Create and ensureImage *)

Create(c) ==
    /\ Advance(c, "none", "list")
    /\ localSince' = [localSince EXCEPT ![c] = {local}]
    /\ UNCHANGED <<registries, uploader, wanted, copy, starts, stopping, pushed>>

ListLocal(c) ==
    /\ local # NoVersion
    /\ Advance(c, "list", "compare")
    /\ wanted' = [wanted EXCEPT ![c] = local]
    /\ UNCHANGED <<registries, uploader, copy, starts, stopping, history>>

\* Faulty variant: the node's image is recognised by its name alone.
NodeHasSomeImage(c) == remote # NoVersion

NodeHasImage(c) == remote = wanted[c]

ListNode(c) ==
    /\ ~stopping
    /\ Advance(c, "compare", IF NodeHasImage(c) THEN "create" ELSE "download")
    /\ UNCHANGED <<registries, uploader, wanted, copy, starts, stopping, history>>

\* What is downloaded is what is there now, not what was listed.
Download(c) ==
    /\ local # NoVersion
    /\ Advance(c, "download", "read")
    /\ copy' = [copy EXCEPT ![c] = HeldLocally]
    /\ UNCHANGED <<registries, uploader, wanted, starts, stopping, history>>

EndDownload(c) ==
    /\ Advance(c, "read", "push")
    /\ UNCHANGED <<registries, uploader, wanted, copy, starts, stopping, history>>

\* The node receives one upload of an image at a time.
BeginUpload(c) ==
    /\ uploader = {} /\ ~stopping
    /\ Advance(c, "push", "upload")
    /\ uploader' = {c}
    /\ UNCHANGED <<registries, wanted, copy, starts, stopping, history>>

\* The list and the temporary file end with ensureImage.
Forget(c) ==
    /\ wanted' = [wanted EXCEPT ![c] = NoVersion]
    /\ copy' = [copy EXCEPT ![c] = NoVersion]

\* The answer may be lost, which ends the request.
Uploaded(c) ==
    /\ Advance(c, "upload", "create") \/ Advance(c, "upload", "failed")
    /\ uploader' = {}
    /\ Forget(c)
    /\ UNCHANGED <<versions, local, start, work, stopping, localSince>>

\* The node lists this content already; two torn files may or may not agree.
SkipUpload(c) ==
    /\ remote = copy[c]
    /\ Uploaded(c)
    /\ UNCHANGED <<remote, damaged, disk, pushed>>

\* An instance's copy of a file that is opened for writing.
TearCopies ==
    disk' = [c \in Creations |-> IF c \in Copying THEN Torn ELSE disk[c]]

StoreUpload(c) ==
    /\ remote # copy[c] \/ copy[c] = Torn
    /\ Uploaded(c)
    /\ remote' = copy[c] /\ damaged' = damaged \ {"node"}
    /\ TearCopies
    /\ pushed' = [d \in Creations |->
          IF d # c /\ step[d] \in {"create", "created", "answered", "unanswered"}
          THEN pushed[d] \cup {c} ELSE pushed[d]]

\* Store fails, or the registry stops, after the old file was opened for
\* writing: the node lists what it listed before.
UploadFails(c) ==
    /\ remote # copy[c] \/ copy[c] = Torn
    /\ Advance(c, "upload", "failed")
    /\ uploader' = {}
    /\ Forget(c)
    /\ damaged' = damaged \cup {"node"}
    /\ TearCopies
    /\ UNCHANGED <<versions, local, remote, start, work, stopping, history>>

\* Only the database of the node changes here; the answer may be lost.
CreateOnNode(c) ==
    /\ ~stopping
    /\ Advance(c, "create", "created") \/ Advance(c, "create", "unanswered")
    /\ Forget(c)
    /\ UNCHANGED <<registries, uploader, starts, stopping, history>>

\* An error of any of the calls before anything is changed, an image that is
\* not or no longer there, a client that is gone, an upload while another is
\* received.
Fail(c) ==
    /\ step[c] \in {"list", "compare", "download", "read", "push",
                   "upload", "create"}
    /\ step' = [step EXCEPT ![c] = "failed"]
    /\ uploader' = uploader \ {c}
    /\ Forget(c)
    /\ UNCHANGED <<registries, starts, stopping, history>>

\* The request is answered, with which its context ends; the start, if one is
\* asked for, goes on without it.
Reply(c) ==
    /\ Advance(c, "created", "answered")
    /\ \E s \in {"none", "pending"} : start' = [start EXCEPT ![c] = s]
    /\ UNCHANGED <<registries, uploader, wanted, copy, work, disk, stopping, history>>

-----------------------------------------------------------------------------
(* The start in the background: the orchestrator's goroutine ... *)

\* Faulty variant: the start has the context of the request.
CancelledWithRequest(c) == stopping \/ step[c] = "answered"

\* AsyncCtx: only the end of the server cancels it.
Cancelled(c) == stopping

Starting(c, result) ==
    /\ start[c] = "pending"
    /\ start' = [start EXCEPT ![c] = result]
    /\ UNCHANGED <<registries, uploader, asked, disk, stopping, history>>

Work(c, from, to) ==
    /\ work[c] \in from
    /\ work' = [work EXCEPT ![c] = to]

\* The controller answers at once and works on in a goroutine of its own; its
\* answer may be lost.
StartOnNode(c) ==
    /\ ~stopping
    /\ Starting(c, "accepted") \/ Starting(c, "refused")
    /\ work' = [work EXCEPT ![c] = "asked"]

\* The call does not reach the controller.
StartRefused(c) == Starting(c, "refused") /\ UNCHANGED work

StartCancelled(c) == Cancelled(c) /\ Starting(c, "cancelled") /\ UNCHANGED work

\* The error is handed to Send, which drops it if its buffer is full.
ReportStart(c) ==
    /\ start[c] = "refused"
    /\ start' = [start EXCEPT ![c] = "said"]
    /\ UNCHANGED <<registries, uploader, asked, work, disk, stopping, history>>

-----------------------------------------------------------------------------
(* ... and the controller's *)

Working(c, from, to) ==
    /\ Work(c, from, to)
    /\ UNCHANGED <<registries, uploader, asked, start, stopping, history>>

\* The node copies the image to the instance's directory, unless it has done
\* so for an earlier start.
CopyImage(c) ==
    /\ disk[c] = NoVersion /\ remote # NoVersion
    /\ Working(c, {"asked"}, "copying")
    /\ disk' = [disk EXCEPT ![c] = HeldByNode]

StartInstance(c) ==
    /\ disk[c] # NoVersion
    /\ Working(c, {"asked", "copying"}, "running")
    /\ UNCHANGED disk

\* A copy that is not complete is removed.
DropCopy(c) ==
    disk' = [disk EXCEPT ![c] = IF c \in Copying THEN NoVersion ELSE @]

\* Any error, before or after the copy is complete.
StartFails(c) ==
    /\ Working(c, {"asked", "copying"}, "failed")
    /\ UNCHANGED disk \/ DropCopy(c)

\* The error is handed to PublishError, which drops it if the queue is full.
PublishFailure(c) == Working(c, {"failed"}, "said") /\ UNCHANGED disk

\* The controller ends, and its goroutines with it.
StartLost(c) ==
    /\ Working(c, {"asked", "copying", "failed"}, "lost")
    /\ UNCHANGED disk \/ DropCopy(c)

-----------------------------------------------------------------------------
\* A user asks for the start of an instance that is there: the same goroutines.
Start(c) ==
    /\ step[c] \in {"answered", "unanswered"}
    /\ start[c] \notin {"pending", "refused"}
    /\ work[c] \notin {"asked", "copying", "failed"}
    /\ start' = [start EXCEPT ![c] = "pending"]
    /\ UNCHANGED <<registries, uploader, asked, work, disk, stopping, history>>

\* Close cancels the starts and closes the connections to the node.
Close ==
    /\ ~stopping
    /\ stopping' = TRUE
    /\ UNCHANGED <<registries, uploader, asked, starts, history>>

EnsureImage(c) ==
    \/ ListLocal(c) \/ ListNode(c) \/ Download(c) \/ EndDownload(c)
    \/ BeginUpload(c) \/ SkipUpload(c) \/ StoreUpload(c) \/ UploadFails(c)

StartInBackground(c) ==
    StartOnNode(c) \/ StartRefused(c) \/ StartCancelled(c) \/ ReportStart(c)

StartAtNode(c) ==
    CopyImage(c) \/ StartInstance(c) \/ StartFails(c) \/ PublishFailure(c)

DistributionNext ==
    \/ PostImage \/ PostFails \/ DeleteImage \/ Close
    \/ \E c \in Creations :
          \/ Create(c) \/ EnsureImage(c) \/ CreateOnNode(c) \/ Fail(c) \/ Reply(c)
          \/ Start(c) \/ StartInBackground(c)
          \/ StartAtNode(c) \/ StartLost(c)

\* The goroutines run, and a call is answered or its connection ends.
DistributionFairness ==
    \A c \in Creations :
        /\ WF_distributionVars(StartInBackground(c))
        /\ WF_distributionVars(StartAtNode(c))

DistributionSpec ==
    DistributionInit /\ [][DistributionNext]_distributionVars
        /\ DistributionFairness

-----------------------------------------------------------------------------
(* Properties *)

\* Type invariant.
DistributionTypeOK ==
    /\ {versions, local} \subseteq 0 .. MaxVersions /\ remote \in Copies
    /\ damaged \subseteq {"orchestrator", "node"}
    /\ uploader \subseteq Creations
    /\ step \in [Creations -> {"none", "list", "compare", "download", "read", "push",
                               "upload", "create", "created", "answered",
                               "unanswered", "failed"}]
    /\ {wanted, copy, disk} \subseteq [Creations -> Copies]
    /\ start \in [Creations -> {"none", "pending", "accepted", "refused", "cancelled",
                                "said"}]
    /\ work \in [Creations -> {"none", "asked", "copying", "running", "failed",
                               "said", "lost"}]
    /\ stopping \in BOOLEAN
    /\ localSince \in [Creations -> SUBSET Copies]
    /\ pushed \in [Creations -> SUBSET Creations]

IsVersion(v) == v \notin {NoVersion, Torn}

\* The version an instance starts from was the orchestrator's at some time
\* since the instance was asked for, or since another creation was asked for
\* that replaced the image on the node in between: although the image is
\* looked up, compared, downloaded, uploaded and copied in separate steps,
\* uploads fail at any of them, and a node's list may describe a file that a
\* failure has damaged.  It speaks of whole versions; that a start may find
\* no whole one is the storage's SkippedExists.
BootsPushed ==
    \A c \in Creations : IsVersion(disk[c]) =>
        \E d \in pushed[c] \cup {c} : disk[c] \in localSince[d]

\* The version an instance starts from was the orchestrator's at some time
\* since the instance was asked for, as README.md:39 has it: "Orchestrator
\* pushes images to remote nodes before VM creation".  A creation that has
\* read an older version may push it over the one another has just pushed,
\* and TLC refutes it.
BootsCurrent ==
    \A c \in Creations : IsVersion(disk[c]) => disk[c] \in localSince[c]

\* A start that was promised is not given up with its request, in neither of
\* the two goroutines that carry it: it is made, or its failure is handed to
\* the broadcaster or the publisher (which drop it when their queue is full),
\* unless the orchestrator closes or the controller ends.
StartIsSettled ==
    \A c \in Creations :
        start[c] = "pending" ~>
            \/ start[c] = "said"
            \/ start[c] = "accepted" /\ work[c] \in {"running", "said", "lost"}
            \/ stopping
=============================================================================
