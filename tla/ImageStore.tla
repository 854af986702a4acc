------------------------------ MODULE ImageStore ------------------------------
(***************************************************************************)
(* A file registry (pkg/protos/fileregistry.go) over its local storage     *)
(* (pkg/images/storage/local.go), and the QEMU service's download of an    *)
(* instance's image (pkg/images/impl.go, pkg/protos/process.go).           *)
(*                                                                         *)
(* An image is a file named after its id and a metadata record with the    *)
(* file's hash.  Storing over an existing image truncates the same file,   *)
(* which a download may have open; removing one unlinks it, and a download *)
(* that has it open goes on.  Contents stand for their own hashes.  It     *)
(* implements ImageRegistry.                                               *)
(***************************************************************************)
EXTENDS Naturals, Sequences, FiniteSets

CONSTANTS
    Ids,         \* image ids
    Contents,    \* image contents
    Chunks,      \* length of a content
    Handlers,    \* concurrent UploadImage and RemoveImage calls
    Instances,   \* instances whose Start downloads an image
    None,        \* absent
    MaxRequests, \* bound: uploads and removals in a behaviour
    MaxFetches,  \* bound: downloads in a behaviour
    MaxFaults    \* bound: failed calls and crashes in a behaviour

VARIABLES
    meta,     \* metadata: id -> hash or None
    dir,      \* storage directory: id -> file or None
    data,     \* file -> [content, len]: the first len chunks of content
    lock,     \* who holds the backend's mutex for writing
    temp,     \* ids with a temporary upload file
    call,     \* handler -> what it does next, for which id and content
    fetch,    \* instance -> the state of its download
    image,    \* instance -> the chunks of its image file or None
    requests, fetches, faults,
    cut,      \* history: ids whose last Store or Remove did not finish
    spoiled   \* history: instances that read a cut or overwritten file

vars == <<meta, dir, data, lock, temp, call, fetch, image, requests, fetches, faults,
          cut, spoiled>>
storage == <<meta, dir, data>>
downloads == <<fetch, image, fetches>>

Files == 1 .. Cardinality(Ids) + Cardinality(Instances)
NoCall == [pc |-> "idle", id |-> None, content |-> None]
NoFetch == [pc |-> "idle", id |-> None, file |-> None, got |-> <<>>]
Whole(c) == [k \in 1 .. Chunks |-> <<c, k>>]

ASSUME ImageAssumption ==
    /\ IsFiniteSet(Ids) /\ IsFiniteSet(Instances)
    /\ None \notin Ids \cup Contents \cup Handlers \cup Files
    /\ Chunks \in Nat \ {0}
    /\ None \notin Seq(Contents \X (1 .. Chunks))
    /\ MaxRequests \in Nat /\ MaxFetches \in Nat /\ MaxFaults \in Nat

Init ==
    /\ meta = [i \in Ids |-> None]
    /\ dir = [i \in Ids |-> None]
    /\ data \in [Files -> {[content |-> None, len |-> 0]}]
    /\ lock = None
    /\ temp = {}
    /\ call = [h \in Handlers |-> NoCall]
    /\ fetch = [x \in Instances |-> NoFetch]
    /\ image = [x \in Instances |-> None]
    /\ requests = 0 /\ fetches = 0 /\ faults = 0
    /\ cut = {}
    /\ spoiled = {}

At(h, pc) == call[h].pc = pc
Goto(h, pc) == call' = [call EXCEPT ![h].pc = pc]
FetchAt(x, pc) == fetch[x].pc = pc

\* Faulty variant: readers do not take the mutex.
ReadAnyTime == TRUE

\* Readers wait for the writer that holds the mutex.
MayRead == lock = None

\* Faulty variant: the storage is not locked for writing.
WriteAnyTime(h) == lock' = h

\* A Store or a Remove takes the mutex.  Readers hold it within one step.
Acquire(h) == lock = None /\ lock' = h

-----------------------------------------------------------------------------
(* UploadImage *)

\* The first chunk creates the temporary file, exclusively: a second upload of
\* the id is refused.
Upload(h, i, c) ==
    /\ requests < MaxRequests
    /\ At(h, "idle")
    /\ i \notin temp
    /\ requests' = requests + 1
    /\ temp' = temp \cup {i}
    /\ call' = [call EXCEPT ![h] = [pc |-> "receive", id |-> i, content |-> c]]
    /\ UNCHANGED <<storage, lock, downloads, faults, cut, spoiled>>

\* The end of the stream, or its failure.
Receive(h) ==
    /\ At(h, "receive")
    /\ \E pc \in {"compare", "end"} : Goto(h, pc)
    /\ UNCHANGED <<storage, lock, temp, downloads, requests, faults, cut, spoiled>>

\* The content's hash is compared with the metadata's.
Compare(h) ==
    /\ At(h, "compare")
    /\ MayRead
    /\ Goto(h, IF meta[call[h].id] = call[h].content THEN "end" ELSE "store")
    /\ UNCHANGED <<storage, lock, temp, downloads, requests, faults, cut, spoiled>>

Unused == Files \ ({dir[i] : i \in Ids} \cup {fetch[x].file : x \in Instances})

\* Instances that are reading file f.
ReadersOf(f) == {x \in Instances : FetchAt(x, "read") /\ fetch[x].file = f}

\* Store: creates the file, or truncates the one there is.
StoreCreate(h) ==
    /\ At(h, "store")
    /\ Acquire(h)
    /\ LET i == call[h].id
           f == IF dir[i] # None THEN dir[i] ELSE CHOOSE f \in Unused : TRUE
       IN  /\ dir' = [dir EXCEPT ![i] = f]
           /\ data' = [data EXCEPT ![f] = [content |-> call[h].content, len |-> 0]]
           /\ spoiled' = spoiled \cup ReadersOf(f)
    /\ Goto(h, "write")
    /\ UNCHANGED <<meta, temp, downloads, requests, faults, cut>>

Copied(f) == data[f].len = Chunks

StoreWrite(h) ==
    /\ At(h, "write")
    /\ LET f == dir[call[h].id]
       IN  /\ ~Copied(f)
           /\ data' = [data EXCEPT ![f].len = @ + 1]
    /\ UNCHANGED <<meta, dir, lock, temp, call, downloads, requests, faults, cut, spoiled>>

StoreCommit(h) ==
    /\ At(h, "write")
    /\ Copied(dir[call[h].id])
    /\ meta' = [meta EXCEPT ![call[h].id] = call[h].content]
    /\ lock' = None
    /\ cut' = cut \ {call[h].id}
    /\ Goto(h, "end")
    /\ UNCHANGED <<dir, data, temp, downloads, requests, faults, spoiled>>

\* Faulty variant: only an upload that was stored removes its temporary file.
DropStored(h) ==
    temp' = IF meta[call[h].id] = call[h].content THEN temp \ {call[h].id} ELSE temp

DropTemp(h) == temp' = temp \ {call[h].id}

\* Whatever the outcome, the deferred clean-up removes the temporary file.
UploadEnd(h) ==
    /\ At(h, "end")
    /\ DropTemp(h)
    /\ call' = [call EXCEPT ![h] = NoCall]
    /\ UNCHANGED <<storage, lock, downloads, requests, faults, cut, spoiled>>

-----------------------------------------------------------------------------
(* RemoveImage *)

Remove(h, i) ==
    /\ requests < MaxRequests
    /\ At(h, "idle")
    /\ requests' = requests + 1
    /\ call' = [call EXCEPT ![h] = [pc |-> "remove", id |-> i, content |-> None]]
    /\ UNCHANGED <<storage, lock, temp, downloads, faults, cut, spoiled>>

\* Of an image without metadata no file is removed, even if there is one.
RemoveFile(h) ==
    /\ At(h, "remove")
    /\ LET i == call[h].id
       IN  \/ /\ meta[i] # None
              /\ Acquire(h)
              /\ dir' = [dir EXCEPT ![i] = None]
              /\ Goto(h, "delete")
           \/ /\ meta[i] = None
              /\ MayRead
              /\ call' = [call EXCEPT ![h] = NoCall]
              /\ UNCHANGED <<dir, lock>>
    /\ UNCHANGED <<meta, data, temp, downloads, requests, faults, cut, spoiled>>

RemoveMeta(h) ==
    /\ At(h, "delete")
    /\ meta' = [meta EXCEPT ![call[h].id] = None]
    /\ lock' = None
    /\ cut' = cut \ {call[h].id}
    /\ call' = [call EXCEPT ![h] = NoCall]
    /\ UNCHANGED <<dir, data, temp, downloads, requests, faults, spoiled>>

-----------------------------------------------------------------------------
(* The QEMU service's download *)

\* A Start that finds no image file.
Fetch(x, i) ==
    /\ fetches < MaxFetches
    /\ FetchAt(x, "idle")
    /\ image[x] = None
    /\ fetches' = fetches + 1
    /\ fetch' = [fetch EXCEPT ![x] = [NoFetch EXCEPT !.pc = "exists", !.id = i]]
    /\ spoiled' = spoiled \ {x}
    /\ UNCHANGED <<storage, lock, temp, call, image, requests, faults, cut>>

Exists(x) ==
    /\ FetchAt(x, "exists")
    /\ MayRead
    /\ fetch' = [fetch EXCEPT ![x] = IF meta[fetch[x].id] = None THEN NoFetch
                                     ELSE [@ EXCEPT !.pc = "retrieve"]]
    /\ UNCHANGED <<storage, lock, temp, call, image, fetches, requests, faults, cut, spoiled>>

\* The image may have gone since; a file without metadata is not looked for.
Retrieve(x) ==
    /\ FetchAt(x, "retrieve")
    /\ MayRead
    /\ LET i == fetch[x].id
           found == meta[i] # None /\ dir[i] # None
       IN  /\ fetch' = [fetch EXCEPT ![x] =
                            IF found THEN [@ EXCEPT !.pc = "read", !.file = dir[i]]
                            ELSE NoFetch]
           /\ spoiled' = IF found /\ i \in cut THEN spoiled \cup {x} ELSE spoiled
    /\ UNCHANGED <<storage, lock, temp, call, image, fetches, requests, faults, cut>>

\* The next chunk of the open file, into the temporary image.
Read(x) ==
    /\ FetchAt(x, "read")
    /\ LET f == data[fetch[x].file]
           k == Len(fetch[x].got) + 1
       IN  /\ k <= f.len
           /\ fetch' = [fetch EXCEPT ![x].got = Append(@, <<f.content, k>>)]
    /\ UNCHANGED <<storage, lock, temp, call, image, fetches, requests, faults, cut, spoiled>>

\* At the end of the file the temporary image becomes the instance's.
Finalize(x) ==
    /\ FetchAt(x, "read")
    /\ Len(fetch[x].got) >= data[fetch[x].file].len
    /\ image' = [image EXCEPT ![x] = fetch[x].got]
    /\ fetch' = [fetch EXCEPT ![x] = NoFetch]
    /\ UNCHANGED <<storage, lock, temp, call, fetches, requests, faults, cut, spoiled>>

\* The instance is removed, and its directory with it.
Discard(x) ==
    /\ image[x] # None
    /\ image' = [image EXCEPT ![x] = None]
    /\ UNCHANGED <<storage, lock, temp, call, fetch, fetches, requests, faults, cut, spoiled>>

-----------------------------------------------------------------------------
(* Faults *)

Fault == faults < MaxFaults /\ faults' = faults + 1

\* The holder of the mutex has changed the file but not the metadata.
Halfway == {call[h].id : h \in {g \in Handlers : call[g].pc \in {"write", "delete"}}}

\* Creating or writing the file or the metadata fails.
StoreFails(h) ==
    /\ call[h].pc \in {"store", "write"}
    /\ lock \in {None, h}
    /\ Fault
    /\ cut' = IF At(h, "write") THEN cut \cup {call[h].id} ELSE cut
    /\ lock' = None
    /\ Goto(h, "end")
    /\ UNCHANGED <<storage, temp, downloads, requests, spoiled>>

RemoveFails(h) ==
    /\ call[h].pc \in {"remove", "delete"}
    /\ lock \in {None, h}
    /\ Fault
    /\ cut' = IF At(h, "delete") THEN cut \cup {call[h].id} ELSE cut
    /\ lock' = None
    /\ call' = [call EXCEPT ![h] = NoCall]
    /\ UNCHANGED <<storage, temp, downloads, requests, spoiled>>

\* Faulty variant: a broken stream passes for the end of the file.
KeepImage(x) == image' = [image EXCEPT ![x] = fetch[x].got]

DropImage(x) == UNCHANGED image

\* The stream breaks, or the QEMU service stops.
FetchFails(x) ==
    /\ FetchAt(x, "read")
    /\ Fault
    /\ fetch' = [fetch EXCEPT ![x] = NoFetch]
    /\ DropImage(x)
    /\ UNCHANGED <<storage, lock, temp, call, fetches, requests, cut, spoiled>>

\* The registry stops and starts again, with an empty temporary directory.
Crash ==
    /\ Fault
    /\ lock' = None
    /\ temp' = {}
    /\ call' = [h \in Handlers |-> NoCall]
    /\ fetch' = [x \in Instances |-> NoFetch]
    /\ cut' = cut \cup Halfway
    /\ UNCHANGED <<storage, image, fetches, requests, spoiled>>

-----------------------------------------------------------------------------
Uploading(h) ==
    \/ Receive(h) \/ Compare(h) \/ StoreCreate(h) \/ StoreWrite(h) \/ StoreCommit(h)
    \/ UploadEnd(h)

Removing(h) == RemoveFile(h) \/ RemoveMeta(h)

Fetching(x) == Exists(x) \/ Retrieve(x) \/ Read(x) \/ Finalize(x)

Request(h) == \E i \in Ids : Remove(h, i) \/ \E c \in Contents : Upload(h, i, c)

Next ==
    \/ \E h \in Handlers : Request(h) \/ Uploading(h) \/ Removing(h)
                           \/ StoreFails(h) \/ RemoveFails(h)
    \/ \E x \in Instances : Fetching(x) \/ Discard(x) \/ FetchFails(x)
                            \/ \E i \in Ids : Fetch(x, i)
    \/ Crash

Spec == Init /\ [][Next]_vars

\* Handlers run, and a client ends its stream or its connection breaks.
Fairness == \A h \in Handlers : WF_vars(Uploading(h) \/ Removing(h))

FairSpec == Spec /\ Fairness

-----------------------------------------------------------------------------
(* What the registry's users see of it *)

\* What each download has open: one content, unless it was spoiled.
Opened ==
    [x \in Instances |->
        IF ~FetchAt(x, "read") THEN [id |-> None, content |-> None]
        ELSE [id |-> fetch[x].id,
              content |-> IF x \in spoiled THEN "torn" ELSE data[fetch[x].file].content]]

\* The content of each instance's image, if it is one.
Kept ==
    [x \in Instances |->
        IF image[x] = None THEN None
        ELSE IF \E c \in Contents : image[x] = Whole(c)
          THEN CHOOSE c \in Contents : image[x] = Whole(c)
          ELSE "torn"]

Registry == INSTANCE ImageRegistry
                WITH held <- meta, damaged <- cut, opened <- Opened, copy <- Kept

-----------------------------------------------------------------------------
(* Properties *)

\* Type invariant.
TypeOK ==
    /\ meta \in [Ids -> Contents \cup {None}]
    /\ dir \in [Ids -> Files \cup {None}]
    /\ data \in [Files -> [content : Contents \cup {None}, len : 0 .. Chunks]]
    /\ lock \in Handlers \cup {None}
    /\ temp \subseteq Ids
    /\ call \in [Handlers -> [pc : {"idle", "receive", "compare", "store", "write",
                                    "end", "remove", "delete"},
                              id : Ids \cup {None}, content : Contents \cup {None}]]
    /\ fetch \in [Instances -> [pc : {"idle", "exists", "retrieve", "read"},
                                id : Ids \cup {None}, file : Files \cup {None},
                                got : Seq(Contents \X (1 .. Chunks))]]
    /\ \A x \in Instances : Len(fetch[x].got) <= Chunks
    /\ image \in [Instances -> Seq(Contents \X (1 .. Chunks)) \cup {None}]
    /\ requests \in 0 .. MaxRequests /\ fetches \in 0 .. MaxFetches
    /\ faults \in 0 .. MaxFaults
    /\ cut \subseteq Ids
    /\ spoiled \subseteq Instances

\* The storage holds the whole of content c as image i.
Holds(i, c) == dir[i] # None /\ data[dir[i]] = [content |-> c, len |-> Chunks]

\* Whatever uploads and removals ran together, an image whose last Store or
\* Remove finished has the file its metadata describes, and only such a file.
StoredIsWhole ==
    lock = None =>
        \A i \in Ids \ cut :
            IF meta[i] = None THEN dir[i] = None ELSE Holds(i, meta[i])

\* An instance's image is one whole content, unless the file was overwritten
\* while it was read or was left by a Store that did not finish.
ImageIsWhole ==
    \A x \in Instances \ spoiled :
        image[x] # None => \E c \in Contents : image[x] = Whole(c)

\* Files, metadata and mutex, with all interleavings and failures, are the
\* registry its users count on: an image changes in one step, and a download
\* that was not torn ends with the very content the image had when it was
\* opened, although uploads of this and of other images go on meanwhile.
ImplementsRegistry == Registry!Spec

\* An upload that is skipped because an identical image exists: it does.
Skips(h) == At(h, "compare") /\ call'[h].pc = "end"

SkippedExists == [][\A h \in Handlers : Skips(h) => Holds(call[h].id, call[h].content)]_vars

\* The same, when Store and Remove always finish.
SkippedExistsUncut ==
    [][\A h \in Handlers : Skips(h) => \/ Holds(call[h].id, call[h].content)
                                       \/ call[h].id \in cut]_vars

\* Whatever becomes of an upload, its id can be uploaded again.
TempIsReleased == \A i \in Ids : i \in temp ~> i \notin temp
=============================================================================
