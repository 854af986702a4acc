----------------------------- MODULE ImageProofs ------------------------------
(***************************************************************************)
(* Images: proofs about the registry's storage (ImageStore) and about the  *)
(* images' way to the nodes (ImageDistribution).                           *)
(*                                                                         *)
(* Storage, for any number of handlers, ids, chunks and failures: one call *)
(* at a time is between the file and its metadata, the holder of the       *)
(* mutex, and what it changes is known (Written, Deleted); every other     *)
(* image that was not left halfway is settled, and a download that was not *)
(* spoiled reads one whole file.  Together with ReadersKnown this gives    *)
(* the step of ImageRegistry that each step of the storage is.             *)
(*                                                                         *)
(* Distribution, for any number of creations and versions: what a creation *)
(* may start from, disk, comes from the node, remote; that from a          *)
(* temporary file, copy, or from a comparison with what was listed,        *)
(* wanted; and both from the orchestrator's registry, local.  The          *)
(* invariant follows a whole version along this way, past damaged and torn *)
(* files, and says at every station that it is one the orchestrator has    *)
(* held since the creation began, or one pushed over such a version.       *)
(***************************************************************************)
EXTENDS ImageStore, ImageDistribution, FiniteSetTheorems, SequenceTheorems, TLAPS

-----------------------------------------------------------------------------
(* The registry's storage *)

\* The sets of TypeOK, by name.
CallSteps == {"idle", "receive", "compare", "store", "write", "end", "remove", "delete"}
FetchSteps == {"idle", "exists", "retrieve", "read"}
MaybeId == Ids \cup {None}
MaybeFile == Files \cup {None}
MaybeContent == Contents \cup {None}
FileData == [content : MaybeContent, len : 0 .. Chunks]
Calls == [pc : CallSteps, id : MaybeId, content : MaybeContent]
Pieces == Seq(Contents \X (1 .. Chunks))
Fetches == [pc : FetchSteps, id : MaybeId, file : MaybeFile, got : Pieces]

\* No download holds more than a file.
GotFits == \A x \in Instances : Len(fetch[x].got) <= Chunks

\* The holder of the mutex is the one that is between changing the file and
\* the metadata.
LockIsHeld ==
    \A h \in Handlers : lock = h <=> call[h].pc \in {"write", "delete"}

\* A call and a download know what they work on.
CallsShaped ==
    \A h \in Handlers :
        /\ call[h].pc # "idle" => call[h].id \in Ids
        /\ call[h].pc \in {"receive", "compare", "store", "write"} =>
              call[h].content \in Contents
\* Only a download that reads has a file open, and chunks.
FetchesShaped ==
    \A x \in Instances :
        /\ fetch[x].pc # "idle" => fetch[x].id \in Ids
        /\ IF fetch[x].pc = "read" THEN fetch[x].file \in Files
                                   ELSE fetch[x].file = None /\ fetch[x].got = <<>>

\* Two images have two files; a file without a content is empty.
FilesApart ==
    /\ \A i, j \in Ids : dir[i] # None /\ dir[i] = dir[j] => i = j
    /\ \A f \in Files : data[f].content = None => data[f].len = 0

\* What the holder of the mutex has done so far.
Written ==
    \A h \in Handlers : call[h].pc = "write" =>
        dir[call[h].id] # None /\ data[dir[call[h].id]].content = call[h].content
Deleted ==
    \A h \in Handlers : call[h].pc = "delete" => dir[call[h].id] = None

\* Every image that nobody is changing, and that was not left halfway, has
\* the file its metadata describes.
Settled(i) == IF meta[i] = None THEN dir[i] = None ELSE Holds(i, meta[i])
AllSettled == \A i \in Ids \ (cut \cup Halfway) : Settled(i)

\* A download that was not spoiled reads a whole file.
ReadsOf(x, c) ==
    /\ data[fetch[x].file] = [content |-> c, len |-> Chunks]
    /\ \A k \in 1 .. Len(fetch[x].got) : fetch[x].got[k] = <<c, k>>
ReadsWhole ==
    \A x \in Instances \ spoiled :
        fetch[x].pc = "read" => \E c \in Contents : ReadsOf(x, c)

\* The inductive invariant.
ShapeInv == LockIsHeld /\ CallsShaped /\ FetchesShaped /\ FilesApart /\ Written /\ Deleted
ImageInv == TypeOK /\ ShapeInv /\ AllSettled /\ ReadsWhole /\ ImageIsWhole

-----------------------------------------------------------------------------
(* Types *)

\* The type invariant, one variable at a time.
VarTypes ==
    /\ meta \in [Ids -> MaybeContent] /\ dir \in [Ids -> MaybeFile]
    /\ data \in [Files -> FileData]
    /\ lock \in Handlers \cup {None} /\ temp \subseteq Ids
    /\ call \in [Handlers -> Calls]
    /\ fetch \in [Instances -> Fetches]
    /\ GotFits
    /\ image \in [Instances -> Pieces \cup {None}]
    /\ requests \in 0 .. MaxRequests /\ fetches \in 0 .. MaxFetches
    /\ faults \in 0 .. MaxFaults
    /\ cut \subseteq Ids /\ spoiled \subseteq Instances

\* The two ways to state the types, now and after a step.
LEMMA ImageTypes == /\ TypeOK <=> VarTypes
                    /\ (TypeOK <=> VarTypes)'
BY DEF TypeOK, GotFits, CallSteps, FetchSteps, MaybeId, MaybeFile, MaybeContent, FileData, Calls,
   Pieces, Fetches, VarTypes

\* None is nothing else, and nothing to do is a state of calls and downloads.
LEMMA Nowhere ==
    /\ None \notin Ids /\ None \notin Contents /\ None \notin Handlers /\ None \notin Files
    /\ Chunks \in Nat /\ Chunks # 0
    /\ NoCall \in Calls /\ NoFetch \in Fetches
    /\ NoCall.pc = "idle" /\ NoFetch.pc = "idle" /\ NoFetch.file = None
    /\ NoFetch.got = <<>> /\ Len(<<>>) = 0
<1>1. <<>> \in Pieces /\ Len(<<>>) = 0
  BY EmptySeq DEF Pieces
<1> QED
  BY <1>1, ImageAssumption DEF NoCall, NoFetch, Calls, Fetches, CallSteps, FetchSteps,
     MaybeId, MaybeContent, MaybeFile

\* The invariant holds initially.
LEMMA ImageInit ==
    ASSUME Init PROVE ImageInv
<1>1. TypeOK
  BY Nowhere, ImageTypes, ImageAssumption
  DEF Init, GotFits, MaybeContent, MaybeFile, FileData, VarTypes
<1>2. ShapeInv
  BY Nowhere DEF Init, ShapeInv, LockIsHeld, CallsShaped, FetchesShaped, FilesApart,
     Written, Deleted
<1>3. AllSettled /\ ReadsWhole /\ ImageIsWhole
  BY Nowhere DEF Init, AllSettled, Settled, ReadsWhole, ImageIsWhole
<1> QED
  BY <1>1, <1>2, <1>3 DEF ImageInv

\* Downloads that do not change go on to fit.
LEMMA GotStillFits ==
    ASSUME GotFits, fetch' = fetch PROVE GotFits'
BY Zenon DEF GotFits

\* A call moves on.
LEMMA GotoFacts ==
    ASSUME TypeOK, NEW h \in Handlers, NEW pc \in CallSteps, Goto(h, pc)
    PROVE  /\ call' \in [Handlers -> Calls]
           /\ call'[h].pc = pc /\ call'[h].id = call[h].id
           /\ call'[h].content = call[h].content
           /\ \A g \in Handlers : g # h => call'[g] = call[g]
<1>1. call[h] \in Calls /\ call \in [Handlers -> Calls]
  BY ImageTypes DEF VarTypes
<1>2. [call[h] EXCEPT !.pc = pc] \in Calls
  BY <1>1 DEF Calls
<1> QED
  BY <1>1, <1>2 DEF Goto, Calls

\* A download whose file is not changed goes on reading it.
LEMMA ReadsStay ==
    ASSUME NEW x, NEW c, ReadsOf(x, c), fetch'[x] = fetch[x],
           data'[fetch[x].file] = data[fetch[x].file]
    PROVE  ReadsOf(x, c)'
<1> DEFINE f == fetch[x]
           g == fetch'[x]
<1>1. g = f
  OBVIOUS
<1>2. data[f.file] = [content |-> c, len |-> Chunks]
      /\ \A k \in 1 .. Len(f.got) : f.got[k] = <<c, k>>
  BY DEF ReadsOf
<1>3. data'[f.file] = data[f.file]
  OBVIOUS
<1> SUFFICES data'[g.file] = [content |-> c, len |-> Chunks]
             /\ \A k \in 1 .. Len(g.got) : g.got[k] = <<c, k>>
  BY DEF ReadsOf
<1> HIDE DEF f, g
<1> QED
  BY <1>1, <1>2, <1>3

-----------------------------------------------------------------------------
(* Steps that change neither the storage nor a download *)

\* A call that holds no mutex before or after.
LEMMA CallOnly ==
    ASSUME ImageInv, TypeOK', NEW h \in Handlers,
           \A g \in Handlers : g # h => call'[g] = call[g],
           call[h].pc \notin {"write", "delete"}, call'[h].pc \notin {"write", "delete"},
           call'[h].pc # "idle" => call'[h].id \in Ids,
           call'[h].pc \in {"receive", "compare", "store"} => call'[h].content \in Contents,
           UNCHANGED <<storage, lock, fetch, image, cut, spoiled>>
    PROVE  ImageInv'
<1> USE DEF ImageInv
<1>0. /\ meta' = meta /\ dir' = dir /\ data' = data /\ lock' = lock /\ fetch' = fetch
      /\ image' = image /\ cut' = cut /\ spoiled' = spoiled
  BY DEF storage
<1>1. ShapeInv'
  BY <1>0 DEF ShapeInv, LockIsHeld, CallsShaped, FetchesShaped, FilesApart, Written, Deleted
<1>2. Halfway' = Halfway
  BY DEF Halfway
<1>3. AllSettled'
  BY <1>0, <1>2 DEF AllSettled, Settled, Holds
<1>4. ReadsWhole'
  BY <1>0, ReadsStay DEF ReadsWhole
<1>5. ImageIsWhole'
  BY <1>0 DEF ImageIsWhole
<1> QED
  BY <1>1, <1>3, <1>4, <1>5

\* A new call starts without the mutex.
LEMMA RequestStep ==
    ASSUME ImageInv, NEW h \in Handlers, Request(h) PROVE ImageInv'
<1>1. PICK i \in Ids : Remove(h, i) \/ \E c \in Contents : Upload(h, i, c)
  BY DEF Request
<1>2. PICK r \in Calls :
         /\ r.pc \in {"receive", "remove"} /\ r.id = i
         /\ r.pc = "receive" => r.content \in Contents
         /\ call' = [call EXCEPT ![h] = r]
  BY <1>1 DEF Remove, Upload, Calls, CallSteps, MaybeId, MaybeContent
<1>3. /\ call[h].pc = "idle" /\ requests < MaxRequests /\ requests' = requests + 1
      /\ temp' \subseteq temp \cup {i}
      /\ UNCHANGED <<storage, lock, downloads, faults, cut, spoiled>>
  BY <1>1 DEF Remove, Upload, At
<1>4. call \in [Handlers -> Calls] /\ TypeOK
  BY ImageTypes DEF ImageInv, VarTypes
<1>5. /\ call' \in [Handlers -> Calls] /\ call'[h] = r
      /\ \A g \in Handlers : g # h => call'[g] = call[g]
  BY <1>2, <1>4
<1>6. requests' \in 0 .. MaxRequests
  BY <1>3, <1>4, ImageTypes, ImageAssumption DEF VarTypes
<1>7. TypeOK'
  BY <1>3, <1>4, <1>5, <1>6, ImageTypes, GotStillFits DEF storage, downloads, VarTypes
<1> QED
  BY <1>2, <1>3, <1>5, <1>7, CallOnly DEF downloads

\* The stream's end, the comparison and the clean-up.
LEMMA QuietCallStep ==
    ASSUME ImageInv, NEW h \in Handlers, Receive(h) \/ Compare(h) \/ UploadEnd(h)
    PROVE  ImageInv'
<1>1. TypeOK /\ CallsShaped
  BY DEF ImageInv, ShapeInv
<1>2. CASE Receive(h) \/ Compare(h)
  <2>1. /\ call[h].pc \in {"receive", "compare"}
        /\ \E pc \in {"compare", "store", "end"} : Goto(h, pc)
        /\ UNCHANGED <<storage, lock, temp, downloads, requests, faults, cut, spoiled>>
    BY <1>2 DEF Receive, Compare, At
  <2>2. /\ call' \in [Handlers -> Calls] /\ call'[h].pc \in {"compare", "store", "end"}
        /\ call'[h].id = call[h].id /\ call'[h].content = call[h].content
        /\ \A g \in Handlers : g # h => call'[g] = call[g]
    BY <1>1, <2>1, GotoFacts DEF CallSteps
  <2>3. TypeOK'
    BY <1>1, <2>1, <2>2, ImageTypes, GotStillFits DEF storage, downloads, VarTypes
  <2> QED
    BY <1>1, <2>1, <2>2, <2>3, CallOnly DEF CallsShaped, downloads
<1>3. CASE UploadEnd(h)
  <2>1. /\ call[h].pc = "end" /\ call' = [call EXCEPT ![h] = NoCall] /\ temp' \subseteq temp
        /\ UNCHANGED <<storage, lock, downloads, requests, faults, cut, spoiled>>
    BY <1>3 DEF UploadEnd, At, DropTemp
  <2>2. /\ call' \in [Handlers -> Calls] /\ call'[h].pc = "idle"
        /\ \A g \in Handlers : g # h => call'[g] = call[g]
    BY <1>1, <2>1, Nowhere, ImageTypes DEF VarTypes
  <2>3. TypeOK'
    BY <1>1, <2>1, <2>2, ImageTypes, GotStillFits DEF storage, downloads, VarTypes
  <2> QED
    BY <2>1, <2>2, <2>3, CallOnly DEF downloads
<1> QED
  BY <1>2, <1>3

-----------------------------------------------------------------------------
(* Store *)

\* A function of a finite set has no more values than arguments.
LEMMA ValuesBound ==
    ASSUME NEW S, IsFiniteSet(S), NEW F
    PROVE  /\ IsFiniteSet({F[s] : s \in S}) /\ Cardinality({F[s] : s \in S}) \in Nat
           /\ Cardinality({F[s] : s \in S}) <= Cardinality(S)
<1> DEFINE T == {F[s] : s \in S}
           G == [s \in S |-> F[s]]
<1>1. G \in [S -> T]
  OBVIOUS
<1>2. \A t \in T : \E s \in S : G[s] = t
  OBVIOUS
<1>3. G \in Surjection(S, T)
  BY <1>1, <1>2 DEF Surjection
<1> HIDE DEF T, G
<1>4. IsFiniteSet(T) /\ Cardinality(T) <= Cardinality(S)
  BY <1>3, FS_Surjection
<1>5. Cardinality(T) \in Nat
  BY <1>4, FS_CardinalityType
<1> QED
  BY <1>4, <1>5 DEF T

\* There are files enough: every other image and every download has one at most.
LEMMA FileIsLeft ==
    ASSUME TypeOK, NEW i \in Ids, dir[i] = None PROVE Unused # {}
<1> DEFINE D == {dir[j] : j \in Ids \ {i}}
           R == {fetch[x].file : x \in Instances}
           F == [x \in Instances |-> fetch[x].file]
           n == Cardinality(Ids)
           k == Cardinality(Instances)
<1>1. /\ n \in Nat /\ k \in Nat /\ IsFiniteSet(Ids) /\ IsFiniteSet(Instances)
      /\ IsFiniteSet(Ids \ {i}) /\ Cardinality(Ids \ {i}) = n - 1
  BY ImageAssumption, FS_CardinalityType, FS_RemoveElement
<1>2. IsFiniteSet(D) /\ Cardinality(D) \in Nat /\ Cardinality(D) <= n - 1
  BY <1>1, ValuesBound
<1>3. IsFiniteSet(R) /\ Cardinality(R) \in Nat /\ Cardinality(R) <= k
  <2>1. R = {F[x] : x \in Instances}
    OBVIOUS
  <2> HIDE DEF R, F
  <2> QED
    BY <1>1, <2>1, ValuesBound
<1>4. Cardinality(Files) = n + k /\ IsFiniteSet(Files)
  <2>1. n + k \in Nat
    BY <1>1
  <2> QED
    BY <2>1, FS_Interval DEF Files
<1>5. {dir[j] : j \in Ids} \subseteq D \cup {None}
  OBVIOUS
<1>6. Unused = {} => Files \subseteq D \cup R
  BY <1>5, Nowhere DEF Unused
<1> HIDE DEF D, R, n, k
<1>7. /\ IsFiniteSet(D \cup R) /\ Cardinality(D \cap R) \in Nat
      /\ Cardinality(D \cup R) = Cardinality(D) + Cardinality(R) - Cardinality(D \cap R)
  BY <1>2, <1>3, FS_Union, FS_Intersection, FS_CardinalityType
<1>8. Files \subseteq D \cup R => Cardinality(Files) <= Cardinality(D \cup R)
  BY <1>7, FS_Subset
<1> QED
  BY <1>1, <1>2, <1>3, <1>4, <1>6, <1>7, <1>8

\* Store takes the image's file, or one that no image has and nobody reads.
LEMMA FileChosen ==
    ASSUME ImageInv, NEW h \in Handlers, StoreCreate(h)
    PROVE  \E f \in Files :
              /\ \A j \in Ids : dir[j] = f => j = call[h].id
              /\ dir' = [dir EXCEPT ![call[h].id] = f]
              /\ data' = [data EXCEPT ![f] = [content |-> call[h].content, len |-> 0]]
              /\ spoiled' = spoiled \cup ReadersOf(f)
              /\ f = dir[call[h].id] \/ \A x \in Instances : fetch[x].file # f
<1>1. TypeOK /\ FilesApart /\ CallsShaped
  BY DEF ImageInv, ShapeInv
<1>2. call[h].id \in Ids
  BY <1>1 DEF CallsShaped, StoreCreate, At
<1> DEFINE i == call[h].id
           f == IF dir[i] # None THEN dir[i] ELSE CHOOSE g \in Unused : TRUE
<1>3. /\ dir' = [dir EXCEPT ![i] = f]
      /\ data' = [data EXCEPT ![f] = [content |-> call[h].content, len |-> 0]]
      /\ spoiled' = spoiled \cup ReadersOf(f)
  BY DEF StoreCreate
<1>4. /\ f \in Files /\ \A j \in Ids : dir[j] = f => j = i
      /\ f = dir[i] \/ \A x \in Instances : fetch[x].file # f
  <2>1. CASE dir[i] # None
    BY <1>1, <1>2, <2>1, ImageTypes DEF FilesApart, VarTypes, MaybeFile
  <2>2. CASE dir[i] = None
    <3>1. f \in Unused
      BY <1>1, <1>2, <2>2, FileIsLeft
    <3> QED
      BY <3>1 DEF Unused
  <2> QED
    BY <2>1, <2>2
<1> QED
  BY <1>3, <1>4

\* A step of the one call that holds the mutex, takes it or gives it back.
LEMMA HolderStep ==
    ASSUME ImageInv, NEW h \in Handlers, lock \in {None, h},
           call' \in [Handlers -> Calls],
           \A g \in Handlers : g # h => call'[g] = call[g],
           lock' = IF call'[h].pc \in {"write", "delete"} THEN h ELSE None,
           call'[h].pc # "idle" => call'[h].id \in Ids,
           call'[h].pc \in {"receive", "compare", "store", "write"} =>
              call'[h].content \in Contents,
           UNCHANGED fetch
    PROVE  /\ LockIsHeld' /\ CallsShaped' /\ FetchesShaped'
           /\ \A g \in Handlers : g # h => call'[g].pc \notin {"write", "delete"}
           /\ Halfway = IF call[h].pc \in {"write", "delete"} THEN {call[h].id} ELSE {}
           /\ Halfway' = IF call'[h].pc \in {"write", "delete"} THEN {call'[h].id} ELSE {}
           /\ \A i \in Ids : i \notin cut \cup Halfway => Settled(i)
<1>1. LockIsHeld /\ CallsShaped /\ FetchesShaped /\ AllSettled
  BY DEF ImageInv, ShapeInv
<1>2. \A g \in Handlers : g # h => /\ call[g].pc \notin {"write", "delete"}
                                   /\ call'[g].pc \notin {"write", "delete"}
  BY <1>1, Nowhere DEF LockIsHeld
<1>3. LockIsHeld'
  BY <1>2, Nowhere DEF LockIsHeld
<1>4. CallsShaped'
  BY <1>1 DEF CallsShaped
<1>5. FetchesShaped'
  BY <1>1 DEF FetchesShaped
<1>6. Halfway = IF call[h].pc \in {"write", "delete"} THEN {call[h].id} ELSE {}
  BY <1>2 DEF Halfway
<1>7. Halfway' = IF call'[h].pc \in {"write", "delete"} THEN {call'[h].id} ELSE {}
  BY <1>2 DEF Halfway
<1> QED
  BY <1>1, <1>2, <1>3, <1>4, <1>5, <1>6, <1>7 DEF AllSettled

\* Whoever reads the file that is taken is spoiled.
LEMMA StoreCreateStep ==
    ASSUME ImageInv, NEW h \in Handlers, StoreCreate(h) PROVE ImageInv'
<1>1. TypeOK /\ FilesApart /\ CallsShaped /\ FetchesShaped /\ ReadsWhole /\ ImageIsWhole
  BY DEF ImageInv, ShapeInv
<1>2. PICK f \in Files :
         /\ \A j \in Ids : dir[j] = f => j = call[h].id
         /\ dir' = [dir EXCEPT ![call[h].id] = f]
         /\ data' = [data EXCEPT ![f] = [content |-> call[h].content, len |-> 0]]
         /\ spoiled' = spoiled \cup ReadersOf(f)
  BY FileChosen
<1>3. /\ call[h].pc = "store" /\ lock = None /\ lock' = h /\ Goto(h, "write")
      /\ UNCHANGED <<meta, temp, downloads, requests, faults, cut>>
  BY DEF StoreCreate, At, Acquire
<1>4. call[h].id \in Ids /\ call[h].content \in Contents
  BY <1>1, <1>3 DEF CallsShaped
<1>5. /\ call' \in [Handlers -> Calls] /\ call'[h].pc = "write"
      /\ call'[h].id = call[h].id /\ call'[h].content = call[h].content
      /\ \A g \in Handlers : g # h => call'[g] = call[g]
  BY <1>1, <1>3, GotoFacts DEF CallSteps
<1>6. /\ dir' \in [Ids -> MaybeFile] /\ dir'[call[h].id] = f
      /\ \A j \in Ids : j # call[h].id => dir'[j] = dir[j]
  BY <1>1, <1>2, <1>4, ImageTypes DEF VarTypes, MaybeFile
<1>7. /\ data' \in [Files -> FileData]
      /\ data'[f] = [content |-> call[h].content, len |-> 0]
      /\ \A g \in Files : g # f => data'[g] = data[g]
  BY <1>1, <1>2, <1>4, Nowhere, ImageTypes DEF VarTypes, FileData, MaybeContent
<1>8. TypeOK'
  <2>1. spoiled' \subseteq Instances
    BY <1>1, <1>2, ImageTypes DEF VarTypes, ReadersOf
  <2> QED
    BY <1>1, <1>3, <1>5, <1>6, <1>7, <2>1, ImageTypes, GotStillFits DEF downloads, VarTypes
<1>9. /\ LockIsHeld' /\ CallsShaped' /\ FetchesShaped'
      /\ \A g \in Handlers : g # h => call'[g].pc \notin {"write", "delete"}
      /\ Halfway = {} /\ Halfway' = {call[h].id}
      /\ \A i \in Ids : i \notin cut \cup Halfway => Settled(i)
  BY <1>3, <1>4, <1>5, HolderStep DEF downloads
<1>10. FilesApart'
  <2>1. \A i, j \in Ids : dir'[i] # None /\ dir'[i] = dir'[j] => i = j
    BY <1>1, <1>2, <1>6 DEF FilesApart
  <2>2. \A g \in Files : data'[g].content = None => data'[g].len = 0
    BY <1>1, <1>7 DEF FilesApart
  <2> QED
    BY <2>1, <2>2 DEF FilesApart
<1>11. Written' /\ Deleted'
  BY <1>5, <1>6, <1>7, <1>9, Nowhere DEF Written, Deleted
<1>12. AllSettled'
  <2>1. ASSUME NEW i \in Ids, i \notin cut', i \notin Halfway' PROVE Settled(i)'
    <3>1. i # call[h].id /\ Settled(i) /\ dir'[i] = dir[i] /\ meta'[i] = meta[i] /\ dir[i] # f
      BY <1>2, <1>3, <1>6, <1>9, <2>1
    <3>2. dir[i] # None => data'[dir[i]] = data[dir[i]]
      BY <1>1, <1>7, <3>1, ImageTypes DEF VarTypes, MaybeFile
    <3> QED
      BY <3>1, <3>2 DEF Settled, Holds
  <2> QED
    BY <2>1 DEF AllSettled
<1>13. ReadsWhole'
  <2>1. ASSUME NEW x \in Instances, x \notin spoiled', fetch'[x].pc = "read"
        PROVE  \E c \in Contents : ReadsOf(x, c)'
    <3>1. x \notin spoiled /\ fetch'[x] = fetch[x] /\ fetch[x].pc = "read" /\ fetch[x].file # f
      BY <1>2, <1>3, <2>1 DEF downloads, ReadersOf, FetchAt
    <3>2. data'[fetch[x].file] = data[fetch[x].file]
      BY <1>1, <1>7, <3>1 DEF FetchesShaped
    <3>3. PICK c \in Contents : ReadsOf(x, c)
      BY <1>1, <3>1 DEF ReadsWhole
    <3> QED
      BY <3>1, <3>2, <3>3, ReadsStay
  <2> QED
    BY <2>1 DEF ReadsWhole
<1>14. ImageIsWhole'
  BY <1>1, <1>2, <1>3 DEF ImageIsWhole, downloads
<1> QED
  BY <1>8, <1>9, <1>10, <1>11, <1>12, <1>13, <1>14 DEF ImageInv, ShapeInv

\* A file without its last chunk is read by no download that is not spoiled.
LEMMA StoreWriteStep ==
    ASSUME ImageInv, NEW h \in Handlers, StoreWrite(h) PROVE ImageInv'
<1>1. /\ TypeOK /\ LockIsHeld /\ FilesApart /\ CallsShaped /\ FetchesShaped /\ Written /\ Deleted
      /\ ReadsWhole /\ ImageIsWhole
  BY DEF ImageInv, ShapeInv
<1> DEFINE i == call[h].id
           f == dir[i]
<1>2. /\ call[h].pc = "write" /\ data[f].len # Chunks
      /\ data' = [data EXCEPT ![f].len = @ + 1]
      /\ UNCHANGED <<meta, dir, lock, temp, call, downloads, requests, faults, cut, spoiled>>
  BY DEF StoreWrite, At, Copied
<1>3. i \in Ids /\ f \in Files /\ data[f].content = call[h].content /\ call[h].content # None
  <2>1. i \in Ids /\ call[h].content \in Contents
    BY <1>1, <1>2 DEF CallsShaped
  <2>2. dir[i] # None /\ data[dir[i]].content = call[h].content
    BY <1>1, <1>2 DEF Written
  <2> QED
    BY <1>1, <2>1, <2>2, Nowhere, ImageTypes DEF VarTypes, MaybeFile
<1>4. /\ data' \in [Files -> FileData] /\ data'[f].content = data[f].content
      /\ \A g \in Files : g # f => data'[g] = data[g]
  <2>1. data \in [Files -> FileData] /\ data[f] \in FileData
    BY <1>1, <1>3, ImageTypes DEF VarTypes
  <2>2. data[f].len + 1 \in 0 .. Chunks
    BY <1>2, <2>1, Nowhere DEF FileData
  <2>3. [data[f] EXCEPT !.len = @ + 1] \in FileData
    BY <2>1, <2>2 DEF FileData
  <2> QED
    BY <1>2, <1>3, <2>1, <2>3 DEF FileData
<1>5. TypeOK'
  BY <1>1, <1>2, <1>4, ImageTypes, GotStillFits DEF downloads, VarTypes
<1>6. /\ LockIsHeld' /\ CallsShaped' /\ FetchesShaped'
      /\ Halfway = {i} /\ Halfway' = {i}
      /\ \A j \in Ids : j \notin cut \cup Halfway => Settled(j)
  <2>1. lock = h /\ call' = call /\ fetch' = fetch /\ lock' = lock
    BY <1>1, <1>2 DEF LockIsHeld, downloads
  <2>2. call \in [Handlers -> Calls] /\ call[h].content \in Contents
    BY <1>1, <1>2, ImageTypes DEF VarTypes, CallsShaped
  <2> QED
    BY <1>2, <1>3, <2>1, <2>2, HolderStep
<1>7. FilesApart' /\ Written' /\ Deleted'
  <2>1. \A g \in Files : data'[g].content = None => data'[g].len = 0
    BY <1>1, <1>3, <1>4 DEF FilesApart
  <2>2. \A g \in Files : data'[g].content = data[g].content
    BY <1>4
  <2>3. \A g \in Handlers : call[g].pc = "write" => dir[call[g].id] \in Files
    BY <1>1, ImageTypes DEF Written, CallsShaped, VarTypes, MaybeFile
  <2> QED
    BY <1>1, <1>2, <2>1, <2>2, <2>3 DEF FilesApart, Written, Deleted
<1>8. AllSettled'
  <2>1. ASSUME NEW j \in Ids, j \notin cut', j \notin Halfway' PROVE Settled(j)'
    <3>1. j # i /\ Settled(j) /\ dir'[j] = dir[j] /\ meta'[j] = meta[j]
      BY <1>2, <1>6, <2>1
    <3>2. dir[j] # None => data'[dir[j]] = data[dir[j]]
      BY <1>1, <1>3, <1>4, <3>1, ImageTypes DEF VarTypes, MaybeFile, FilesApart
    <3> QED
      BY <3>1, <3>2 DEF Settled, Holds
  <2> QED
    BY <2>1 DEF AllSettled
<1>9. ReadsWhole'
  <2>1. ASSUME NEW x \in Instances, x \notin spoiled', fetch'[x].pc = "read"
        PROVE  \E c \in Contents : ReadsOf(x, c)'
    <3>1. x \notin spoiled /\ fetch'[x] = fetch[x] /\ fetch[x].pc = "read"
      BY <1>2, <2>1 DEF downloads
    <3>2. PICK c \in Contents : ReadsOf(x, c)
      BY <1>1, <3>1 DEF ReadsWhole
    <3>3. fetch[x].file # f
      BY <1>2, <3>2 DEF ReadsOf
    <3>4. data'[fetch[x].file] = data[fetch[x].file]
      BY <1>1, <1>4, <3>1, <3>3 DEF FetchesShaped
    <3> QED
      BY <3>1, <3>2, <3>4, ReadsStay
  <2> QED
    BY <2>1 DEF ReadsWhole
<1>10. ImageIsWhole'
  BY <1>1, <1>2 DEF ImageIsWhole, downloads
<1> QED
  BY <1>5, <1>6, <1>7, <1>8, <1>9, <1>10 DEF ImageInv, ShapeInv

\* Downloads go on as long as nobody writes to a file.
LEMMA NothingWritten ==
    ASSUME ImageInv, UNCHANGED <<data, fetch, image, spoiled>>
    PROVE  ReadsWhole' /\ ImageIsWhole'
<1>1. ReadsWhole /\ ImageIsWhole
  BY DEF ImageInv
<1> QED
  BY <1>1, ReadsStay DEF ReadsWhole, ImageIsWhole

\* The metadata of a file that is complete settle the image.
LEMMA StoreCommitStep ==
    ASSUME ImageInv, NEW h \in Handlers, StoreCommit(h) PROVE ImageInv'
<1>1. TypeOK /\ LockIsHeld /\ FilesApart /\ CallsShaped /\ Written
  BY DEF ImageInv, ShapeInv
<1> DEFINE i == call[h].id
<1>2. /\ call[h].pc = "write" /\ data[dir[i]].len = Chunks
      /\ meta' = [meta EXCEPT ![i] = call[h].content]
      /\ lock' = None /\ cut' = cut \ {i} /\ Goto(h, "end")
      /\ UNCHANGED <<dir, data, temp, downloads, requests, faults, spoiled>>
  BY DEF StoreCommit, At, Copied
<1>3. i \in Ids /\ call[h].content \in Contents /\ lock = h
  BY <1>1, <1>2 DEF CallsShaped, LockIsHeld
<1>4. /\ call' \in [Handlers -> Calls] /\ call'[h].pc = "end" /\ call'[h].id = i
      /\ call'[h].content = call[h].content
      /\ \A g \in Handlers : g # h => call'[g] = call[g]
  BY <1>1, <1>2, GotoFacts DEF CallSteps
<1>5. /\ meta' \in [Ids -> MaybeContent] /\ meta'[i] = call[h].content
      /\ \A j \in Ids : j # i => meta'[j] = meta[j]
  BY <1>1, <1>2, <1>3, ImageTypes DEF VarTypes, MaybeContent
<1>6. TypeOK'
  BY <1>1, <1>2, <1>4, <1>5, ImageTypes, GotStillFits DEF downloads, VarTypes
<1>7. /\ LockIsHeld' /\ CallsShaped' /\ FetchesShaped'
      /\ \A g \in Handlers : g # h => call'[g].pc \notin {"write", "delete"}
      /\ Halfway = {i} /\ Halfway' = {}
      /\ \A j \in Ids : j \notin cut \cup Halfway => Settled(j)
  BY <1>2, <1>3, <1>4, HolderStep DEF downloads
<1>8. FilesApart' /\ Written' /\ Deleted'
  BY <1>1, <1>2, <1>4, <1>7 DEF FilesApart, Written, Deleted
<1>9. AllSettled'
  <2>1. ASSUME NEW j \in Ids, j \notin cut', j # i PROVE Settled(j)'
    BY <1>2, <1>5, <1>7, <2>1 DEF Settled, Holds
  <2>2. dir[i] # None /\ data[dir[i]] = [content |-> call[h].content, len |-> Chunks]
    <3>1. dir[i] # None /\ data[dir[i]].content = call[h].content
      BY <1>1, <1>2 DEF Written
    <3>2. data[dir[i]] \in FileData
      BY <1>1, <1>3, <3>1, ImageTypes DEF VarTypes, MaybeFile
    <3> QED
      BY <1>2, <3>1, <3>2 DEF FileData
  <2>3. Holds(i, meta[i])'
    BY <1>2, <1>4, <1>5, <2>2 DEF Holds
  <2>4. Settled(i)'
    BY <1>2, <1>3, <1>4, <1>5, <2>3, Nowhere DEF Settled
  <2> QED
    BY <1>4, <2>1, <2>4 DEF AllSettled
<1> QED
  BY <1>2, <1>6, <1>7, <1>8, <1>9, NothingWritten DEF ImageInv, ShapeInv, downloads

-----------------------------------------------------------------------------
(* Remove *)

\* The unlinked file stays as it is for whoever reads it.
LEMMA RemoveFileStep ==
    ASSUME ImageInv, NEW h \in Handlers, RemoveFile(h) PROVE ImageInv'
<1>1. TypeOK /\ LockIsHeld /\ FilesApart /\ CallsShaped
  BY DEF ImageInv, ShapeInv
<1> DEFINE i == call[h].id
<1>2. /\ call[h].pc = "remove" /\ lock = None
      /\ UNCHANGED <<meta, data, temp, downloads, requests, faults, cut, spoiled>>
  BY DEF RemoveFile, At, Acquire, MayRead
<1>3. i \in Ids
  BY <1>1, <1>2 DEF CallsShaped
<1>4. CASE lock' = h /\ dir' = [dir EXCEPT ![i] = None] /\ Goto(h, "delete")
  <2>1. /\ call' \in [Handlers -> Calls] /\ call'[h].pc = "delete" /\ call'[h].id = i
        /\ \A g \in Handlers : g # h => call'[g] = call[g]
    BY <1>1, <1>4, GotoFacts DEF CallSteps
  <2>2. /\ dir' \in [Ids -> MaybeFile] /\ dir'[i] = None
        /\ \A j \in Ids : j # i => dir'[j] = dir[j]
    BY <1>1, <1>3, <1>4, ImageTypes DEF VarTypes, MaybeFile
  <2>3. TypeOK'
    BY <1>1, <1>2, <1>4, <2>1, <2>2, ImageTypes, GotStillFits DEF downloads, VarTypes
  <2>4. /\ LockIsHeld' /\ CallsShaped' /\ FetchesShaped'
        /\ \A g \in Handlers : g # h => call'[g].pc \notin {"write", "delete"}
        /\ Halfway = {} /\ Halfway' = {i}
        /\ \A j \in Ids : j \notin cut \cup Halfway => Settled(j)
    BY <1>2, <1>3, <1>4, <2>1, HolderStep DEF downloads
  <2>5. FilesApart' /\ Written' /\ Deleted'
    BY <1>1, <1>2, <2>1, <2>2, <2>4 DEF FilesApart, Written, Deleted
  <2>6. AllSettled'
    <3>1. ASSUME NEW j \in Ids, j \notin cut', j \notin Halfway' PROVE Settled(j)'
      <4>1. j # i /\ Settled(j) /\ dir'[j] = dir[j]
        BY <1>2, <2>2, <2>4, <3>1
      <4> QED
        BY <1>2, <4>1 DEF Settled, Holds
    <3> QED
      BY <3>1 DEF AllSettled
  <2> QED
    BY <1>2, <2>3, <2>4, <2>5, <2>6, NothingWritten DEF ImageInv, ShapeInv, downloads
<1>5. CASE call' = [call EXCEPT ![h] = NoCall] /\ UNCHANGED <<dir, lock>>
  <2>1. /\ call' \in [Handlers -> Calls] /\ call'[h].pc = "idle"
        /\ \A g \in Handlers : g # h => call'[g] = call[g]
    BY <1>1, <1>5, Nowhere, ImageTypes DEF VarTypes
  <2>2. TypeOK'
    BY <1>1, <1>2, <1>5, <2>1, ImageTypes, GotStillFits DEF downloads, VarTypes
  <2> QED
    BY <1>2, <1>5, <2>1, <2>2, CallOnly DEF downloads, storage
<1> QED
  BY <1>4, <1>5 DEF RemoveFile, Acquire

\* Without metadata, an image whose file is gone is settled.
LEMMA RemoveMetaStep ==
    ASSUME ImageInv, NEW h \in Handlers, RemoveMeta(h) PROVE ImageInv'
<1>1. TypeOK /\ LockIsHeld /\ FilesApart /\ CallsShaped /\ Deleted
  BY DEF ImageInv, ShapeInv
<1> DEFINE i == call[h].id
<1>2. /\ call[h].pc = "delete" /\ meta' = [meta EXCEPT ![i] = None]
      /\ lock' = None /\ cut' = cut \ {i} /\ call' = [call EXCEPT ![h] = NoCall]
      /\ UNCHANGED <<dir, data, temp, downloads, requests, faults, spoiled>>
  BY DEF RemoveMeta, At
<1>3. i \in Ids /\ lock = h /\ dir[i] = None
  BY <1>1, <1>2 DEF CallsShaped, LockIsHeld, Deleted
<1>4. /\ call' \in [Handlers -> Calls] /\ call'[h].pc = "idle"
      /\ \A g \in Handlers : g # h => call'[g] = call[g]
  BY <1>1, <1>2, Nowhere, ImageTypes DEF VarTypes
<1>5. /\ meta' \in [Ids -> MaybeContent] /\ meta'[i] = None
      /\ \A j \in Ids : j # i => meta'[j] = meta[j]
  BY <1>1, <1>2, <1>3, ImageTypes DEF VarTypes, MaybeContent
<1>6. TypeOK'
  BY <1>1, <1>2, <1>4, <1>5, ImageTypes, GotStillFits DEF downloads, VarTypes
<1>7. /\ LockIsHeld' /\ CallsShaped' /\ FetchesShaped'
      /\ \A g \in Handlers : g # h => call'[g].pc \notin {"write", "delete"}
      /\ Halfway = {i} /\ Halfway' = {}
      /\ \A j \in Ids : j \notin cut \cup Halfway => Settled(j)
  BY <1>2, <1>3, <1>4, HolderStep DEF downloads
<1>8. FilesApart' /\ Written' /\ Deleted'
  BY <1>1, <1>2, <1>4, <1>7 DEF FilesApart, Written, Deleted
<1>9. AllSettled'
  <2>1. ASSUME NEW j \in Ids, j \notin cut' PROVE Settled(j)'
    <3>1. CASE j = i
      BY <1>2, <1>3, <1>5, <3>1 DEF Settled
    <3>2. CASE j # i
      BY <1>2, <1>5, <1>7, <2>1, <3>2 DEF Settled, Holds
    <3> QED
      BY <3>1, <3>2
  <2> QED
    BY <2>1 DEF AllSettled
<1> QED
  BY <1>2, <1>6, <1>7, <1>8, <1>9, NothingWritten DEF ImageInv, ShapeInv, downloads

-----------------------------------------------------------------------------
(* Faults *)

\* A Store or Remove that fails halfway leaves its id among the cut ones.
LEMMA CallFailsStep ==
    ASSUME ImageInv, NEW h \in Handlers, StoreFails(h) \/ RemoveFails(h) PROVE ImageInv'
<1>1. TypeOK /\ LockIsHeld /\ FilesApart /\ CallsShaped /\ Written /\ Deleted
  BY DEF ImageInv, ShapeInv
<1> DEFINE i == call[h].id
<1>2. /\ call[h].pc \in {"store", "write", "remove", "delete"} /\ lock \in {None, h}
      /\ lock' = None /\ Fault
      /\ cut' = IF call[h].pc \in {"write", "delete"} THEN cut \cup {i} ELSE cut
      /\ Goto(h, "end") \/ call' = [call EXCEPT ![h] = NoCall]
      /\ UNCHANGED <<storage, temp, downloads, requests, spoiled>>
  BY DEF StoreFails, RemoveFails, At
<1>3. i \in Ids
  BY <1>1, <1>2 DEF CallsShaped
<1>4. /\ call' \in [Handlers -> Calls] /\ call'[h].pc \in {"end", "idle"}
      /\ call'[h].pc = "end" => call'[h].id = i
      /\ \A g \in Handlers : g # h => call'[g] = call[g]
  <2>1. CASE Goto(h, "end")
    BY <1>1, <2>1, GotoFacts DEF CallSteps
  <2>2. CASE call' = [call EXCEPT ![h] = NoCall]
    BY <1>1, <2>2, Nowhere, ImageTypes DEF VarTypes
  <2> QED
    BY <1>2, <2>1, <2>2
<1>5. faults' \in 0 .. MaxFaults
  BY <1>1, <1>2, ImageTypes, ImageAssumption DEF Fault, VarTypes
<1>6. cut \subseteq cut' /\ cut' \subseteq Ids
  BY <1>1, <1>2, <1>3, ImageTypes DEF VarTypes
<1>7. TypeOK'
  BY <1>1, <1>2, <1>4, <1>5, <1>6, ImageTypes, GotStillFits DEF storage, downloads, VarTypes
<1>8. /\ LockIsHeld' /\ CallsShaped' /\ FetchesShaped'
      /\ \A g \in Handlers : g # h => call'[g].pc \notin {"write", "delete"}
      /\ Halfway \subseteq cut' /\ Halfway' = {}
      /\ \A j \in Ids : j \notin cut \cup Halfway => Settled(j)
  BY <1>2, <1>3, <1>4, HolderStep DEF downloads
<1>9. FilesApart' /\ Written' /\ Deleted'
  BY <1>1, <1>2, <1>4, <1>8 DEF FilesApart, Written, Deleted, storage
<1>10. AllSettled'
  BY <1>2, <1>6, <1>8 DEF AllSettled, Settled, Holds, storage
<1> QED
  BY <1>2, <1>7, <1>8, <1>9, <1>10, NothingWritten DEF ImageInv, ShapeInv, downloads, storage

\* A crash leaves what was halfway among the cut ones.
LEMMA CrashStep ==
    ASSUME ImageInv, Crash PROVE ImageInv'
<1>1. TypeOK /\ FilesApart /\ AllSettled /\ ImageIsWhole
  BY DEF ImageInv, ShapeInv
<1>2. /\ lock' = None /\ temp' = {} /\ Fault /\ cut' = cut \cup Halfway
      /\ call' = [h \in Handlers |-> NoCall] /\ fetch' = [x \in Instances |-> NoFetch]
      /\ UNCHANGED <<storage, image, fetches, requests, spoiled>>
  BY DEF Crash
<1>3. Halfway \subseteq Ids
  BY DEF ImageInv, ShapeInv, CallsShaped, Halfway
<1>4. /\ call' \in [Handlers -> Calls] /\ fetch' \in [Instances -> Fetches] /\ GotFits'
  BY <1>2, Nowhere DEF GotFits
<1>5. faults' \in 0 .. MaxFaults
  BY <1>1, <1>2, ImageTypes, ImageAssumption DEF Fault, VarTypes
<1>6. TypeOK'
  BY <1>1, <1>2, <1>3, <1>4, <1>5, ImageTypes DEF storage, VarTypes
<1>7. ShapeInv'
  BY <1>1, <1>2, Nowhere DEF ShapeInv, LockIsHeld, CallsShaped, FetchesShaped, FilesApart,
     Written, Deleted, storage
<1>8. AllSettled'
  BY <1>1, <1>2 DEF AllSettled, Settled, Holds, storage
<1>9. ReadsWhole' /\ ImageIsWhole'
  BY <1>1, <1>2, Nowhere DEF ReadsWhole, ImageIsWhole
<1> QED
  BY <1>6, <1>7, <1>8, <1>9 DEF ImageInv

-----------------------------------------------------------------------------
(* Downloads *)

\* A download changes nothing but itself, its image and its spoiling.
LEMMA DownloadOnly ==
    ASSUME ImageInv, NEW x \in Instances, NEW r \in Fetches, Len(r.got) <= Chunks,
           fetch' = [fetch EXCEPT ![x] = r],
           r.pc # "idle" => r.id \in Ids,
           IF r.pc = "read" THEN r.file \in Files ELSE r.file = None /\ r.got = <<>>,
           image' \in [Instances -> Pieces \cup {None}], fetches' \in 0 .. MaxFetches,
           faults' \in 0 .. MaxFaults, spoiled' \subseteq Instances,
           \A y \in Instances : y # x => image'[y] = image[y] /\ (y \in spoiled <=> y \in spoiled'),
           x \notin spoiled' /\ r.pc = "read" =>
              \E c \in Contents : /\ data[r.file] = [content |-> c, len |-> Chunks]
                                  /\ \A k \in 1 .. Len(r.got) : r.got[k] = <<c, k>>,
           x \notin spoiled' /\ image'[x] # None => \E c \in Contents : image'[x] = Whole(c),
           UNCHANGED <<storage, lock, temp, call, requests, cut>>
    PROVE  ImageInv'
<1>1. TypeOK /\ ShapeInv /\ AllSettled /\ ReadsWhole /\ ImageIsWhole
  BY DEF ImageInv
<1>2. /\ meta' = meta /\ dir' = dir /\ data' = data /\ lock' = lock /\ temp' = temp
      /\ call' = call /\ requests' = requests /\ cut' = cut
  BY DEF storage
<1>3. /\ fetch' \in [Instances -> Fetches] /\ fetch'[x] = r
      /\ \A y \in Instances : y # x => fetch'[y] = fetch[y]
  BY <1>1, ImageTypes DEF VarTypes
<1>4. GotFits'
  BY <1>1, <1>3, ImageTypes DEF VarTypes, GotFits
<1>5. TypeOK'
  BY <1>1, <1>2, <1>3, <1>4, ImageTypes DEF VarTypes
<1>6. FetchesShaped'
  BY <1>1, <1>3 DEF ShapeInv, FetchesShaped
<1>7. LockIsHeld' /\ CallsShaped' /\ FilesApart' /\ Written' /\ Deleted'
  BY <1>1, <1>2 DEF ShapeInv, LockIsHeld, CallsShaped, FilesApart, Written, Deleted
<1>8. AllSettled'
  BY <1>1, <1>2 DEF AllSettled, Settled, Holds, Halfway
<1>9. ReadsWhole'
  <2>1. ASSUME NEW y \in Instances, y \notin spoiled', fetch'[y].pc = "read"
        PROVE  \E c \in Contents : ReadsOf(y, c)'
    <3>1. CASE y = x
      BY <1>2, <1>3, <2>1, <3>1 DEF ReadsOf
    <3>2. CASE y # x
      <4>1. y \notin spoiled /\ fetch'[y] = fetch[y] /\ fetch[y].pc = "read"
        BY <1>3, <2>1, <3>2
      <4>2. PICK c \in Contents : ReadsOf(y, c)
        BY <1>1, <4>1 DEF ReadsWhole
      <4> QED
        BY <1>2, <4>1, <4>2, ReadsStay
    <3> QED
      BY <3>1, <3>2
  <2> QED
    BY <2>1 DEF ReadsWhole
<1>10. ImageIsWhole'
  <2>1. \A y \in Instances : y \notin spoiled' /\ image'[y] # None =>
           \E c \in Contents : image'[y] = Whole(c)
    BY <1>1 DEF ImageIsWhole
  <2>2. \A c : Whole(c)' = Whole(c)
    BY DEF Whole
  <2> QED
    BY <2>1, <2>2 DEF ImageIsWhole
<1> QED
  BY <1>5, <1>6, <1>7, <1>8, <1>9, <1>10 DEF ImageInv, ShapeInv

\* The types of what a download works on.
LEMMA FetchTypes ==
    ASSUME ImageInv, NEW x \in Instances
    PROVE  /\ fetch[x] \in Fetches /\ Len(fetch[x].got) <= Chunks
           /\ fetch[x].pc # "idle" => fetch[x].id \in Ids
           /\ IF fetch[x].pc = "read" THEN fetch[x].file \in Files
                                      ELSE fetch[x].file = None /\ fetch[x].got = <<>>
           /\ image \in [Instances -> Pieces \cup {None}] /\ spoiled \subseteq Instances
           /\ fetches \in 0 .. MaxFetches /\ faults \in 0 .. MaxFaults
           /\ image[x] # None /\ x \notin spoiled => \E c \in Contents : image[x] = Whole(c)
           /\ fetch[x].pc = "read" /\ x \notin spoiled => \E c \in Contents : ReadsOf(x, c)
BY ImageTypes DEF ImageInv, ShapeInv, FetchesShaped, GotFits, VarTypes, ReadsWhole, ImageIsWhole

\* A new download is not spoiled, and its instance has no image yet.
LEMMA FetchStep ==
    ASSUME ImageInv, NEW x \in Instances, NEW i \in Ids, Fetch(x, i) PROVE ImageInv'
<1> DEFINE r == [NoFetch EXCEPT !.pc = "exists", !.id = i]
<1>1. /\ fetch' = [fetch EXCEPT ![x] = r] /\ fetches < MaxFetches /\ fetches' = fetches + 1
      /\ image[x] = None /\ spoiled' = spoiled \ {x}
      /\ UNCHANGED <<storage, lock, temp, call, image, requests, faults, cut>>
  BY DEF Fetch
<1>2. /\ r \in Fetches /\ r.pc = "exists" /\ r.id \in Ids /\ r.file = None /\ r.got = <<>>
      /\ Len(r.got) <= Chunks
  <2>1. r.pc = "exists" /\ r.id = i /\ r.file = None /\ r.got = <<>> /\ Len(<<>>) <= Chunks
    BY Nowhere DEF NoFetch
  <2>2. NoFetch \in Fetches
    BY Nowhere
  <2> HIDE DEF NoFetch
  <2>3. r \in Fetches
    BY <2>2 DEF Fetches, FetchSteps, MaybeId
  <2> HIDE DEF r
  <2> QED
    BY <2>1, <2>3
<1>3. fetches' \in 0 .. MaxFetches
  BY <1>1, FetchTypes, ImageAssumption
<1> HIDE DEF r
<1> QED
  BY <1>1, <1>2, <1>3, FetchTypes, DownloadOnly

\* A download that finds no image, fails, or moves on to the retrieval.
LEMMA ExistsStep ==
    ASSUME ImageInv, NEW x \in Instances, Exists(x) PROVE ImageInv'
<1>1. PICK r : /\ r = NoFetch \/ r = [fetch[x] EXCEPT !.pc = "retrieve"]
               /\ fetch' = [fetch EXCEPT ![x] = r]
  <2>1. fetch \in [Instances -> Fetches]
    BY ImageTypes DEF ImageInv, VarTypes
  <2> QED
    BY <2>1 DEF Exists
<1>2. /\ fetch[x].pc = "exists"
      /\ UNCHANGED <<storage, lock, temp, call, image, fetches, requests, faults, cut, spoiled>>
  BY DEF Exists, FetchAt
<1>3. /\ r \in Fetches /\ r.pc \in {"idle", "retrieve"} /\ r.file = None /\ r.got = <<>>
      /\ Len(r.got) <= Chunks /\ r.pc # "idle" => r.id \in Ids
  <2>1. CASE r = NoFetch
    BY <2>1, Nowhere
  <2>2. CASE r = [fetch[x] EXCEPT !.pc = "retrieve"]
    BY <1>2, <2>2, FetchTypes, Nowhere DEF Fetches, FetchSteps
  <2> QED
    BY <1>1, <2>1, <2>2
<1> QED
  BY <1>1, <1>2, <1>3, FetchTypes, DownloadOnly

\* What is opened while nobody writes is whole, or known to be cut.
LEMMA RetrieveStep ==
    ASSUME ImageInv, NEW x \in Instances, Retrieve(x) PROVE ImageInv'
<1> DEFINE i == fetch[x].id
           found == meta[i] # None /\ dir[i] # None
           r == [fetch[x] EXCEPT !.pc = "read", !.file = dir[i]]
<1>1. /\ fetch[x].pc = "retrieve" /\ lock = None
      /\ spoiled' = IF found /\ i \in cut THEN spoiled \cup {x} ELSE spoiled
      /\ UNCHANGED <<storage, lock, temp, call, image, fetches, requests, faults, cut>>
  BY DEF Retrieve, FetchAt, MayRead
<1>2. fetch' = [fetch EXCEPT ![x] = IF found THEN r ELSE NoFetch]
  <2>1. fetch \in [Instances -> Fetches]
    BY ImageTypes DEF ImageInv, VarTypes
  <2> QED
    BY <2>1 DEF Retrieve
<1>3. i \in Ids /\ fetch[x].got = <<>>
  BY <1>1, FetchTypes
<1>4. CASE ~found
  <2>1. fetch' = [fetch EXCEPT ![x] = NoFetch] /\ spoiled' = spoiled
    BY <1>1, <1>2, <1>4
  <2> QED
    BY <1>1, <2>1, FetchTypes, Nowhere, DownloadOnly
<1>5. CASE found
  <2>1. dir[i] \in Files /\ meta[i] \in Contents
    BY <1>3, <1>5, ImageTypes DEF ImageInv, VarTypes, MaybeFile, MaybeContent
  <2>2. /\ r \in Fetches /\ r.pc = "read" /\ r.id \in Ids /\ r.file = dir[i] /\ r.got = <<>>
        /\ Len(r.got) <= Chunks
    BY <1>3, <2>1, FetchTypes, Nowhere DEF Fetches, FetchSteps, MaybeFile
  <2>3. x \notin spoiled' => data[dir[i]] = [content |-> meta[i], len |-> Chunks]
    <3>1. Halfway = {}
      BY <1>1, Nowhere DEF ImageInv, ShapeInv, LockIsHeld, Halfway
    <3>2. i \notin cut => Settled(i)
      BY <1>3, <3>1 DEF ImageInv, AllSettled
    <3> QED
      BY <1>1, <1>5, <3>2 DEF Settled, Holds
  <2>4. /\ spoiled' \subseteq Instances
        /\ \A y \in Instances : y # x => (y \in spoiled <=> y \in spoiled')
        /\ x \notin spoiled' => x \notin spoiled
    BY <1>1, FetchTypes
  <2>5. fetch' = [fetch EXCEPT ![x] = r]
    BY <1>2, <1>5
  <2> HIDE DEF r
  <2>6. \A k \in 1 .. Len(r.got) : r.got[k] = <<meta[i], k>>
    BY <2>2, Nowhere
  <2> QED
    BY <1>1, <2>1, <2>2, <2>3, <2>4, <2>5, <2>6, FetchTypes, DownloadOnly
<1> QED
  BY <1>4, <1>5

\* The next chunk of a whole file is the content's.
LEMMA ReadStep ==
    ASSUME ImageInv, NEW x \in Instances, Read(x) PROVE ImageInv'
<1> DEFINE f == data[fetch[x].file]
           k == Len(fetch[x].got) + 1
           r == [fetch[x] EXCEPT !.got = Append(@, <<f.content, k>>)]
<1>1. /\ fetch[x].pc = "read" /\ k <= f.len
      /\ UNCHANGED <<storage, lock, temp, call, image, fetches, requests, faults, cut, spoiled>>
  BY DEF Read, FetchAt
<1>2. fetch' = [fetch EXCEPT ![x] = r]
  BY DEF Read
<1>3. fetch[x].file \in Files /\ fetch[x] \in Fetches /\ fetch[x].got \in Pieces
  BY <1>1, FetchTypes DEF Fetches
<1>4. Len(fetch[x].got) \in Nat
  BY <1>3, LenProperties DEF Pieces
<1>5. f \in FileData /\ f.content \in Contents /\ k \in 1 .. Chunks
  <2>1. f \in FileData
    BY <1>3, ImageTypes DEF ImageInv, VarTypes
  <2>2. f.content # None
    BY <1>1, <1>3, <1>4, <2>1 DEF ImageInv, ShapeInv, FilesApart, FileData
  <2> QED
    BY <1>1, <1>4, <2>1, <2>2, Nowhere DEF FileData, MaybeContent
<1>6. /\ r.got \in Pieces /\ Len(r.got) = k /\ r.got[k] = <<f.content, k>>
      /\ \A j \in 1 .. Len(fetch[x].got) : r.got[j] = fetch[x].got[j]
  BY <1>3, <1>5, AppendProperties DEF Pieces, Fetches
<1>7. /\ r \in Fetches /\ r.pc = "read" /\ r.file = fetch[x].file /\ r.id = fetch[x].id
      /\ Len(r.got) <= Chunks
  <2>1. r.pc = fetch[x].pc /\ r.file = fetch[x].file /\ r.id = fetch[x].id
    BY <1>3 DEF Fetches
  <2>2. r \in Fetches
    <3> DEFINE g == Append(fetch[x].got, <<f.content, k>>)
    <3>1. g \in Pieces
      BY <1>3, <1>5, AppendProperties DEF Pieces
    <3>2. r = [fetch[x] EXCEPT !.got = g]
      BY <1>3 DEF Fetches
    <3> HIDE DEF g, r
    <3> QED
      BY <1>3, <3>1, <3>2 DEF Fetches
  <2> HIDE DEF r
  <2> QED
    BY <1>1, <1>5, <1>6, <2>1, <2>2
<1>8. x \notin spoiled =>
         \E c \in Contents : /\ data[r.file] = [content |-> c, len |-> Chunks]
                             /\ \A j \in 1 .. Len(r.got) : r.got[j] = <<c, j>>
  <2>1. ASSUME x \notin spoiled
        PROVE  \E c \in Contents : /\ data[r.file] = [content |-> c, len |-> Chunks]
                                   /\ \A j \in 1 .. Len(r.got) : r.got[j] = <<c, j>>
    <3>1. PICK c \in Contents : ReadsOf(x, c)
      BY <1>1, <2>1, FetchTypes
    <3>2. f = [content |-> c, len |-> Chunks] /\ f.content = c
      BY <3>1 DEF ReadsOf
    <3>3. \A j \in 1 .. Len(fetch[x].got) : fetch[x].got[j] = <<c, j>>
      BY <3>1 DEF ReadsOf
    <3>4. ASSUME NEW j \in 1 .. Len(r.got) PROVE r.got[j] = <<c, j>>
      <4>1. j = k \/ j \in 1 .. Len(fetch[x].got)
        BY <1>4, <1>6, <3>4
      <4> HIDE DEF r, f, k
      <4> QED
        BY <1>6, <3>2, <3>3, <4>1
    <3> HIDE DEF r
    <3> QED
      BY <1>7, <3>2, <3>4
  <2> QED
    BY <2>1
<1> HIDE DEF r
<1> QED
  BY <1>1, <1>2, <1>3, <1>7, <1>8, FetchTypes, DownloadOnly

\* Who reads a whole file to its end has the whole content.
LEMMA WholeAtTheEnd ==
    ASSUME ImageInv, NEW x \in Instances \ spoiled, fetch[x].pc = "read",
           Len(fetch[x].got) >= data[fetch[x].file].len
    PROVE  \E c \in Contents : data[fetch[x].file].content = c /\ fetch[x].got = Whole(c)
<1>1. fetch[x].got \in Pieces /\ Len(fetch[x].got) \in Nat /\ Len(fetch[x].got) <= Chunks
  <2>1. fetch[x].got \in Pieces /\ Len(fetch[x].got) <= Chunks
    BY FetchTypes DEF Fetches
  <2> QED
    BY <2>1, LenProperties DEF Pieces
<1>2. PICK c \in Contents : ReadsOf(x, c)
  BY FetchTypes
<1>3. data[fetch[x].file].content = c /\ Len(fetch[x].got) = Chunks
  <2>1. data[fetch[x].file].content = c /\ data[fetch[x].file].len = Chunks
    BY <1>2 DEF ReadsOf
  <2> QED
    BY <1>1, <2>1, Nowhere
<1>4. \A k \in 1 .. Chunks : fetch[x].got[k] = <<c, k>>
  BY <1>2, <1>3 DEF ReadsOf
<1>5. fetch[x].got = [k \in 1 .. Chunks |-> fetch[x].got[k]]
  <2>1. fetch[x].got \in [1 .. Len(fetch[x].got) -> Contents \X (1 .. Chunks)]
    BY <1>1, LenProperties DEF Pieces
  <2> QED
    BY <1>3, <2>1
<1> QED
  BY <1>3, <1>4, <1>5 DEF Whole

\* The last chunk read was the file's last.
LEMMA FinalizeStep ==
    ASSUME ImageInv, NEW x \in Instances, Finalize(x) PROVE ImageInv'
<1>1. /\ fetch[x].pc = "read" /\ Len(fetch[x].got) >= data[fetch[x].file].len
      /\ image' = [image EXCEPT ![x] = fetch[x].got]
      /\ fetch' = [fetch EXCEPT ![x] = NoFetch]
      /\ UNCHANGED <<storage, lock, temp, call, fetches, requests, faults, cut, spoiled>>
  BY DEF Finalize, FetchAt
<1>2. fetch[x].got \in Pieces
  BY FetchTypes DEF Fetches
<1>3. /\ image' \in [Instances -> Pieces \cup {None}] /\ image'[x] = fetch[x].got
      /\ \A y \in Instances : y # x => image'[y] = image[y]
  BY <1>1, <1>2, FetchTypes
<1>4. x \notin spoiled => \E c \in Contents : image'[x] = Whole(c)
  BY <1>1, <1>3, WholeAtTheEnd
<1>5. /\ NoFetch \in Fetches /\ NoFetch.pc = "idle" /\ NoFetch.file = None
      /\ NoFetch.got = <<>> /\ Len(NoFetch.got) <= Chunks
  BY Nowhere
<1>6. /\ fetches' \in 0 .. MaxFetches /\ faults' \in 0 .. MaxFaults /\ spoiled' = spoiled
      /\ spoiled' \subseteq Instances
  BY <1>1, FetchTypes
<1>7. UNCHANGED <<storage, lock, temp, call, requests, cut>>
  BY <1>1
<1> QED
  BY <1>1, <1>3, <1>4, <1>5, <1>6, <1>7, DownloadOnly

\* A broken stream leaves the instance's image as it was.
LEMMA DropStep ==
    ASSUME ImageInv, NEW x \in Instances, Discard(x) \/ FetchFails(x) PROVE ImageInv'
<1>1. CASE Discard(x)
  <2>1. /\ image' = [image EXCEPT ![x] = None]
        /\ UNCHANGED <<storage, lock, temp, call, fetch, fetches, requests, faults, cut, spoiled>>
    BY <1>1 DEF Discard
  <2>2. fetch' = [fetch EXCEPT ![x] = fetch[x]]
    BY <2>1, ImageTypes DEF ImageInv, VarTypes
  <2>3. /\ image' \in [Instances -> Pieces \cup {None}] /\ image'[x] = None
        /\ \A y \in Instances : y # x => image'[y] = image[y]
    BY <2>1, FetchTypes
  <2>4. x \notin spoiled /\ fetch[x].pc = "read" =>
           \E c \in Contents : /\ data[fetch[x].file] = [content |-> c, len |-> Chunks]
                               /\ \A k \in 1 .. Len(fetch[x].got) : fetch[x].got[k] = <<c, k>>
    BY FetchTypes DEF ReadsOf
  <2> QED
    BY <2>1, <2>2, <2>3, <2>4, FetchTypes, DownloadOnly
<1>2. CASE FetchFails(x)
  <2>1. /\ fetch' = [fetch EXCEPT ![x] = NoFetch] /\ Fault
        /\ UNCHANGED <<storage, lock, temp, call, image, fetches, requests, cut, spoiled>>
    BY <1>2 DEF FetchFails, DropImage
  <2>2. faults' \in 0 .. MaxFaults
    BY <2>1, FetchTypes, ImageAssumption DEF Fault
  <2>3. /\ NoFetch \in Fetches /\ NoFetch.pc = "idle" /\ NoFetch.file = None
        /\ NoFetch.got = <<>> /\ Len(NoFetch.got) <= Chunks
    BY Nowhere
  <2>4. /\ fetches' \in 0 .. MaxFetches /\ spoiled' = spoiled /\ spoiled' \subseteq Instances
        /\ image' = image /\ image' \in [Instances -> Pieces \cup {None}]
        /\ image[x] # None /\ x \notin spoiled => \E c \in Contents : image[x] = Whole(c)
    BY <2>1, FetchTypes
  <2>5. UNCHANGED <<storage, lock, temp, call, requests, cut>>
    BY <2>1
  <2> QED
    BY <2>1, <2>2, <2>3, <2>4, <2>5, DownloadOnly
<1> QED
  BY <1>1, <1>2

-----------------------------------------------------------------------------
\* Every step preserves the invariant.
LEMMA ImageNext ==
    ASSUME ImageInv, [Next]_vars PROVE ImageInv'
<1>1. ASSUME NEW h \in Handlers,
             Request(h) \/ Uploading(h) \/ Removing(h) \/ StoreFails(h) \/ RemoveFails(h)
      PROVE  ImageInv'
  BY <1>1, RequestStep, QuietCallStep, StoreCreateStep, StoreWriteStep, StoreCommitStep,
     RemoveFileStep, RemoveMetaStep, CallFailsStep DEF Uploading, Removing
<1>2. ASSUME NEW x \in Instances,
             \/ Fetching(x) \/ Discard(x) \/ FetchFails(x)
             \/ \E i \in Ids : Fetch(x, i)
      PROVE  ImageInv'
  BY <1>2, ExistsStep, RetrieveStep, ReadStep, FinalizeStep, DropStep, FetchStep DEF Fetching
<1>3. CASE UNCHANGED vars
  <2>1. /\ meta' = meta /\ dir' = dir /\ data' = data /\ lock' = lock /\ temp' = temp
        /\ call' = call /\ fetch' = fetch /\ image' = image /\ requests' = requests
        /\ fetches' = fetches /\ faults' = faults /\ cut' = cut /\ spoiled' = spoiled
    BY <1>3 DEF vars
  <2>2. TypeOK'
    BY <2>1, ImageTypes, GotStillFits DEF ImageInv, VarTypes
  <2>3. ShapeInv'
    BY <2>1 DEF ImageInv, ShapeInv, LockIsHeld, CallsShaped, FetchesShaped, FilesApart,
       Written, Deleted
  <2>4. AllSettled'
    BY <2>1 DEF ImageInv, AllSettled, Settled, Holds, Halfway
  <2> QED
    BY <2>1, <2>2, <2>3, <2>4, NothingWritten DEF ImageInv
<1> QED
  BY <1>1, <1>2, <1>3, CrashStep DEF Next

\* One call at a time changes the storage, every image but the one it works on
\* has its file, and a download reads a whole file unless it was overwritten.
THEOREM ImageInvariant == Spec => []ImageInv
BY ImageInit, ImageNext, PTL DEF Spec

\* The variables of registry and downloads keep their types.
THEOREM ImageTypeCorrect == Spec => []TypeOK
BY ImageInvariant, PTL DEF ImageInv

\* However many uploads, removals, failures and crashes there were, an image
\* whose last Store or Remove finished has the file its metadata describes.
THEOREM ImageStoredIsWhole == Spec => []StoredIsWhole
<1>1. ImageInv => StoredIsWhole
  <2>1. ASSUME ImageInv, lock = None PROVE Halfway = {}
    BY <2>1, Nowhere DEF ImageInv, ShapeInv, LockIsHeld, Halfway
  <2> QED
    BY <2>1 DEF ImageInv, AllSettled, Settled, StoredIsWhole
<1> QED
  BY <1>1, ImageInvariant, PTL

\* An instance's image is a whole content, however long it is and whatever ran
\* beside the download, unless the file was cut or overwritten.
THEOREM ImageAlwaysWhole == Spec => []ImageIsWhole
BY ImageInvariant, PTL DEF ImageInv

-----------------------------------------------------------------------------
\* Only the comparison of the hashes skips an upload.
LEMMA SkipCompares ==
    ASSUME ImageInv, [Next]_vars, NEW h \in Handlers, Skips(h) PROVE Compare(h)
<1>1. /\ call[h].pc = "compare" /\ call'[h].pc = "end" /\ call \in [Handlers -> Calls]
  BY ImageTypes DEF Skips, At, ImageInv, VarTypes
<1>2. call' # call
  BY <1>1
<1>3. ~Crash
  BY <1>1, Nowhere DEF Crash
<1>4. ASSUME NEW x \in Instances PROVE ~(Fetching(x) \/ Discard(x) \/ FetchFails(x)
                                         \/ \E i \in Ids : Fetch(x, i))
  BY <1>2 DEF Fetching, Exists, Retrieve, Read, Finalize, Discard, FetchFails, Fetch
<1>5. PICK g \in Handlers :
         Request(g) \/ Uploading(g) \/ Removing(g) \/ StoreFails(g) \/ RemoveFails(g)
  BY <1>2, <1>3, <1>4 DEF Next, vars
<1>6. CASE g # h
  <2>1. \E r, pc : call' = [call EXCEPT ![g] = r] \/ Goto(g, pc) \/ call' = call
    BY <1>5 DEF Request, Upload, Remove, Uploading, Receive, Compare, StoreCreate, StoreWrite,
       StoreCommit, UploadEnd, Removing, RemoveFile, RemoveMeta, StoreFails, RemoveFails
  <2>2. call'[h] = call[h]
    BY <1>1, <1>6, <2>1 DEF Goto
  <2> QED
    BY <1>1, <2>2
<1>7. CASE g = h
  BY <1>1, <1>5, <1>7 DEF Request, Upload, Remove, Uploading, Receive, StoreCreate, StoreWrite,
     StoreCommit, UploadEnd, Removing, RemoveFile, RemoveMeta, StoreFails, RemoveFails, At
<1> QED
  BY <1>6, <1>7

\* An upload that is skipped finds its content stored (UploadImage), unless the
\* last Store or Remove of that image did not finish: the comparison waits for
\* the mutex, whoever holds it.
THEOREM ImageSkipsExisting == Spec => SkippedExistsUncut
<1> DEFINE Justified ==
        \A h \in Handlers : Skips(h) => (\/ Holds(call[h].id, call[h].content)
                                         \/ call[h].id \in cut)
<1>1. ImageInv /\ [Next]_vars => [Justified]_vars
  <2>1. ASSUME ImageInv, [Next]_vars, NEW h \in Handlers, Skips(h)
        PROVE  Holds(call[h].id, call[h].content) \/ call[h].id \in cut
    <3>1. /\ call[h].pc = "compare" /\ call'[h].pc = "end" /\ lock = None
          /\ Goto(h, IF meta[call[h].id] = call[h].content THEN "end" ELSE "store")
      BY <2>1, SkipCompares DEF Compare, Skips, At, MayRead
    <3>2. call[h].id \in Ids /\ call[h].content \in Contents
      BY <2>1, <3>1 DEF ImageInv, ShapeInv, CallsShaped
    <3>3. meta[call[h].id] = call[h].content
      <4>1. TypeOK
        BY <2>1 DEF ImageInv
      <4>2. CASE meta[call[h].id] # call[h].content
        <5>1. Goto(h, "store")
          BY <3>1, <4>2
        <5>2. call'[h].pc = "store"
          BY <4>1, <5>1, GotoFacts DEF CallSteps
        <5> QED
          BY <3>1, <5>2
      <4> QED
        BY <4>2
    <3>4. Halfway = {}
      BY <2>1, <3>1, Nowhere DEF ImageInv, ShapeInv, LockIsHeld, Halfway
    <3>5. call[h].id \notin cut => Settled(call[h].id)
      BY <2>1, <3>2, <3>4 DEF ImageInv, AllSettled
    <3> QED
      BY <3>2, <3>3, <3>5, Nowhere DEF Settled
  <2> QED
    BY <2>1
<1> QED
  BY <1>1, ImageInvariant, PTL DEF Spec, SkippedExistsUncut

-----------------------------------------------------------------------------
(* Temporary files *)

\* A call of UploadImage between its first chunk and its clean-up.
IsUpload(r) == r.pc \in {"receive", "compare", "store", "write", "end"}

\* Every temporary file is that of one upload under way, and each such upload
\* has one: two uploads of an image never run together (UploadImage), and none
\* that has ended, whatever its outcome, keeps the next one out.
TempIsOwned ==
    /\ \A h \in Handlers : IsUpload(call[h]) => call[h].id \in temp
    /\ \A i \in temp : \E h \in Handlers : IsUpload(call[h]) /\ call[h].id = i
    /\ \A g, h \in Handlers :
          IsUpload(call[g]) /\ IsUpload(call[h]) /\ call[g].id = call[h].id => g = h

\* An upload that goes on keeps its file, whatever else is called.
LEMMA OwnerStays ==
    ASSUME TempIsOwned, NEW h \in Handlers, temp' = temp,
           \A g \in Handlers : g # h => call'[g] = call[g],
           IsUpload(call'[h]) <=> IsUpload(call[h]),
           IsUpload(call[h]) => call'[h].id = call[h].id
    PROVE  TempIsOwned'
<1>1. \A g \in Handlers : /\ IsUpload(call'[g]) <=> IsUpload(call[g])
                          /\ IsUpload(call[g]) => call'[g].id = call[g].id
  OBVIOUS
<1> QED
  BY <1>1 DEF TempIsOwned, IsUpload

\* The first chunk takes the file, the clean-up gives it back.
LEMMA OwnerNext ==
    ASSUME ImageInv, TempIsOwned, [Next]_vars PROVE TempIsOwned'
<1>1. TypeOK /\ call \in [Handlers -> Calls]
  BY ImageTypes DEF ImageInv, VarTypes
<1>2. ASSUME NEW h \in Handlers, NEW i \in Ids, NEW c \in Contents, Upload(h, i, c)
      PROVE  TempIsOwned'
  <2>1. /\ i \notin temp /\ temp' = temp \cup {i} /\ ~IsUpload(call[h])
        /\ IsUpload(call'[h]) /\ call'[h].id = i
        /\ \A g \in Handlers : g # h => call'[g] = call[g]
    BY <1>1, <1>2 DEF Upload, At, IsUpload
  <2>2. \A g \in Handlers : g # h /\ IsUpload(call'[g]) => call'[g].id \in temp
    BY <2>1 DEF TempIsOwned
  <2> QED
    BY <2>1, <2>2 DEF TempIsOwned, IsUpload
<1>3. ASSUME NEW h \in Handlers, UploadEnd(h) PROVE TempIsOwned'
  <2>1. /\ temp' = temp \ {call[h].id} /\ IsUpload(call[h]) /\ ~IsUpload(call'[h])
        /\ \A g \in Handlers : g # h => call'[g] = call[g]
    BY <1>1, <1>3, Nowhere DEF UploadEnd, At, DropTemp, IsUpload
  <2> QED
    BY <2>1 DEF TempIsOwned, IsUpload
<1>4. ASSUME NEW h \in Handlers,
             \/ Receive(h) \/ Compare(h) \/ StoreCreate(h) \/ StoreCommit(h) \/ StoreFails(h)
      PROVE  TempIsOwned'
  <2>1. /\ IsUpload(call[h]) /\ temp' = temp
        /\ \E pc \in {"compare", "store", "write", "end"} : Goto(h, pc)
    BY <1>4 DEF Receive, Compare, StoreCreate, StoreCommit, StoreFails, At, IsUpload
  <2>2. PICK pc \in {"compare", "store", "write", "end"} : Goto(h, pc)
    BY <2>1
  <2>3. /\ call'[h].pc = pc /\ call'[h].id = call[h].id
        /\ \A g \in Handlers : g # h => call'[g] = call[g]
    BY <1>1, <2>2, GotoFacts DEF CallSteps
  <2> QED
    BY <2>1, <2>3, OwnerStays DEF IsUpload
<1>5. ASSUME NEW h \in Handlers,
             \/ \E i \in Ids : Remove(h, i)
             \/ RemoveFile(h) \/ RemoveMeta(h) \/ RemoveFails(h)
      PROVE  TempIsOwned'
  <2>1. /\ call[h].pc \in {"idle", "remove", "delete"} /\ temp' = temp
        /\ \/ \E i \in Ids :
                 call' = [call EXCEPT ![h] = [pc |-> "remove", id |-> i, content |-> None]]
           \/ Goto(h, "delete") \/ call' = [call EXCEPT ![h] = NoCall]
    BY <1>5 DEF Remove, RemoveFile, RemoveMeta, RemoveFails, At
  <2>2. /\ call'[h].pc \in {"idle", "remove", "delete"}
        /\ \A g \in Handlers : g # h => call'[g] = call[g]
    <3>1. CASE Goto(h, "delete")
      BY <1>1, <3>1, GotoFacts DEF CallSteps
    <3>2. CASE ~Goto(h, "delete")
      BY <1>1, <2>1, <3>2, Nowhere
    <3> QED
      BY <3>1, <3>2
  <2> QED
    BY <2>1, <2>2, OwnerStays DEF IsUpload
<1>6. CASE Crash
  BY <1>6, Nowhere DEF Crash, TempIsOwned, IsUpload
<1>7. ASSUME UNCHANGED <<temp, call>> PROVE TempIsOwned'
  BY <1>7 DEF TempIsOwned, IsUpload
<1>8. ASSUME NEW x \in Instances,
             Fetching(x) \/ Discard(x) \/ FetchFails(x) \/ \E i \in Ids : Fetch(x, i)
      PROVE  UNCHANGED <<temp, call>>
  BY <1>8 DEF Fetching, Exists, Retrieve, Read, Finalize, Discard, FetchFails, Fetch
<1>9. ASSUME NEW h \in Handlers, StoreWrite(h) PROVE UNCHANGED <<temp, call>>
  BY <1>9 DEF StoreWrite
<1>10. UNCHANGED vars => UNCHANGED <<temp, call>>
  BY DEF vars
<1>11. CASE \E h \in Handlers : Request(h) \/ Uploading(h) \/ Removing(h)
                                \/ StoreFails(h) \/ RemoveFails(h)
  BY <1>2, <1>3, <1>4, <1>5, <1>7, <1>9, <1>11 DEF Request, Uploading, Removing
<1> QED
  BY <1>6, <1>7, <1>8, <1>10, <1>11 DEF Next

\* The temporary file is a lock of its image (UploadImage): it excludes a second
\* upload, and there is none without an upload that will remove it.
THEOREM ImageTempIsOwned == Spec => []TempIsOwned
<1>1. Init => TempIsOwned
  BY Nowhere DEF Init, TempIsOwned, IsUpload
<1> QED
  BY <1>1, OwnerNext, ImageInvariant, PTL DEF Spec

-----------------------------------------------------------------------------
(* The registry as its users see it *)

\* Nothing spoils a download before it opens a file, and what reads an image's
\* file is a download of that image.
ReadersKnown ==
    \A x \in Instances :
        /\ fetch[x].pc \in {"exists", "retrieve"} => x \notin spoiled
        /\ \A i \in Ids : fetch[x].pc = "read" /\ dir[i] = fetch[x].file => i = fetch[x].id

RegistryInv == ImageInv /\ ReadersKnown

\* What the users see, and a step they do not see.
seen == <<meta, cut, Opened, Kept>>
Unseen == UNCHANGED seen

\* Stores and removals leave downloads of known files alone.
LEMMA ReadersStay ==
    ASSUME ReadersKnown, UNCHANGED <<fetch, spoiled>>,
           \A i \in Ids : dir'[i] = None \/ dir'[i] = dir[i],
           \A x \in Instances : fetch[x].pc = "read" => fetch[x].file # None
    PROVE  ReadersKnown'
BY DEF ReadersKnown

\* A step of one download.
LEMMA ReadersMove ==
    ASSUME ImageInv, ReadersKnown, NEW x \in Instances, NEW r, fetch' = [fetch EXCEPT ![x] = r],
           UNCHANGED dir, \A y \in Instances : y # x => (y \in spoiled' => y \in spoiled),
           r.pc \in {"exists", "retrieve"} => x \notin spoiled',
           r.pc = "read" => \A i \in Ids : dir[i] = r.file => i = r.id
    PROVE  ReadersKnown'
<1>1. /\ fetch'[x] = r
      /\ \A y \in Instances : y # x => fetch'[y] = fetch[y]
  BY ImageTypes DEF ImageInv, VarTypes
<1>2. ASSUME NEW y \in Instances
      PROVE  /\ fetch'[y].pc \in {"exists", "retrieve"} => y \notin spoiled'
             /\ \A i \in Ids : fetch'[y].pc = "read" /\ dir'[i] = fetch'[y].file
                                  => i = fetch'[y].id
  <2>1. CASE y = x
    BY <1>1, <2>1
  <2>2. CASE y # x
    BY <1>1, <2>2 DEF ReadersKnown
  <2> QED
    BY <2>1, <2>2
<1> QED
  BY <1>2 DEF ReadersKnown

\* The readers stay known.
LEMMA ReadersStep ==
    ASSUME RegistryInv, Next PROVE ReadersKnown'
<1>1. ImageInv /\ ReadersKnown /\ TypeOK /\ FetchesShaped
  BY DEF RegistryInv, ImageInv, ShapeInv
<1>2. fetch \in [Instances -> Fetches] /\ dir \in [Ids -> MaybeFile]
  BY <1>1, ImageTypes DEF VarTypes
<1>3. \A x \in Instances : fetch[x].pc = "read" => fetch[x].file # None
  BY <1>1, Nowhere DEF FetchesShaped
<1>4. ASSUME NEW h \in Handlers,
             \/ Request(h) \/ Receive(h) \/ Compare(h) \/ StoreWrite(h) \/ StoreCommit(h)
             \/ UploadEnd(h) \/ RemoveMeta(h) \/ StoreFails(h) \/ RemoveFails(h)
      PROVE  ReadersKnown'
  <2>1. UNCHANGED <<dir, fetch, spoiled>>
    BY <1>4 DEF Request, Remove, Upload, Receive, Compare, StoreWrite, StoreCommit, UploadEnd,
       RemoveMeta, StoreFails, RemoveFails, storage, downloads
  <2> QED
    BY <1>1, <1>3, <2>1, ReadersStay
<1>5. ASSUME NEW h \in Handlers, RemoveFile(h) PROVE ReadersKnown'
  <2>1. /\ UNCHANGED <<fetch, spoiled>>
        /\ dir' = [dir EXCEPT ![call[h].id] = None] \/ dir' = dir
    BY <1>5 DEF RemoveFile, downloads
  <2>2. \A i \in Ids : dir'[i] = None \/ dir'[i] = dir[i]
    BY <1>2, <2>1
  <2> QED
    BY <1>1, <1>3, <2>1, <2>2, ReadersStay
<1>6. ASSUME NEW h \in Handlers, StoreCreate(h) PROVE ReadersKnown'
  <2>1. PICK f \in Files :
           /\ dir' = [dir EXCEPT ![call[h].id] = f] /\ spoiled' = spoiled \cup ReadersOf(f)
           /\ f = dir[call[h].id] \/ \A x \in Instances : fetch[x].file # f
    BY <1>1, <1>6, FileChosen
  <2>2. fetch' = fetch
    BY <1>6 DEF StoreCreate, downloads
  <2>3. \A i \in Ids : dir'[i] = dir[i] \/ \A x \in Instances : fetch[x].file # dir'[i]
    BY <1>2, <2>1
  <2>4. \A x \in ReadersOf(f) : fetch[x].pc = "read"
    BY DEF ReadersOf, FetchAt
  <2> QED
    BY <1>1, <2>1, <2>2, <2>3, <2>4 DEF ReadersKnown
<1>7. ASSUME NEW x \in Instances, NEW i \in Ids, Fetch(x, i) PROVE ReadersKnown'
  <2> DEFINE r == [NoFetch EXCEPT !.pc = "exists", !.id = i]
  <2>1. r.pc = "exists"
    BY DEF NoFetch
  <2>2. fetch' = [fetch EXCEPT ![x] = r] /\ spoiled' = spoiled \ {x} /\ dir' = dir
    BY <1>7 DEF Fetch, storage
  <2> HIDE DEF r
  <2> QED
    BY <1>1, <2>1, <2>2, ReadersMove
<1>8. ASSUME NEW x \in Instances, Exists(x) PROVE ReadersKnown'
  <2>1. PICK r : /\ r = NoFetch \/ r = [fetch[x] EXCEPT !.pc = "retrieve"]
                 /\ fetch' = [fetch EXCEPT ![x] = r]
    BY <1>2, <1>8 DEF Exists
  <2>2. fetch[x].pc = "exists" /\ dir' = dir /\ spoiled' = spoiled
    BY <1>8 DEF Exists, FetchAt, storage
  <2>3. r.pc \in {"idle", "retrieve"} /\ x \notin spoiled
    BY <1>1, <1>2, <2>1, <2>2, Nowhere DEF Fetches, ReadersKnown
  <2> QED
    BY <1>1, <2>1, <2>2, <2>3, ReadersMove
<1>9. ASSUME NEW x \in Instances, Retrieve(x) PROVE ReadersKnown'
  <2>1. PICK r : /\ r = NoFetch
                    \/ /\ r = [fetch[x] EXCEPT !.pc = "read", !.file = dir[fetch[x].id]]
                       /\ dir[fetch[x].id] # None
                 /\ fetch' = [fetch EXCEPT ![x] = r]
    BY <1>2, <1>9 DEF Retrieve
  <2>2. /\ fetch[x].pc = "retrieve" /\ dir' = dir
        /\ \A y \in Instances : y # x => (y \in spoiled' => y \in spoiled)
    BY <1>9 DEF Retrieve, FetchAt, storage
  <2>3. fetch[x].id \in Ids
    BY <1>1, <2>2 DEF FetchesShaped
  <2>4. /\ r.pc \in {"idle", "read"}
        /\ r.pc = "read" => \A i \in Ids : dir[i] = r.file => i = r.id
    <3>1. CASE r = NoFetch
      BY <3>1, Nowhere
    <3>2. CASE r = [fetch[x] EXCEPT !.pc = "read", !.file = dir[fetch[x].id]]
               /\ dir[fetch[x].id] # None
      <4>1. r.pc = "read" /\ r.file = dir[fetch[x].id] /\ r.id = fetch[x].id
        BY <1>2, <3>2 DEF Fetches
      <4> QED
        BY <1>1, <2>3, <3>2, <4>1 DEF ImageInv, ShapeInv, FilesApart
    <3> QED
      BY <2>1, <3>1, <3>2
  <2> QED
    BY <1>1, <2>1, <2>2, <2>4, ReadersMove
<1>10. ASSUME NEW x \in Instances, Read(x) PROVE ReadersKnown'
  <2>1. PICK g : fetch' = [fetch EXCEPT ![x] = [@ EXCEPT !.got = g]]
    BY <1>2, <1>10 DEF Read
  <2> DEFINE r == [fetch[x] EXCEPT !.got = g]
  <2>2. r.pc = fetch[x].pc /\ r.file = fetch[x].file /\ r.id = fetch[x].id
    BY <1>2 DEF Fetches
  <2>3. fetch[x].pc = "read" /\ dir' = dir /\ spoiled' = spoiled
    BY <1>10 DEF Read, FetchAt, storage
  <2>4. fetch' = [fetch EXCEPT ![x] = r]
    BY <2>1
  <2>5. \A i \in Ids : dir[i] = r.file => i = r.id
    BY <1>1, <2>2, <2>3 DEF ReadersKnown
  <2> HIDE DEF r
  <2> QED
    BY <1>1, <2>2, <2>3, <2>4, <2>5, ReadersMove
<1>11. ASSUME NEW x \in Instances, Finalize(x) \/ FetchFails(x) PROVE ReadersKnown'
  <2>1. fetch' = [fetch EXCEPT ![x] = NoFetch] /\ dir' = dir /\ spoiled' = spoiled
    BY <1>11 DEF Finalize, FetchFails, storage
  <2> QED
    BY <1>1, <2>1, Nowhere, ReadersMove
<1>12. ASSUME NEW x \in Instances, Discard(x) PROVE ReadersKnown'
  <2>1. UNCHANGED <<dir, fetch, spoiled>>
    BY <1>12 DEF Discard, storage
  <2> QED
    BY <1>1, <1>3, <2>1, ReadersStay
<1>13. CASE Crash
  <2>1. \A x \in Instances : fetch'[x].pc = "idle"
    BY <1>13, Nowhere DEF Crash
  <2> QED
    BY <2>1 DEF ReadersKnown
<1> QED
  BY <1>4, <1>5, <1>6, <1>7, <1>8, <1>9, <1>10, <1>11, <1>12, <1>13
     DEF Next, Uploading, Removing, Fetching

\* The invariant, of every reachable state.
LEMMA RegistryInvariant == Spec => []RegistryInv
<1>1. Init => RegistryInv
  <2>1. Init => ReadersKnown
    BY Nowhere DEF Init, ReadersKnown
  <2> QED
    BY <2>1, ImageInit DEF RegistryInv
<1>2. RegistryInv /\ [Next]_vars => ReadersKnown'
  <2>1. RegistryInv /\ UNCHANGED vars => ReadersKnown'
    BY DEF RegistryInv, ReadersKnown, vars, storage
  <2> QED
    BY <2>1, ReadersStep
<1> QED
  BY <1>1, <1>2, ImageInvariant, PTL DEF Spec, RegistryInv

\* What a user makes of an instance's image file.
Value(p) == IF p = None THEN None
            ELSE IF \E c \in Contents : p = Whole(c)
              THEN CHOOSE c \in Contents : p = Whole(c)
              ELSE "torn"

\* The chunks of a whole content name it.
LEMMA WholeValue ==
    /\ \A c \in Contents : Value(Whole(c)) = c
    /\ \A p \in Pieces : Value(p) \in Contents \cup {"torn"}
    /\ Value(None) = None
<1>1. \A c \in Contents : Whole(c) \in Pieces
  <2>1. ASSUME NEW c \in Contents PROVE Whole(c) \in Pieces
    <3>1. Whole(c) \in [1 .. Chunks -> Contents \X (1 .. Chunks)]
      BY DEF Whole
    <3> QED
      BY <3>1, Nowhere, IsASeq DEF Pieces, Whole
  <2> QED
    BY <2>1
<1>2. None \notin Pieces
  BY ImageAssumption DEF Pieces
<1>3. \A c, d \in Contents : Whole(c) = Whole(d) => c = d
  <2>1. 1 \in 1 .. Chunks
    BY Nowhere
  <2>2. \A c : Whole(c)[1] = <<c, 1>>
    BY <2>1 DEF Whole
  <2>3. \A c, d : <<c, 1>> = <<d, 1>> => c = d
    OBVIOUS
  <2> HIDE DEF Whole
  <2> QED
    BY <2>2, <2>3
<1>4. \A p \in Pieces : p # None
  BY <1>2
<1> HIDE DEF Whole
<1> QED
  BY <1>1, <1>3, <1>4 DEF Value

\* The file is as good as what it is known for.
LEMMA KeptIs == /\ Kept = [x \in Instances |-> Value(image[x])]
                /\ Kept' = [x \in Instances |-> Value(image'[x])]
<1>1. Kept = [x \in Instances |-> Value(image[x])]
  BY DEF Kept, Value
<1>2. Kept' = [x \in Instances |-> Value(image'[x])]
  BY DEF Kept, Value, Whole
<1> QED
  BY <1>1, <1>2

\* What one download has open.
Sight(r, torn) == IF r.pc # "read" THEN [id |-> None, content |-> None]
                  ELSE [id |-> r.id, content |-> IF torn THEN "torn" ELSE data[r.file].content]

\* What all of them have, now and after a step.
LEMMA OpenedIs ==
    /\ Opened = [x \in Instances |-> Sight(fetch[x], x \in spoiled)]
    /\ Opened' = [x \in Instances |-> Sight(fetch[x], x \in spoiled)']
BY DEF Opened, Sight, FetchAt

\* Nobody sees a step that changes no record, no open file and no image.
LEMMA SeenStays ==
    ASSUME UNCHANGED <<fetch, spoiled>>,
           \A x \in Instances : fetch[x].pc = "read" /\ x \notin spoiled
              => data'[fetch[x].file].content = data[fetch[x].file].content
    PROVE  Opened' = Opened
BY OpenedIs DEF Sight

\* Requests, comparisons, chunks and clean-ups are not seen.
LEMMA CallsUnseen ==
    ASSUME ImageInv, NEW h \in Handlers,
           \/ Request(h) \/ Receive(h) \/ Compare(h) \/ UploadEnd(h) \/ RemoveFile(h)
           \/ StoreWrite(h)
    PROVE  Unseen
<1>1. UNCHANGED <<meta, cut, fetch, image, spoiled>>
  BY DEF Request, Remove, Upload, Receive, Compare, UploadEnd, RemoveFile, StoreWrite,
     storage, downloads
<1>2. \A f \in Files : data'[f].content = data[f].content
  <2>1. CASE data' = data
    BY <2>1
  <2>2. CASE StoreWrite(h)
    <3>1. PICK f, n : data' = [data EXCEPT ![f].len = n]
      BY <2>2 DEF StoreWrite
    <3>2. data \in [Files -> FileData]
      BY ImageTypes DEF ImageInv, VarTypes
    <3> QED
      BY <3>1, <3>2 DEF FileData
  <2> QED
    BY <2>1, <2>2 DEF Request, Remove, Upload, Receive, Compare, UploadEnd, RemoveFile, storage
<1>3. \A x \in Instances : fetch[x].pc = "read" => fetch[x].file \in Files
  BY DEF ImageInv, ShapeInv, FetchesShaped
<1>4. Opened' = Opened
  BY <1>1, <1>2, <1>3, SeenStays
<1>5. Kept' = Kept
  BY <1>1, KeptIs
<1> QED
  BY <1>1, <1>4, <1>5 DEF Unseen, seen

\* Creating the file tears what is read from it.
LEMMA StoreCreateSeen ==
    ASSUME RegistryInv, NEW h \in Handlers, StoreCreate(h)
    PROVE  \E i \in Ids : \E X \in SUBSET Instances : Registry!Overwrite(i, X)
<1>1. ImageInv /\ ReadersKnown /\ TypeOK /\ CallsShaped /\ FetchesShaped
  BY DEF RegistryInv, ImageInv, ShapeInv
<1>2. PICK f \in Files :
         /\ data' = [data EXCEPT ![f] = [content |-> call[h].content, len |-> 0]]
         /\ spoiled' = spoiled \cup ReadersOf(f)
         /\ f = dir[call[h].id] \/ \A x \in Instances : fetch[x].file # f
  BY <1>1, FileChosen
<1>3. UNCHANGED <<meta, cut, fetch, image>> /\ call[h].id \in Ids
  BY <1>1 DEF StoreCreate, At, CallsShaped, downloads
<1>4. PICK i \in Ids : i = call[h].id
  BY <1>3
<1>5. PICK X \in SUBSET Instances : X = ReadersOf(f)
  BY DEF ReadersOf
<1>6. ASSUME NEW x \in X
      PROVE  /\ Opened[x].id = i
             /\ Opened'[x] = [id |-> i, content |-> "torn"]
  <2>1. x \in Instances /\ fetch[x].pc = "read" /\ fetch[x].file = f /\ x \in spoiled'
    BY <1>2, <1>5 DEF ReadersOf, FetchAt
  <2>2. fetch[x].id = i
    BY <1>1, <1>2, <1>4, <2>1 DEF ReadersKnown
  <2> QED
    BY <1>3, <2>1, <2>2, OpenedIs DEF Sight
<1>7. ASSUME NEW x \in Instances \ X PROVE Opened'[x] = Opened[x]
  <2>1. fetch'[x] = fetch[x] /\ (x \in spoiled' <=> x \in spoiled)
    BY <1>2, <1>3, <1>5
  <2>2. fetch[x].pc = "read" => data'[fetch[x].file] = data[fetch[x].file]
    <3>1. ASSUME fetch[x].pc = "read" PROVE fetch[x].file # f /\ fetch[x].file \in Files
      BY <1>1, <1>5, <3>1 DEF ReadersOf, FetchAt, FetchesShaped
    <3>2. data \in [Files -> FileData]
      BY <1>1, ImageTypes DEF VarTypes
    <3> QED
      BY <1>2, <3>1, <3>2
  <2> QED
    BY <2>1, <2>2, OpenedIs DEF Sight
<1>8. Opened' = [x \in Instances |-> IF x \in X THEN [id |-> i, content |-> "torn"] ELSE Opened[x]]
  BY <1>5, <1>6, <1>7, OpenedIs
<1>9. Kept' = Kept
  BY <1>3, KeptIs
<1>10. Registry!Overwrite(i, X)
  BY <1>3, <1>6, <1>8, <1>9 DEF Registry!Overwrite, Registry!Torn
<1> QED
  BY <1>10

\* The metadata change the image.
LEMMA CommitSeen ==
    ASSUME ImageInv, NEW h \in Handlers, StoreCommit(h) \/ RemoveMeta(h)
    PROVE  \E i \in Ids : Registry!Delete(i) \/ \E c \in Contents : Registry!Put(i, c)
<1>1. call[h].id \in Ids /\ (At(h, "write") => call[h].content \in Contents)
  BY DEF ImageInv, ShapeInv, CallsShaped, StoreCommit, RemoveMeta, At
<1>2. PICK i \in Ids, c \in MaybeContent :
         /\ i = call[h].id
         /\ c = IF At(h, "write") THEN call[h].content ELSE None
  BY <1>1 DEF MaybeContent
<1>3. /\ meta' = [meta EXCEPT ![i] = c] /\ cut' = cut \ {i}
      /\ UNCHANGED <<data, fetch, image, spoiled>>
  BY <1>2 DEF StoreCommit, RemoveMeta, At, downloads
<1>4. Opened' = Opened /\ Kept' = Kept
  BY <1>3, SeenStays, KeptIs
<1>5. Registry!Change(i, c)
  BY <1>3, <1>4 DEF Registry!Change
<1> QED
  BY <1>2, <1>5, Zenon DEF Registry!Put, Registry!Delete, MaybeContent

\* A failure halfway leaves the image damaged.
LEMMA FailureSeen ==
    ASSUME ImageInv, NEW h \in Handlers, StoreFails(h) \/ RemoveFails(h)
    PROVE  Unseen \/ \E i \in Ids : Registry!Damage(i)
<1>1. /\ call[h].id \in Ids
      /\ cut' = cut \/ cut' = cut \cup {call[h].id}
      /\ UNCHANGED <<meta, data, fetch, image, spoiled>>
  BY DEF StoreFails, RemoveFails, ImageInv, ShapeInv, CallsShaped, storage, downloads
<1>2. Opened' = Opened /\ Kept' = Kept
  BY <1>1, SeenStays, KeptIs
<1>3. PICK i \in Ids : i = call[h].id
  BY <1>1
<1>4. CASE cut' = cut
  BY <1>1, <1>2, <1>4 DEF Unseen, seen
<1>5. CASE cut' = cut \cup {i}
  <2>1. Registry!Damage(i)
    BY <1>1, <1>2, <1>5 DEF Registry!Damage
  <2> QED
    BY <2>1
<1> QED
  BY <1>1, <1>3, <1>4, <1>5

\* A crash breaks every download off, and at most one change.
LEMMA CrashSeen ==
    ASSUME ImageInv, Crash PROVE Registry!Crash
<1>1. /\ \A x \in Instances : fetch'[x].pc = "idle"
      /\ UNCHANGED <<meta, image>> /\ cut' = cut \cup Halfway
  BY Nowhere DEF Crash, storage
<1>2. PICK D \in {{}} \cup {{i} : i \in Ids} : D = Halfway
  <2>1. LockIsHeld /\ CallsShaped
    BY DEF ImageInv, ShapeInv
  <2>2. CASE \A h \in Handlers : call[h].pc \notin {"write", "delete"}
    BY <2>2 DEF Halfway
  <2>3. ASSUME NEW h \in Handlers, call[h].pc \in {"write", "delete"}
        PROVE  Halfway \in {{i} : i \in Ids}
    <3>1. \A g \in Handlers : call[g].pc \in {"write", "delete"} => g = h
      BY <2>1, <2>3 DEF LockIsHeld
    <3>2. call[h].id \in Ids /\ Halfway = {call[h].id}
      BY <2>1, <2>3, <3>1 DEF CallsShaped, Halfway
    <3> QED
      BY <3>2
  <2> QED
    BY <2>2, <2>3
<1>3. Opened' = [x \in Instances |-> [id |-> None, content |-> None]]
  BY <1>1, OpenedIs DEF Sight
<1>4. Kept' = Kept
  BY <1>1, KeptIs
<1> QED
  BY <1>1, <1>2, <1>3, <1>4 DEF Registry!Crash, Registry!Closed

\* Opening, ending and dropping a download changes what that one has open.
LEMMA SightMoves ==
    ASSUME ImageInv, NEW x \in Instances, NEW r \in Fetches, fetch' = [fetch EXCEPT ![x] = r],
           UNCHANGED data, \A y \in Instances : y # x => (y \in spoiled' <=> y \in spoiled)
    PROVE  Opened' = [Opened EXCEPT ![x] = Sight(r, x \in spoiled')]
<1>1. /\ fetch'[x] = r
      /\ \A y \in Instances : y # x => fetch'[y] = fetch[y]
  BY ImageTypes DEF ImageInv, VarTypes
<1>2. Opened'[x] = Sight(r, x \in spoiled')
  BY <1>1, OpenedIs DEF Sight
<1>3. \A y \in Instances : y # x => Opened'[y] = Opened[y]
  BY <1>1, OpenedIs DEF Sight
<1> QED
  BY <1>2, <1>3, OpenedIs

\* Looking for an image, and reading on, is not seen.
LEMMA SearchUnseen ==
    ASSUME ImageInv, NEW x \in Instances, Exists(x) \/ Read(x) \/ \E i \in Ids : Fetch(x, i)
    PROVE  Unseen
<1>1. UNCHANGED <<meta, data, cut, image>> /\ fetch \in [Instances -> Fetches]
  BY ImageTypes DEF Exists, Read, Fetch, storage, ImageInv, VarTypes
<1>2. PICK r : fetch' = [fetch EXCEPT ![x] = r]
  BY DEF Exists, Read, Fetch
<1>3. /\ \A y \in Instances : y # x => fetch'[y] = fetch[y]
      /\ fetch'[x] = r
  BY <1>1, <1>2
<1>4. Opened'[x] = Opened[x]
  <2>1. CASE Read(x)
    <3>1. PICK g : fetch' = [fetch EXCEPT ![x] = [@ EXCEPT !.got = g]]
      BY <1>1, <2>1 DEF Read
    <3>2. fetch'[x] = [fetch[x] EXCEPT !.got = g]
      BY <1>1, <3>1
    <3>3. /\ fetch'[x].pc = fetch[x].pc /\ fetch'[x].id = fetch[x].id
          /\ fetch'[x].file = fetch[x].file
      BY <1>1, <3>2 DEF Fetches
    <3>4. spoiled' = spoiled
      BY <2>1 DEF Read
    <3> QED
      BY <1>1, <3>3, <3>4, OpenedIs DEF Sight
  <2>2. CASE Exists(x) \/ \E i \in Ids : Fetch(x, i)
    <3>1. fetch[x].pc # "read" /\ fetch'[x].pc # "read"
      BY <1>1, <2>2, Nowhere DEF Exists, Fetch, FetchAt, NoFetch, Fetches
    <3> QED
      BY <3>1, OpenedIs DEF Sight
  <2> QED
    BY <2>1, <2>2
<1>5. \A y \in Instances : y # x => (y \in spoiled' <=> y \in spoiled)
  BY DEF Exists, Read, Fetch
<1>6. \A y \in Instances : y # x => Opened'[y] = Opened[y]
  BY <1>1, <1>3, <1>5, OpenedIs DEF Sight
<1>7. Opened' = Opened /\ Kept' = Kept
  BY <1>1, <1>4, <1>6, OpenedIs, KeptIs
<1> QED
  BY <1>1, <1>7 DEF Unseen, seen

\* What is opened is the content on record, unless the image is damaged.
LEMMA RetrieveSeen ==
    ASSUME RegistryInv, NEW x \in Instances, Retrieve(x)
    PROVE  Unseen \/ \E i \in Ids : Registry!Open(x, i)
<1>1. ImageInv /\ ReadersKnown /\ TypeOK
  BY DEF RegistryInv, ImageInv
<1>2. /\ fetch[x].pc = "retrieve" /\ x \notin spoiled /\ lock = None
      /\ UNCHANGED <<meta, data, cut, image>>
  BY <1>1 DEF Retrieve, FetchAt, MayRead, ReadersKnown, storage
<1>3. PICK i \in Ids : i = fetch[x].id
  BY <1>1, <1>2, FetchTypes
<1> DEFINE found == meta[i] # None /\ dir[i] # None
           r == IF found THEN [fetch[x] EXCEPT !.pc = "read", !.file = dir[i]] ELSE NoFetch
<1>4. /\ fetch' = [fetch EXCEPT ![x] = r]
      /\ spoiled' = IF found /\ i \in cut THEN spoiled \cup {x} ELSE spoiled
  BY <1>1, <1>3, ImageTypes DEF Retrieve, VarTypes
<1>5. fetch[x] \in Fetches /\ dir[i] \in MaybeFile
  BY <1>1, FetchTypes, ImageTypes DEF VarTypes
<1>6. r \in Fetches
  BY <1>5, Nowhere DEF Fetches, FetchSteps
<1>7. Opened' = [Opened EXCEPT ![x] = Sight(r, x \in spoiled')] /\ Kept' = Kept
  <2> HIDE DEF r
  <2> QED
    BY <1>1, <1>2, <1>4, <1>6, SightMoves, KeptIs
<1>8. Opened[x] = [id |-> None, content |-> None]
  BY <1>2, OpenedIs DEF Sight
<1>9. CASE ~found
  <2>1. Sight(r, x \in spoiled') = Opened[x]
    BY <1>8, <1>9, Nowhere DEF Sight
  <2>2. Opened' = Opened
    BY <1>7, <2>1, OpenedIs
  <2> QED
    BY <1>2, <1>7, <2>2 DEF Unseen, seen
<1>10. CASE found
  <2>1. r.pc = "read" /\ r.file = dir[i] /\ r.id = i
    BY <1>3, <1>5, <1>10 DEF Fetches
  <2>2. i \notin cut => data[dir[i]].content = meta[i]
    <3>1. Halfway = {}
      BY <1>1, <1>2, Nowhere DEF ImageInv, ShapeInv, LockIsHeld, Halfway
    <3>2. i \notin cut => Settled(i)
      BY <1>1, <3>1 DEF ImageInv, AllSettled
    <3> QED
      BY <1>10, <3>2 DEF Settled, Holds
  <2>3. x \in spoiled' <=> i \in cut
    BY <1>2, <1>4, <1>10
  <2>4. Sight(r, x \in spoiled') =
          [id |-> i, content |-> IF i \in cut THEN "torn" ELSE meta[i]]
    <3> HIDE DEF r
    <3> QED
      BY <2>1, <2>2, <2>3 DEF Sight
  <2>5. Registry!Open(x, i)
    BY <1>2, <1>7, <1>8, <1>10, <2>4 DEF Registry!Open, Registry!Closed, Registry!Torn
  <2> QED
    BY <2>5
<1> QED
  BY <1>9, <1>10

\* A download ends: the image is the content it opened.
LEMMA FinalizeSeen ==
    ASSUME ImageInv, NEW x \in Instances, Finalize(x) PROVE Registry!Finish(x)
<1>1. /\ fetch[x].pc = "read" /\ Len(fetch[x].got) >= data[fetch[x].file].len
      /\ image' = [image EXCEPT ![x] = fetch[x].got]
      /\ fetch' = [fetch EXCEPT ![x] = NoFetch]
      /\ UNCHANGED <<meta, data, cut, spoiled>>
  BY DEF Finalize, FetchAt, storage
<1>2. /\ fetch[x].got \in Pieces /\ fetch[x].id \in Ids
      /\ image \in [Instances -> Pieces \cup {None}]
  BY <1>1, FetchTypes DEF Fetches
<1>3. Opened' = [Opened EXCEPT ![x] = [id |-> None, content |-> None]]
  <2>1. NoFetch \in Fetches /\ Sight(NoFetch, x \in spoiled') = [id |-> None, content |-> None]
    BY Nowhere DEF Sight
  <2> QED
    BY <1>1, <2>1, SightMoves
<1>4. /\ Opened[x].id # None
      /\ Opened[x].content = IF x \in spoiled THEN "torn" ELSE data[fetch[x].file].content
  BY <1>1, <1>2, Nowhere, OpenedIs DEF Sight
<1>5. Kept' = [Kept EXCEPT ![x] = Value(fetch[x].got)]
  <2>1. \A y \in Instances : image'[y] = IF y = x THEN fetch[x].got ELSE image[y]
    BY <1>1, <1>2
  <2> QED
    BY <2>1, KeptIs
<1>6. Value(fetch[x].got) \in Contents \cup {"torn"}
  BY <1>2, WholeValue
<1>7. x \notin spoiled => Value(fetch[x].got) = data[fetch[x].file].content
  <2>1. ASSUME x \notin spoiled
        PROVE  \E c \in Contents : data[fetch[x].file].content = c /\ fetch[x].got = Whole(c)
    BY <1>1, <2>1, WholeAtTheEnd
  <2> QED
    BY <2>1, WholeValue
<1>8. Opened[x] # [id |-> None, content |-> None]
  BY <1>4
<1> QED
  BY <1>1, <1>3, <1>4, <1>5, <1>6, <1>7, <1>8
     DEF Registry!Finish, Registry!Closed, Registry!Torn

\* A download that breaks off, and an image that is dropped.
LEMMA DropSeen ==
    ASSUME ImageInv, NEW x \in Instances, FetchFails(x) \/ Discard(x)
    PROVE  Registry!Abort(x) \/ Registry!Discard(x)
<1>1. UNCHANGED <<meta, data, cut, spoiled>>
  BY DEF FetchFails, Discard, storage
<1>2. CASE FetchFails(x)
  <2>1. fetch' = [fetch EXCEPT ![x] = NoFetch] /\ image' = image
    BY <1>2 DEF FetchFails, DropImage
  <2>2. NoFetch \in Fetches /\ Sight(NoFetch, x \in spoiled') = [id |-> None, content |-> None]
    BY Nowhere DEF Sight
  <2>3. Opened' = [Opened EXCEPT ![x] = [id |-> None, content |-> None]] /\ Kept' = Kept
    BY <1>1, <2>1, <2>2, SightMoves, KeptIs
  <2> QED
    BY <1>1, <2>3 DEF Registry!Abort, Registry!Closed
<1>3. CASE Discard(x)
  <2>1. /\ fetch' = fetch /\ image' = [image EXCEPT ![x] = None]
        /\ image \in [Instances -> Pieces \cup {None}]
    BY <1>3, FetchTypes DEF Discard
  <2>2. Opened' = Opened
    BY <1>1, <2>1, SeenStays
  <2>3. Kept' = [Kept EXCEPT ![x] = None]
    <3>1. \A y \in Instances : image'[y] = IF y = x THEN None ELSE image[y]
      BY <2>1
    <3> QED
      BY <3>1, KeptIs, WholeValue
  <2> QED
    BY <1>1, <2>2, <2>3 DEF Registry!Discard
<1> QED
  BY <1>2, <1>3

\* Every step is one of the abstract registry's, or is not seen.
LEMMA RegistryStep ==
    ASSUME RegistryInv, [Next]_vars PROVE Registry!Next \/ Unseen
<1>1. ImageInv
  BY DEF RegistryInv
<1>2. ASSUME NEW h \in Handlers,
             Request(h) \/ Uploading(h) \/ Removing(h) \/ StoreFails(h) \/ RemoveFails(h)
      PROVE  Registry!Next \/ Unseen
  <2>1. CASE \/ Request(h) \/ Receive(h) \/ Compare(h) \/ UploadEnd(h) \/ RemoveFile(h)
             \/ StoreWrite(h)
    BY <1>1, <2>1, CallsUnseen
  <2>2. CASE StoreCreate(h)
    BY <2>2, StoreCreateSeen, Zenon DEF Registry!Next
  <2>3. CASE StoreCommit(h) \/ RemoveMeta(h)
    BY <1>1, <2>3, CommitSeen, Zenon DEF Registry!Next
  <2>4. CASE StoreFails(h) \/ RemoveFails(h)
    BY <1>1, <2>4, FailureSeen, Zenon DEF Registry!Next
  <2> QED
    BY <1>2, <2>1, <2>2, <2>3, <2>4 DEF Uploading, Removing
<1>3. ASSUME NEW x \in Instances,
             Fetching(x) \/ Discard(x) \/ FetchFails(x) \/ \E i \in Ids : Fetch(x, i)
      PROVE  Registry!Next \/ Unseen
  <2>1. CASE Exists(x) \/ Read(x) \/ \E i \in Ids : Fetch(x, i)
    BY <1>1, <2>1, SearchUnseen
  <2>2. CASE Retrieve(x)
    BY <2>2, RetrieveSeen, Zenon DEF Registry!Next
  <2>3. CASE Finalize(x)
    BY <1>1, <2>3, FinalizeSeen, Zenon DEF Registry!Next
  <2>4. CASE FetchFails(x) \/ Discard(x)
    BY <1>1, <2>4, DropSeen, Zenon DEF Registry!Next
  <2> QED
    BY <1>3, <2>1, <2>2, <2>3, <2>4 DEF Fetching
<1>4. CASE Crash
  BY <1>1, <1>4, CrashSeen DEF Registry!Next
<1>5. CASE UNCHANGED vars
  <2>1. UNCHANGED <<meta, data, cut, fetch, image, spoiled>>
    BY <1>5 DEF vars
  <2> QED
    BY <2>1, SeenStays, KeptIs DEF Unseen, seen
<1> QED
  BY <1>2, <1>3, <1>4, <1>5 DEF Next

\* The registry is the one its users count on, however many images, uploads,
\* removals, downloads and chunks there are: what they see of every step is a
\* step of ImageRegistry or nothing.
THEOREM ImageImplementsRegistry == Spec => ImplementsRegistry
<1>1. Init => Registry!Init
  <2>1. ASSUME Init
        PROVE  /\ Opened = [x \in Instances |-> [id |-> None, content |-> None]]
               /\ Kept = [x \in Instances |-> None]
    BY <2>1, Nowhere, OpenedIs, KeptIs, WholeValue DEF Init, Sight
  <2> QED
    BY <2>1 DEF Init, Registry!Init, Registry!Closed
<1>2. RegistryInv /\ [Next]_vars => [Registry!Next]_seen
  BY RegistryStep DEF Unseen
<1> QED
  BY <1>1, <1>2, RegistryInvariant, PTL DEF Spec, ImplementsRegistry, Registry!Spec, seen

-----------------------------------------------------------------------------
(* The way to the nodes *)

\* The steps of a creation whose instance the node has.
AtNode == {"answered", "unanswered"}

\* Only an instance that is there is started.
StartedLast ==
    \A c \in Creations :
        start[c] # "none" \/ work[c] # "none" \/ disk[c] # NoVersion => step[c] \in AtNode

\* Nothing is remembered of a creation that has not begun.
NotBegun == \A c \in Creations : step[c] = "none" => localSince[c] = {}

\* The orchestrator's version is one of those since the creation began.
LocalIsSince ==
    \A c \in Preparing : local \in localSince[c]

\* So is the version it has listed ...
ListedIsSince ==
    \A c \in Creations : step[c] = "compare" => wanted[c] \in localSince[c]

\* ... the one in its temporary file, if it is whole ...
CopyIsSince ==
    \A c \in Creations : step[c] \in {"read", "push", "upload"} =>
        copy[c] \in localSince[c] \cup {Torn}

\* The version v was the orchestrator's since c began or since one of those
\* began that have pushed their version over c's.
KnownIn(v, c, since, others) ==
    IsVersion(v) => \E d \in others[c] \cup {c} : v \in since[d]
Known(v, c) == KnownIn(v, c, localSince, pushed)

\* ... and the node's once it has been compared or pushed.
NodeIsSince ==
    \A c \in Preparing :
        step[c] \in {"create", "created"} \cup AtNode => Known(HeldByNode, c)

\* The inductive invariant.
DistributionInv ==
    /\ DistributionTypeOK /\ StartedLast /\ NotBegun
    /\ LocalIsSince /\ ListedIsSince /\ CopyIsSince /\ NodeIsSince
    /\ BootsPushed

\* What is remembered is not forgotten.
Remembers ==
    \A c \in Creations : localSince[c] \subseteq localSince'[c] /\ pushed[c] \subseteq pushed'[c]

NextStep == [DistributionNext]_distributionVars

-----------------------------------------------------------------------------
\* Numbers of versions, those of a torn file and of none among them.
LEMMA Versions ==
    ASSUME DistributionTypeOK
    PROVE  /\ NoVersion \in Copies /\ Torn \in Copies
           /\ local \in Copies /\ HeldLocally \in Copies /\ HeldByNode \in Copies
           /\ versions < MaxVersions => versions + 1 \in 0 .. MaxVersions
<1>1. versions \in 0 .. MaxVersions /\ local \in 0 .. MaxVersions /\ remote \in Copies
  BY DEF DistributionTypeOK
<1>2. NoVersion \in Copies /\ Torn \in Copies /\ local \in Copies
  BY <1>1, DistributionAssumption DEF NoVersion, Torn, Copies
<1>3. versions < MaxVersions => versions + 1 \in 0 .. MaxVersions
  BY <1>1, DistributionAssumption
<1> QED
  BY <1>1, <1>2, <1>3 DEF HeldLocally, HeldByNode

\* What is known stays known.
LEMMA KnownStays ==
    ASSUME Remembers, NEW c \in Creations, pushed \in [Creations -> SUBSET Creations],
           NEW v, Known(v, c)
    PROVE  KnownIn(v, c, localSince', pushed')
<1>1. pushed[c] \cup {c} \subseteq Creations
  OBVIOUS
<1> QED
  BY <1>1 DEF Remembers, Known, KnownIn

\* The property, with the word of the proof.
LEMMA BootsKnown == BootsPushed <=> \A c \in Creations : Known(disk[c], c)
BY DEF BootsPushed, Known, KnownIn

LEMMA DistributionInitInv ==
    ASSUME DistributionInit PROVE DistributionInv
<1>1. DistributionTypeOK
  <2>1. NoVersion \in Copies /\ NoVersion \in 0 .. MaxVersions /\ 0 \in 0 .. MaxVersions
    BY DistributionAssumption DEF NoVersion, Copies
  <2> QED
    BY <2>1 DEF DistributionInit, DistributionTypeOK
<1>2. Preparing = {}
  BY DEF DistributionInit, Preparing
<1>3. BootsPushed
  BY DEF DistributionInit, BootsPushed, IsVersion
<1> QED
  BY <1>1, <1>2, <1>3 DEF DistributionInit, DistributionInv, StartedLast, NotBegun,
     LocalIsSince, ListedIsSince, CopyIsSince, NodeIsSince

-----------------------------------------------------------------------------
(* Users *)

\* Users change what the orchestrator has, and with it what was had since.
LEMMA ReplaceStep ==
    ASSUME DistributionInv, NEW v \in 0 .. MaxVersions, Replace(v),
           versions' \in 0 .. MaxVersions, copy' = copy \/ TearDownloads
    PROVE  DistributionInv'
<1>1. /\ DistributionTypeOK /\ v \in Copies /\ Torn \in Copies
      /\ pushed \in [Creations -> SUBSET Creations]
  BY Versions, DistributionAssumption DEF DistributionInv, DistributionTypeOK, Copies
<1>2. /\ local' = v /\ damaged' = damaged \ {"orchestrator"}
      /\ \A c \in Creations :
            /\ localSince[c] \subseteq localSince'[c]
            /\ localSince'[c] \subseteq localSince[c] \cup {v}
            /\ c \in Preparing => v \in localSince'[c]
            /\ c \notin Preparing => localSince'[c] = localSince[c]
      /\ UNCHANGED <<remote, uploader, step, wanted, start, work, disk, stopping, pushed>>
  BY DEF Replace, starts
<1>3. /\ copy' \in [Creations -> Copies]
      /\ \A c \in Creations : copy'[c] \in {copy[c], Torn}
  BY <1>1 DEF TearDownloads, DistributionTypeOK
<1>4. localSince' \in [Creations -> SUBSET Copies]
  <2>1. localSince' \in [Creations -> SUBSET Copies] <=>
           \A c \in Creations : localSince'[c] \in SUBSET Copies
    BY DEF Replace
  <2>2. \A c \in Creations : localSince[c] \subseteq Copies
    BY <1>1 DEF DistributionTypeOK
  <2> QED
    BY <1>1, <1>2, <2>1, <2>2
<1>5. DistributionTypeOK'
  BY <1>1, <1>2, <1>3, <1>4 DEF DistributionTypeOK
<1>6. Preparing' = Preparing /\ HeldByNode' = HeldByNode /\ Remembers
  BY <1>2 DEF Preparing, Copying, HeldByNode, Remembers
<1>7. StartedLast' /\ NotBegun'
  BY <1>2 DEF DistributionInv, StartedLast, NotBegun, Preparing
<1>8. LocalIsSince' /\ ListedIsSince'
  BY <1>2, <1>6 DEF DistributionInv, LocalIsSince, ListedIsSince, Preparing
<1>9. CopyIsSince'
  BY <1>2, <1>3 DEF DistributionInv, CopyIsSince
<1>10. NodeIsSince'
  BY <1>1, <1>2, <1>6, KnownStays DEF DistributionInv, NodeIsSince, Preparing, Known
<1>11. BootsPushed'
  <2>1. \A c \in Creations : KnownIn(disk[c], c, localSince', pushed')
    BY <1>1, <1>6, KnownStays, BootsKnown DEF DistributionInv
  <2> QED
    BY <1>2, <2>1 DEF BootsPushed, KnownIn
<1> QED
  BY <1>5, <1>7, <1>8, <1>9, <1>10, <1>11 DEF DistributionInv

\* Users preserve the invariant.
LEMMA UserStep ==
    ASSUME DistributionInv, PostImage \/ PostFails \/ DeleteImage PROVE DistributionInv'
<1>1. CASE PostImage
  <2>1. versions + 1 \in 0 .. MaxVersions
    BY <1>1, Versions DEF PostImage, DistributionInv
  <2> QED
    BY <1>1, <2>1, ReplaceStep DEF PostImage
<1>2. CASE DeleteImage
  <2>1. NoVersion \in 0 .. MaxVersions /\ versions \in 0 .. MaxVersions
    BY DistributionAssumption DEF NoVersion, DistributionInv, DistributionTypeOK
  <2> QED
    BY <1>2, <2>1, ReplaceStep DEF DeleteImage
<1>3. CASE PostFails
  <2>1. /\ damaged' = damaged \cup {"orchestrator"}
        /\ UNCHANGED <<versions, local, remote, uploader, step, wanted, start, work, disk,
                       stopping, localSince, pushed>>
    BY <1>3 DEF PostFails, starts, history
  <2>2. /\ copy' \in [Creations -> Copies]
        /\ \A c \in Creations : copy'[c] \in {copy[c], Torn}
    BY <1>3, Versions DEF PostFails, TearDownloads, DistributionInv, DistributionTypeOK
  <2>3. DistributionTypeOK'
    BY <2>1, <2>2 DEF DistributionInv, DistributionTypeOK
  <2>4. Preparing' = Preparing /\ HeldByNode' = HeldByNode
    BY <2>1 DEF Preparing, Copying, HeldByNode
  <2>5. CopyIsSince'
    BY <2>1, <2>2 DEF DistributionInv, CopyIsSince
  <2> QED
    BY <2>1, <2>3, <2>4, <2>5 DEF DistributionInv, StartedLast, NotBegun, LocalIsSince,
       ListedIsSince, NodeIsSince, Known, BootsPushed
<1> QED
  BY <1>1, <1>2, <1>3

-----------------------------------------------------------------------------
(* Creations *)

\* The steps of a creation leave the steps of the others alone.
LEMMA AdvanceFacts ==
    ASSUME DistributionTypeOK, NEW c \in Creations, NEW from, NEW to, Advance(c, from, to)
    PROVE  /\ step[c] = from /\ step'[c] = to
           /\ \A d \in Creations : d # c => step'[d] = step[d]
BY DEF Advance, DistributionTypeOK

\* The steps a creation goes through.
Steps == {"none", "list", "compare", "download", "read", "push", "upload", "create",
          "created", "answered", "unanswered", "failed"}

\* The end of an upload preserves the types of what it writes.
LEMMA UploadTypes ==
    ASSUME DistributionTypeOK, NEW c \in Creations,
           SkipUpload(c) \/ StoreUpload(c) \/ UploadFails(c)
    PROVE  DistributionTypeOK'
<1>1. NoVersion \in Copies /\ Torn \in Copies
  BY Versions
<1>2. /\ step' \in [Creations -> Steps] /\ uploader' = {}
      /\ wanted' \in [Creations -> Copies] /\ copy' \in [Creations -> Copies]
      /\ UNCHANGED <<versions, local, start, work, stopping, localSince>>
  BY <1>1 DEF SkipUpload, StoreUpload, UploadFails, Uploaded, Advance, Forget, Steps, history,
     DistributionTypeOK
<1>3. remote' \in Copies /\ damaged' \subseteq {"orchestrator", "node"}
  BY DEF SkipUpload, StoreUpload, UploadFails, DistributionTypeOK
<1>4. disk' \in [Creations -> Copies]
  BY <1>1 DEF SkipUpload, StoreUpload, UploadFails, TearCopies, DistributionTypeOK
<1>5. pushed' \in [Creations -> SUBSET Creations]
  BY DEF SkipUpload, StoreUpload, UploadFails, history, DistributionTypeOK
<1> QED
  BY <1>2, <1>3, <1>4, <1>5 DEF Steps, DistributionTypeOK

\* A creation preserves the types of what it writes.
LEMMA CreationTypes ==
    ASSUME DistributionTypeOK, NEW c \in Creations,
           Create(c) \/ EnsureImage(c) \/ CreateOnNode(c) \/ Fail(c) \/ Reply(c)
    PROVE  DistributionTypeOK'
<1>1. local \in Copies /\ HeldLocally \in Copies /\ NoVersion \in Copies
  BY Versions
<1>2. CASE Create(c)
  BY <1>1, <1>2 DEF Create, Advance, registries, starts, DistributionTypeOK
<1>3. CASE ListLocal(c)
  BY <1>1, <1>3 DEF ListLocal, Advance, registries, starts, history, DistributionTypeOK
<1>4. CASE ListNode(c)
  BY <1>4 DEF ListNode, Advance, registries, starts, history, DistributionTypeOK
<1>5. CASE Download(c)
  BY <1>1, <1>5 DEF Download, Advance, registries, starts, history, DistributionTypeOK
<1>6. CASE EndDownload(c)
  BY <1>6 DEF EndDownload, Advance, registries, starts, history, DistributionTypeOK
<1>7. CASE BeginUpload(c)
  BY <1>7 DEF BeginUpload, Advance, registries, starts, history, DistributionTypeOK
<1>8. CASE SkipUpload(c) \/ StoreUpload(c) \/ UploadFails(c)
  BY <1>8, UploadTypes
<1>9. CASE CreateOnNode(c)
  BY <1>1, <1>9 DEF CreateOnNode, Advance, Forget, registries, starts, history,
     DistributionTypeOK
<1>10. CASE Fail(c)
  BY <1>1, <1>10 DEF Fail, Forget, registries, starts, history, DistributionTypeOK
<1>11. CASE Reply(c)
  BY <1>11 DEF Reply, Advance, registries, history, DistributionTypeOK
<1> QED
  BY <1>2, <1>3, <1>4, <1>5, <1>6, <1>7, <1>8, <1>9, <1>10, <1>11 DEF EnsureImage

\* The stations of a version, for a step that changes only what creation c
\* has: it is enough to look at c.
LEMMA OneCreation ==
    ASSUME DistributionInv, NEW c \in Creations,
           UNCHANGED <<local, remote, damaged, disk, work, pushed>>,
           \A d \in Creations : d # c =>
              /\ step'[d] = step[d] /\ start'[d] = start[d]
              /\ wanted'[d] = wanted[d] /\ copy'[d] = copy[d]
              /\ localSince'[d] = localSince[d],
           disk[c] = NoVersion, work[c] = "none",
           localSince[c] \subseteq localSince'[c], step'[c] # "none",
           start'[c] # "none" => step'[c] \in AtNode,
           step'[c] # "failed" => local \in localSince'[c],
           step'[c] = "compare" => wanted'[c] \in localSince'[c],
           step'[c] \in {"read", "push", "upload"} => copy'[c] \in localSince'[c] \cup {Torn},
           step'[c] \in {"create", "created"} \cup AtNode =>
              KnownIn(HeldByNode, c, localSince', pushed)
    PROVE  /\ StartedLast' /\ NotBegun' /\ LocalIsSince' /\ ListedIsSince' /\ CopyIsSince'
           /\ NodeIsSince' /\ BootsPushed'
<1>0. Remembers /\ pushed \in [Creations -> SUBSET Creations]
  BY DEF Remembers, DistributionInv, DistributionTypeOK
<1>1. \A d \in Preparing' : d = c \/ (d # c /\ d \in Preparing)
  BY DEF Preparing, Copying
<1>2. StartedLast' /\ NotBegun'
  BY DEF DistributionInv, StartedLast, NotBegun
<1>3. LocalIsSince'
  BY <1>1 DEF DistributionInv, LocalIsSince, Preparing
<1>4. ListedIsSince'
  BY DEF DistributionInv, ListedIsSince
<1>5. CopyIsSince'
  BY DEF DistributionInv, CopyIsSince
<1>6. NodeIsSince'
  <2>1. HeldByNode' = HeldByNode
    BY DEF HeldByNode
  <2>2. SUFFICES ASSUME NEW d \in Preparing',
                        step'[d] \in {"create", "created"} \cup AtNode
                 PROVE  KnownIn(HeldByNode, d, localSince', pushed')
    BY <2>1 DEF NodeIsSince, Known
  <2>3. CASE d = c
    BY <2>2, <2>3
  <2>4. CASE d # c
    <3>1. d \in Preparing /\ d \in Creations /\ step'[d] = step[d]
      BY <1>1, <2>4 DEF Preparing
    <3> QED
      BY <1>0, <2>2, <3>1, KnownStays DEF DistributionInv, NodeIsSince
  <2> QED
    BY <2>3, <2>4
<1>7. BootsPushed'
  <2>1. \A d \in Creations : KnownIn(disk[d], d, localSince', pushed')
    BY <1>0, KnownStays, BootsKnown DEF DistributionInv
  <2> QED
    BY <2>1 DEF BootsPushed, KnownIn
<1> QED
  BY <1>2, <1>3, <1>4, <1>5, <1>6, <1>7

\* An upload that is stored, or fails half-way, preserves the invariant.
LEMMA StoreStep ==
    ASSUME DistributionInv, NEW c \in Creations, StoreUpload(c) \/ UploadFails(c)
    PROVE  DistributionInv'
<1>0. DistributionTypeOK /\ DistributionTypeOK'
  BY UploadTypes DEF DistributionInv
<1>1. /\ step[c] = "upload" /\ step'[c] \in {"create", "failed"}
      /\ \A d \in Creations : d # c =>
            step'[d] = step[d] /\ wanted'[d] = wanted[d] /\ copy'[d] = copy[d]
      /\ UNCHANGED <<local, start, work, localSince>>
      /\ \A d \in Creations : disk'[d] = IF d \in Copying THEN Torn ELSE disk[d]
  BY <1>0 DEF StoreUpload, UploadFails, Uploaded, Forget, Advance, TearCopies, history,
     DistributionTypeOK
<1>2. disk[c] = NoVersion /\ start[c] = "none" /\ work[c] = "none"
  BY <1>1 DEF DistributionInv, StartedLast, AtNode
<1>3. Copying' = Copying /\ c \notin Copying
  BY <1>1, <1>2 DEF Copying
<1>4. \A d \in Preparing' : d \in Preparing
  BY <1>1, <1>3 DEF Preparing
<1>5. Remembers /\ pushed \in [Creations -> SUBSET Creations]
  <2>1. \A d \in Creations : pushed[d] \subseteq pushed'[d]
    BY <1>0 DEF StoreUpload, UploadFails, history, DistributionTypeOK
  <2> QED
    BY <1>0, <1>1, <2>1 DEF Remembers, DistributionTypeOK
<1>6. StartedLast'
  <2>1. \A d \in Copying : step[d] \in AtNode
    BY DEF Copying, DistributionInv, StartedLast
  <2> QED
    BY <1>1, <1>2, <1>3, <2>1 DEF DistributionInv, StartedLast
<1>7. NotBegun'
  BY <1>1 DEF DistributionInv, NotBegun
<1>8. LocalIsSince' /\ ListedIsSince'
  BY <1>1, <1>4 DEF DistributionInv, LocalIsSince, ListedIsSince, Preparing
<1>9. CopyIsSince'
  BY <1>1 DEF DistributionInv, CopyIsSince
<1>10. NodeIsSince'
  <2>1. CASE UploadFails(c)
    <3>1. HeldByNode' = Torn
      BY <2>1 DEF UploadFails, HeldByNode
    <3> QED
      BY <3>1 DEF NodeIsSince, Known, KnownIn, IsVersion
  <2>2. CASE StoreUpload(c)
    <3>1. HeldByNode' = copy[c] /\ copy[c] \in localSince[c] \cup {Torn}
      BY <1>1, <2>2 DEF StoreUpload, HeldByNode, DistributionInv, CopyIsSince
    <3>2. \A d \in Creations : d # c /\ step[d] \in {"create", "created"} \cup AtNode =>
             c \in pushed'[d]
      BY <2>2 DEF StoreUpload, AtNode
    <3>3. \A d \in Creations : step'[d] \in {"create", "created"} \cup AtNode =>
             d = c \/ c \in pushed'[d]
      BY <1>1, <3>2
    <3> QED
      BY <1>1, <3>1, <3>3 DEF NodeIsSince, Known, KnownIn, IsVersion, Preparing
  <2> QED
    BY <2>1, <2>2
<1>11. BootsPushed'
  <2>1. \A d \in Creations : Known(disk[d], d)
    BY BootsKnown DEF DistributionInv
  <2>2. \A d \in Creations : KnownIn(disk[d], d, localSince', pushed')
    BY <1>5, <2>1, KnownStays
  <2>3. \A d \in Creations : KnownIn(disk'[d], d, localSince', pushed')
    BY <1>1, <2>2 DEF KnownIn, IsVersion
  <2> QED
    BY <2>3 DEF BootsPushed, KnownIn
<1> QED
  BY <1>0, <1>6, <1>7, <1>8, <1>9, <1>10, <1>11 DEF DistributionInv

\* A creation preserves the invariant.
LEMMA CreationStep ==
    ASSUME DistributionInv, NEW c \in Creations,
           Create(c) \/ EnsureImage(c) \/ CreateOnNode(c) \/ Fail(c) \/ Reply(c)
    PROVE  DistributionInv'
<1>0. DistributionTypeOK /\ DistributionTypeOK'
  BY CreationTypes DEF DistributionInv
<1>1. \A f : (f = step \/ f = start \/ f = wanted \/ f = copy \/ f = localSince) =>
         DOMAIN f = Creations
  BY <1>0 DEF DistributionTypeOK
<1>2. step[c] \notin AtNode =>
         start[c] = "none" /\ work[c] = "none" /\ disk[c] = NoVersion
  BY DEF DistributionInv, StartedLast
<1>3. step[c] \notin {"none", "failed"} \cup AtNode => local \in localSince[c]
  BY <1>2 DEF DistributionInv, LocalIsSince, Preparing
<1>4. step[c] \in {"create", "created"} => Known(HeldByNode, c)
  BY <1>2 DEF DistributionInv, NodeIsSince, Preparing, AtNode
<1>5. CASE Create(c)
  <2>1. /\ step[c] = "none" /\ step'[c] = "list" /\ localSince'[c] = {local}
        /\ \A d \in Creations : d # c => step'[d] = step[d] /\ localSince'[d] = localSince[d]
        /\ UNCHANGED <<local, remote, damaged, disk, work, pushed, start, wanted, copy>>
    BY <1>1, <1>5 DEF Create, Advance, registries, starts
  <2>2. localSince[c] = {}
    BY <2>1 DEF DistributionInv, NotBegun
  <2> QED
    BY <1>0, <1>2, <2>1, <2>2, OneCreation DEF DistributionInv, AtNode
<1>6. CASE ListLocal(c)
  <2>1. /\ step[c] = "list" /\ step'[c] = "compare" /\ wanted'[c] = local
        /\ \A d \in Creations : d # c => step'[d] = step[d] /\ wanted'[d] = wanted[d]
        /\ UNCHANGED <<local, remote, damaged, disk, work, pushed, start, localSince, copy>>
    BY <1>1, <1>6 DEF ListLocal, Advance, registries, starts, history
  <2> QED
    BY <1>0, <1>2, <1>3, <2>1, OneCreation DEF DistributionInv, AtNode
<1>7. CASE ListNode(c)
  <2>1. /\ step[c] = "compare"
        /\ step'[c] = "download" \/ (step'[c] = "create" /\ remote = wanted[c])
        /\ \A d \in Creations : d # c => step'[d] = step[d]
        /\ UNCHANGED <<local, remote, damaged, disk, work, pushed, start, localSince, wanted,
                       copy>>
    BY <1>1, <1>7 DEF ListNode, NodeHasImage, Advance, registries, starts, history
  <2>2. wanted[c] \in localSince[c]
    BY <2>1 DEF DistributionInv, ListedIsSince
  <2>3. step'[c] = "create" => KnownIn(HeldByNode, c, localSince, pushed)
    BY <2>1, <2>2 DEF KnownIn, HeldByNode, IsVersion
  <2> QED
    BY <1>0, <1>2, <1>3, <2>1, <2>3, OneCreation DEF DistributionInv, AtNode
<1>8. CASE Download(c)
  <2>1. /\ step[c] = "download" /\ step'[c] = "read" /\ copy'[c] = HeldLocally
        /\ \A d \in Creations : d # c => step'[d] = step[d] /\ copy'[d] = copy[d]
        /\ UNCHANGED <<local, remote, damaged, disk, work, pushed, start, localSince, wanted>>
    BY <1>1, <1>8 DEF Download, Advance, registries, starts, history
  <2>2. HeldLocally \in {local, Torn}
    BY DEF HeldLocally
  <2> QED
    BY <1>0, <1>2, <1>3, <2>1, <2>2, OneCreation DEF DistributionInv, AtNode
<1>9. CASE EndDownload(c) \/ BeginUpload(c)
  <2>1. /\ step[c] \in {"read", "push"} /\ step'[c] \in {"push", "upload"}
        /\ \A d \in Creations : d # c => step'[d] = step[d]
        /\ UNCHANGED <<local, remote, damaged, disk, work, pushed, start, localSince, wanted,
                       copy>>
    BY <1>1, <1>9 DEF EndDownload, BeginUpload, Advance, registries, starts, history
  <2>2. copy[c] \in localSince[c] \cup {Torn}
    BY <2>1 DEF DistributionInv, CopyIsSince
  <2> QED
    BY <1>0, <1>2, <1>3, <2>1, <2>2, OneCreation DEF DistributionInv, AtNode
<1>10. CASE SkipUpload(c)
  <2>1. /\ step[c] = "upload" /\ step'[c] \in {"create", "failed"} /\ remote = copy[c]
        /\ \A d \in Creations : d # c =>
              step'[d] = step[d] /\ wanted'[d] = wanted[d] /\ copy'[d] = copy[d]
        /\ UNCHANGED <<local, remote, damaged, disk, work, pushed, start, localSince>>
    BY <1>1, <1>10 DEF SkipUpload, Uploaded, Forget, Advance
  <2>2. copy[c] \in localSince[c] \cup {Torn}
    BY <2>1 DEF DistributionInv, CopyIsSince
  <2>3. KnownIn(HeldByNode, c, localSince, pushed)
    BY <2>1, <2>2 DEF KnownIn, HeldByNode, IsVersion
  <2> QED
    BY <1>0, <1>2, <1>3, <2>1, <2>3, OneCreation DEF DistributionInv, AtNode
<1>11. CASE StoreUpload(c) \/ UploadFails(c)
  BY <1>11, StoreStep
<1>12. CASE CreateOnNode(c)
  <2>1. /\ step[c] = "create" /\ step'[c] \in {"created", "unanswered"}
        /\ \A d \in Creations : d # c =>
              step'[d] = step[d] /\ wanted'[d] = wanted[d] /\ copy'[d] = copy[d]
        /\ UNCHANGED <<local, remote, damaged, disk, work, pushed, start, localSince>>
    BY <1>1, <1>12 DEF CreateOnNode, Forget, Advance, registries, starts, history
  <2>2. KnownIn(HeldByNode, c, localSince, pushed)
    BY <1>4, <2>1 DEF Known
  <2> QED
    BY <1>0, <1>2, <1>3, <2>1, <2>2, OneCreation DEF DistributionInv, AtNode
<1>13. CASE Fail(c)
  <2>1. /\ step[c] \notin AtNode \cup {"none"} /\ step'[c] = "failed"
        /\ \A d \in Creations : d # c =>
              step'[d] = step[d] /\ wanted'[d] = wanted[d] /\ copy'[d] = copy[d]
        /\ UNCHANGED <<local, remote, damaged, disk, work, pushed, start, localSince>>
    BY <1>1, <1>13 DEF Fail, Forget, registries, starts, history, AtNode
  <2> QED
    BY <1>0, <1>2, <2>1, OneCreation DEF DistributionInv, AtNode
<1>14. CASE Reply(c)
  <2>1. /\ step[c] = "created" /\ step'[c] = "answered"
        /\ \A d \in Creations : d # c => step'[d] = step[d] /\ start'[d] = start[d]
        /\ UNCHANGED <<local, remote, damaged, disk, work, pushed, wanted, copy, localSince>>
    BY <1>1, <1>14 DEF Reply, Advance, registries, history
  <2>2. KnownIn(HeldByNode, c, localSince, pushed)
    BY <1>4, <2>1 DEF Known
  <2> QED
    BY <1>0, <1>2, <1>3, <2>1, <2>2, OneCreation DEF DistributionInv, AtNode
<1> QED
  BY <1>5, <1>6, <1>7, <1>8, <1>9, <1>10, <1>11, <1>12, <1>13, <1>14 DEF EnsureImage

-----------------------------------------------------------------------------
(* Starts *)

\* The orchestrator's goroutine of a start touches no version.
LEMMA AskedStep ==
    ASSUME DistributionInv, NEW c \in Creations, Start(c) \/ StartInBackground(c)
    PROVE  DistributionInv'
<1>1. DistributionTypeOK
  BY DEF DistributionInv
<1>2. step[c] \in AtNode
  BY DEF DistributionInv, StartedLast, Start, StartInBackground, StartOnNode, StartRefused,
     StartCancelled, Starting, ReportStart, AtNode
<1>3. /\ UNCHANGED <<registries, uploader, asked, disk, stopping, history>>
      /\ start' \in [Creations -> {"none", "pending", "accepted", "refused", "cancelled",
                                   "said"}]
      /\ work' = work \/ work' = [work EXCEPT ![c] = "asked"]
      /\ \A d \in Creations : d # c => start'[d] = start[d]
  BY <1>1 DEF Start, StartInBackground, StartOnNode, StartRefused, StartCancelled, Starting,
     ReportStart, DistributionTypeOK
<1>4. /\ work' \in [Creations -> {"none", "asked", "copying", "running", "failed", "said",
                                  "lost"}]
      /\ \A d \in Creations : work'[d] = work[d] \/ (d = c /\ work'[d] = "asked")
  BY <1>1, <1>3 DEF DistributionTypeOK
<1>5. DistributionTypeOK'
  BY <1>1, <1>3, <1>4 DEF DistributionTypeOK, registries, asked, history
<1>6. \A d \in Preparing' : d \in Preparing
  BY <1>3, <1>4 DEF Preparing, Copying, asked
<1>7. StartedLast'
  BY <1>2, <1>3, <1>4 DEF DistributionInv, StartedLast, asked
<1>8. /\ HeldByNode' = HeldByNode
      /\ UNCHANGED <<local, step, wanted, copy, disk, localSince, pushed>>
  BY <1>3 DEF HeldByNode, registries, asked, history
<1> QED
  BY <1>5, <1>6, <1>7, <1>8 DEF DistributionInv, NotBegun, LocalIsSince, ListedIsSince,
     CopyIsSince, NodeIsSince, Known, BootsPushed

\* The controller's takes its version from the node, or keeps the one it has.
LEMMA WorkStep ==
    ASSUME DistributionInv, NEW c \in Creations, StartAtNode(c) \/ StartLost(c)
    PROVE  DistributionInv'
<1>1. DistributionTypeOK /\ NoVersion \in Copies /\ HeldByNode \in Copies
  BY Versions DEF DistributionInv
<1>2. /\ work[c] # "none"
      /\ UNCHANGED <<registries, uploader, asked, start, stopping, history>>
      /\ work' \in [Creations -> {"none", "asked", "copying", "running", "failed", "said",
                                  "lost"}]
      /\ \A d \in Creations : d # c => work'[d] = work[d]
  BY <1>1 DEF StartAtNode, CopyImage, StartInstance, StartFails, PublishFailure, StartLost,
     Working, Work, DistributionTypeOK
<1>3. step[c] \in AtNode
  BY <1>2 DEF DistributionInv, StartedLast
<1>4. /\ disk' \in [Creations -> Copies]
      /\ \A d \in Creations :
            \/ disk'[d] = disk[d] /\ (d # c \/ work'[c] # "copying")
            \/ d = c /\ c \in Copying /\ disk'[d] = NoVersion
            \/ d = c /\ disk[c] = NoVersion /\ disk'[c] = HeldByNode
  <2>1. CASE CopyImage(c)
    BY <1>1, <2>1 DEF CopyImage, DistributionTypeOK
  <2>2. CASE UNCHANGED disk /\ work'[c] # "copying"
    BY <1>1, <2>2 DEF DistributionTypeOK
  <2>3. CASE DropCopy(c) /\ work'[c] # "copying"
    BY <1>1, <2>3 DEF DropCopy, DistributionTypeOK
  <2>4. CopyImage(c) \/ work'[c] # "copying"
    BY <1>1 DEF StartAtNode, StartInstance, StartFails, PublishFailure, StartLost,
       Working, Work, DistributionTypeOK
  <2> QED
    BY <2>1, <2>2, <2>3, <2>4 DEF StartAtNode, StartInstance, StartFails, PublishFailure,
       StartLost
<1>5. DistributionTypeOK'
  BY <1>1, <1>2, <1>4 DEF DistributionTypeOK, registries, asked, history
<1>6. \A d \in Preparing' : d \in Preparing
  BY <1>2, <1>3, <1>4 DEF Preparing, Copying, asked, AtNode
<1>7. StartedLast'
  BY <1>2, <1>3, <1>4 DEF DistributionInv, StartedLast, asked
<1>8. /\ HeldByNode' = HeldByNode
      /\ UNCHANGED <<local, step, wanted, copy, localSince, pushed>>
  BY <1>2 DEF HeldByNode, registries, asked, history
<1>9. /\ NotBegun' /\ LocalIsSince' /\ ListedIsSince' /\ CopyIsSince' /\ NodeIsSince'
  BY <1>6, <1>8 DEF DistributionInv, NotBegun, LocalIsSince, ListedIsSince, CopyIsSince,
     NodeIsSince, Known
<1>10. BootsPushed'
  <2>1. disk[c] = NoVersion => Known(HeldByNode, c)
    BY <1>3 DEF DistributionInv, NodeIsSince, Preparing, AtNode
  <2>2. \A d \in Creations : Known(disk[d], d)
    BY BootsKnown DEF DistributionInv
  <2>3. \A d \in Creations : Known(disk'[d], d)
    BY <1>4, <2>1, <2>2 DEF Known, KnownIn, IsVersion
  <2> QED
    BY <1>8, <2>3 DEF BootsPushed, Known, KnownIn
<1> QED
  BY <1>5, <1>7, <1>9, <1>10 DEF DistributionInv

\* What changes no version preserves the invariant.
LEMMA QuietStep ==
    ASSUME DistributionInv, Close \/ UNCHANGED distributionVars
    PROVE  DistributionInv'
<1>1. /\ UNCHANGED <<versions, local, remote, damaged, uploader, step, wanted, copy, start,
                     work, disk, localSince, pushed>>
      /\ stopping' \in BOOLEAN
  BY DEF Close, distributionVars, registries, asked, starts, history, DistributionInv,
     DistributionTypeOK
<1>2. DistributionTypeOK'
  BY <1>1 DEF DistributionInv, DistributionTypeOK
<1> QED
  BY <1>1, <1>2 DEF DistributionInv, StartedLast, NotBegun, LocalIsSince, ListedIsSince,
     CopyIsSince, NodeIsSince, Known, HeldByNode, BootsPushed, Preparing, Copying

-----------------------------------------------------------------------------
\* Every whole version on its way from the orchestrator's registry to an
\* instance's disk is one the orchestrator has held since the creation began,
\* or one that was pushed over such a version.
THEOREM DistributionInvariant == DistributionSpec => []DistributionInv
<1>1. DistributionInv /\ NextStep => DistributionInv'
  BY UserStep, CreationStep, AskedStep, WorkStep, QuietStep DEF DistributionNext, NextStep
<1> QED
  BY <1>1, DistributionInitInv, PTL DEF DistributionSpec, NextStep

\* The variables of the distribution keep their types.
THEOREM DistributionTypeCorrect == DistributionSpec => []DistributionTypeOK
BY DistributionInvariant, PTL DEF DistributionInv

\* An instance starts from a whole version of its image that was the
\* orchestrator's when it was asked for or later (ensureImage and Start,
\* whatever fails or runs side by side), or when another creation was asked
\* for, or later, that pushed its version over it.
THEOREM DistributionBootsPushed == DistributionSpec => []BootsPushed
BY DistributionInvariant, PTL DEF DistributionInv
=============================================================================
