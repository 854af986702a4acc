----------------------------- MODULE ImageRegistry -----------------------------
(***************************************************************************)
(* What the users of a file registry (pkg/protos/fileregistry.go) may      *)
(* assume of it: an image has one content, which uploads and removals      *)
(* change in one step, and a download yields the content the image had     *)
(* when it was opened.  Two things may go wrong and are part of the        *)
(* promise: an upload that overwrites an image tears what downloads of     *)
(* that image are reading, and one that does not finish leaves the image   *)
(* damaged until it is stored again or removed.  ImageStore implements it. *)
(***************************************************************************)
CONSTANTS
    Ids,        \* image ids
    Contents,   \* image contents
    Instances,  \* instances whose Start downloads an image
    None        \* absent

VARIABLES
    held,     \* id -> the content of the image or None
    damaged,  \* ids whose last change did not finish
    opened,   \* instance -> the image and the content its download reads
    copy      \* instance -> the content of its own image or None

\* What is left of an image that was overwritten or cut; no content.
Torn == "torn"

\* No download.
Closed == [id |-> None, content |-> None]

Init ==
    /\ held = [i \in Ids |-> None]
    /\ damaged = {}
    /\ opened = [x \in Instances |-> Closed]
    /\ copy = [x \in Instances |-> None]

-----------------------------------------------------------------------------
(* Uploads and removals *)

\* An upload begins to overwrite image i, under the downloads X.
Overwrite(i, X) ==
    /\ \A x \in X : opened[x].id = i
    /\ opened' = [x \in Instances |-> IF x \in X THEN [id |-> i, content |-> Torn]
                                      ELSE opened[x]]
    /\ UNCHANGED <<held, damaged, copy>>

Change(i, c) ==
    /\ held' = [held EXCEPT ![i] = c]
    /\ damaged' = damaged \ {i}
    /\ UNCHANGED <<opened, copy>>

Put(i, c) == Change(i, c)
Delete(i) == Change(i, None)

\* The upload or the removal fails halfway.
Damage(i) ==
    /\ damaged' = damaged \cup {i}
    /\ UNCHANGED <<held, opened, copy>>

-----------------------------------------------------------------------------
(* Downloads *)

Open(x, i) ==
    /\ opened[x] = Closed
    /\ held[i] # None
    /\ opened' = [opened EXCEPT ![x] =
                     [id |-> i, content |-> IF i \in damaged THEN Torn ELSE held[i]]]
    /\ UNCHANGED <<held, damaged, copy>>

\* The instance has the whole content, unless it was torn.
Finish(x) ==
    /\ opened[x] # Closed
    /\ copy' \in {[copy EXCEPT ![x] = c] :
                    c \in IF opened[x].content = Torn THEN Contents \cup {Torn}
                          ELSE {opened[x].content}}
    /\ opened' = [opened EXCEPT ![x] = Closed]
    /\ UNCHANGED <<held, damaged>>

Abort(x) ==
    /\ opened' = [opened EXCEPT ![x] = Closed]
    /\ UNCHANGED <<held, damaged, copy>>

\* The instance is removed.
Discard(x) ==
    /\ copy' = [copy EXCEPT ![x] = None]
    /\ UNCHANGED <<held, damaged, opened>>

\* The registry stops: downloads break off, and a change, of which there is one
\* at a time, remains halfway.
Crash ==
    /\ opened' = [x \in Instances |-> Closed]
    /\ \E D \in {{}} \cup {{i} : i \in Ids} : damaged' = damaged \cup D
    /\ UNCHANGED <<held, copy>>

Next ==
    \/ \E i \in Ids :
          \/ Delete(i) \/ Damage(i)
          \/ \E c \in Contents : Put(i, c)
          \/ \E X \in SUBSET Instances : Overwrite(i, X)
    \/ \E x \in Instances :
          Finish(x) \/ Abort(x) \/ Discard(x) \/ \E i \in Ids : Open(x, i)
    \/ Crash

Spec == Init /\ [][Next]_<<held, damaged, opened, copy>>
=============================================================================
