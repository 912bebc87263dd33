--------------------------- MODULE ContentPublish ---------------------------
(***************************************************************************)
(* From an ImageImport to a deployable Image: the import's ingest Job      *)
(* captures a disk into the import's scratch volume, the import creates    *)
(* one PartitionContent per partition and the Image that binds them, each  *)
(* content's publish Job copies its partition into the content's own       *)
(* volume, and the Image becomes Ready when all its contents are.  Beside  *)
(* this walk: deletion with the content's finalizer, owner references and  *)
(* garbage collection, the lifetimes of finished Jobs and imports, users   *)
(* who create and delete objects, a manager that stops between two API     *)
(* calls, and a cache that trails the API server.                          *)
(*                                                                         *)
(* Sources: internal/controller/{imageimport,partitioncontent,image}_*.go, *)
(* internal/ingest/{orchestrator,publish}.go and                           *)
(* internal/kezioctl/image_upload.go.                                      *)
(***************************************************************************)
EXTENDS Integers, FiniteSets

CONSTANTS
    Imports, Contents, Images,   \* names of ImageImports, PartitionContents, Images
    ImageOf,      \* import -> the Image its spec.imageName asks for
    ContentsOf,   \* import -> the contents of its disk's non-swap partitions
    Staged,       \* imports whose source is a staged upload, removed once captured
    Expiring,     \* imports with spec.ttlSecondsAfterFinished
    MaxEdits,     \* bound: objects users create or delete
    MaxMishaps,   \* bound: failed pods, stopped reconciles, stale reads
    None

ASSUME NamesAssumption ==
    /\ ImageOf \in [Imports -> Images]
    /\ ContentsOf \in [Imports -> (SUBSET Contents) \ {{}}]
    /\ Staged \subseteq Imports /\ Expiring \subseteq Imports
ASSUME BoundsAssumption == MaxEdits \in Nat /\ MaxMishaps \in Nat

VARIABLES
    config,    \* the manager has a Job image for ingest and for publish
    imp,       \* import -> status.state, or "gone"
    ingest,    \* import -> its ingest Job
    source,    \* imports whose source can still be fetched
    scratch,   \* import -> its scratch volume
    content,   \* content -> the PartitionContent, or None
    volume,    \* content -> its PVC, or None
    publish,   \* content -> its publish Job
    image,     \* image -> the Image, or None
    seen,      \* the manager's cache of contents and Images
    walk,      \* the import reconcile that is creating objects
    cut,       \* the content whose deletion found nothing in its way
    spent      \* bounds used, and what has happened

vars == <<config, imp, ingest, source, scratch, content, volume, publish, image, seen, walk,
          cut, spent>>
jobs == <<ingest, source, scratch>>

Unfinished == {"", "Pending", "Ingesting"}
Finished == {"Succeeded", "Failed"}
NoWalk == [imp |-> None, todo |-> {}, next |-> "record"]

ContentStates == {"", "Pending", "Publishing", "Ready", "Failed"}
Content == [by : Imports, finalizer : BOOLEAN, deleting : BOOLEAN, state : ContentStates,
            hash : Imports \cup {None}, refs : SUBSET Images, owned : BOOLEAN]
Image == [by : Imports \cup {None}, slots : SUBSET Contents, fits : BOOLEAN,
          state : {"", "Pending", "Ready", "Failed"}]
Volume == [live : BOOLEAN, holds : Imports \cup {None}]

\* What the cache shows of a content and of an Image.
SeenContent == [by : Imports, deleting : BOOLEAN, state : ContentStates]
SeenImage == [by : Imports \cup {None}, slots : SUBSET Contents]

\* None is no name and no object.
ASSUME NoneAssumption ==
    None \notin Contents \cup Content \cup Image \cup Volume \cup SeenContent \cup SeenImage

TypeOK ==
    /\ config \in BOOLEAN
    /\ imp \in [Imports -> Unfinished \cup Finished \cup {"gone"}]
    /\ ingest \in [Imports -> {"none", "running", "succeeded", "failed"}]
    /\ source \in SUBSET Imports
    /\ scratch \in [Imports -> {"none", "empty", "captured"}]
    /\ content \in [Contents -> Content \cup {None}]
    /\ volume \in [Contents -> Volume \cup {None}]
    /\ publish \in [Contents -> {"none", "running", "succeeded", "failed"}]
    /\ image \in [Images -> Image \cup {None}]
    /\ seen \in [content : [Contents -> SeenContent \cup {None}],
                image : [Images -> SeenImage \cup {None}]]
    /\ walk \in [imp : Imports \cup {None}, todo : SUBSET Contents,
                 next : {"content", "image", "record"}]
    /\ cut \in Contents \cup {None}
    /\ spent \in [edits : 0..MaxEdits, mishaps : 0..MaxMishaps, stale : BOOLEAN,
                  expired : SUBSET Imports, reused : SUBSET Contents]

Init ==
    /\ config = FALSE
    /\ imp = [i \in Imports |-> ""] /\ ingest = [i \in Imports |-> "none"]
    /\ source = Imports /\ scratch = [i \in Imports |-> "none"]
    /\ content = [n \in Contents |-> None] /\ volume = [n \in Contents |-> None]
    /\ publish = [n \in Contents |-> "none"]
    /\ image = [m \in Images |-> None]
    /\ seen = [content |-> content, image |-> image]
    /\ walk = NoWalk /\ cut = None
    /\ spent = [edits |-> 0, mishaps |-> 0, stale |-> FALSE, expired |-> {}, reused |-> {}]

(***************************************************************************)
(* Bounds, and the cache.                                                  *)
(***************************************************************************)
Mishap == spent.mishaps < MaxMishaps /\ spent' = [spent EXCEPT !.mishaps = @ + 1]
Edit == spent.edits < MaxEdits /\ spent' = [spent EXCEPT !.edits = @ + 1]

\* What readers look at, of a content and of an Image.
Shown(c) == IF c = None THEN None ELSE [by |-> c.by, deleting |-> c.deleting, state |-> c.state]
ShownImage(m) == IF m = None THEN None ELSE [by |-> m.by, slots |-> m.slots]
Cached(n) == seen.content[n] = Shown(content[n])
CachedImage(m) == seen.image[m] = ShownImage(image[m])

\* A Get or List that finds the cache behind the API server is counted.
Reads(fresh) ==
    IF fresh THEN UNCHANGED spent
    ELSE /\ spent.mishaps < MaxMishaps
         /\ spent' = [spent EXCEPT !.mishaps = @ + 1, !.stale = TRUE]

\* A watch event arrives.
CacheContent(n) ==
    /\ ~Cached(n)
    /\ seen' = [seen EXCEPT !.content[n] = Shown(content[n])]
    /\ UNCHANGED <<config, imp, jobs, content, volume, publish, image, walk, cut, spent>>

CacheImage(m) ==
    /\ ~CachedImage(m)
    /\ seen' = [seen EXCEPT !.image[m] = ShownImage(image[m])]
    /\ UNCHANGED <<config, imp, jobs, content, volume, publish, image, walk, cut, spent>>

\* The manager restarts with the Job images configured.
Configure ==
    /\ ~config /\ config' = TRUE
    /\ UNCHANGED <<imp, jobs, content, volume, publish, image, seen, walk, cut, spent>>

(***************************************************************************)
(* The ImageImport controller and the ingest Job.                          *)
(***************************************************************************)
SetImport(i, s) == imp' = [imp EXCEPT ![i] = s]

\* recordImportPending
ImportWaits(i) ==
    /\ imp[i] \in Unfinished \ {"Pending"} /\ walk = NoWalk /\ ~config
    /\ SetImport(i, "Pending")
    /\ UNCHANGED <<config, jobs, content, volume, publish, image, seen, walk, cut, spent>>

\* reconcileIngesting without a Job: ensure the scratch volume, create the Job.
StartIngest(i) ==
    /\ imp[i] \in Unfinished /\ walk = NoWalk /\ config /\ ingest[i] = "none"
    /\ scratch' = [scratch EXCEPT ![i] = IF @ = "none" THEN "empty" ELSE @]
    /\ ingest' = [ingest EXCEPT ![i] = "running"]
    /\ SetImport(i, "Ingesting")
    /\ UNCHANGED <<config, source, content, volume, publish, image, seen, walk, cut, spent>>

\* reconcileIngesting with a failed Job, or completeIngest with no termination message in
\* the cached Pods.
IngestGivesUp(i) ==
    /\ imp[i] \in Unfinished /\ walk = NoWalk /\ config
    /\ \/ ingest[i] = "failed" /\ UNCHANGED spent
       \/ ingest[i] = "succeeded" /\ Mishap
    /\ SetImport(i, "Failed")
    /\ UNCHANGED <<config, jobs, content, volume, publish, image, seen, walk, cut>>

\* completeIngest reads the result and turns to the contents.
CompleteIngest(i) ==
    /\ imp[i] \in Unfinished /\ walk = NoWalk /\ config /\ ingest[i] = "succeeded"
    /\ walk' = [imp |-> i, todo |-> ContentsOf[i], next |-> "content"]
    /\ UNCHANGED <<config, imp, jobs, content, volume, publish, image, seen, cut, spent>>

NewContent(i) == [by |-> i, finalizer |-> FALSE, deleting |-> FALSE, state |-> "", hash |-> None,
                  refs |-> {}, owned |-> FALSE]

\* Mutant: whatever already has the name is taken for the import's own.
TakenByAny(obj, i) == FALSE
TakenByOther(obj, i) == obj # None /\ obj.by # i

\* ensureImportedContent, for the partitions in turn: an object of another origin fails the
\* import, a missing one is created, and AlreadyExists counts as created.
EnsureContent(n) ==
    /\ walk.next = "content" /\ n \in walk.todo
    /\ Reads(Cached(n))
    /\ IF TakenByOther(seen.content[n], walk.imp)
       THEN SetImport(walk.imp, "Failed") /\ walk' = NoWalk /\ UNCHANGED content
       ELSE /\ walk' = [walk EXCEPT !.todo = @ \ {n},
                                    !.next = IF walk.todo = {n} THEN "image" ELSE @]
            /\ content' = IF seen.content[n] = None /\ content[n] = None
                          THEN [content EXCEPT ![n] = NewContent(walk.imp)] ELSE content
            /\ UNCHANGED imp
    /\ UNCHANGED <<config, jobs, volume, publish, image, seen, cut>>

\* ensureImportedImage, the same for the Image.
EnsureImage ==
    LET m == ImageOf[walk.imp]
    IN /\ walk.next = "image"
       /\ Reads(CachedImage(m))
       /\ IF TakenByOther(seen.image[m], walk.imp)
          THEN SetImport(walk.imp, "Failed") /\ walk' = NoWalk /\ UNCHANGED image
          ELSE /\ walk' = [walk EXCEPT !.next = "record"]
               /\ image' = IF seen.image[m] = None /\ image[m] = None
                           THEN [image EXCEPT ![m] =
                                   [by |-> walk.imp, slots |-> ContentsOf[walk.imp],
                                    fits |-> TRUE, state |-> ""]]
                           ELSE image
               /\ UNCHANGED imp
       /\ UNCHANGED <<config, jobs, content, volume, publish, seen, cut>>

\* recordImportSucceeded
RecordSucceeded ==
    /\ walk.imp # None /\ walk.next = "record"
    /\ SetImport(walk.imp, "Succeeded") /\ walk' = NoWalk
    /\ UNCHANGED <<config, jobs, content, volume, publish, image, seen, cut, spent>>

\* The manager stops, or an API call fails, between two of these calls.
Interrupt ==
    /\ \/ walk # NoWalk /\ walk' = NoWalk /\ UNCHANGED cut
       \/ cut # None /\ cut' = None /\ UNCHANGED walk
    /\ Mishap
    /\ UNCHANGED <<config, imp, jobs, content, volume, publish, image, seen>>

\* The ingest Job: fetch or resolve the source, capture every partition, and remove a
\* staged source.
IngestRuns(i) ==
    /\ ingest[i] = "running" /\ scratch[i] # "none"
    /\ \/ /\ i \in source
          /\ ingest' = [ingest EXCEPT ![i] = "succeeded"]
          /\ scratch' = [scratch EXCEPT ![i] = "captured"]
          /\ source' = source \ ({i} \cap Staged)
          /\ UNCHANGED spent
       \/ /\ i \notin source
          /\ ingest' = [ingest EXCEPT ![i] = "failed"]
          /\ UNCHANGED <<scratch, source, spent>>
       \/ /\ ingest' = [ingest EXCEPT ![i] = "failed"]
          /\ Mishap
          /\ UNCHANGED <<scratch, source>>
    /\ UNCHANGED <<config, imp, content, volume, publish, image, seen, walk, cut>>

\* ttlSecondsAfterFinished of the Job passes before the manager has acted on its result.
IngestJobExpires(i) ==
    /\ ingest[i] \in {"succeeded", "failed"} /\ imp[i] \in Unfinished /\ walk.imp # i
    /\ ingest' = [ingest EXCEPT ![i] = "none"]
    /\ Mishap
    /\ UNCHANGED <<config, imp, source, scratch, content, volume, publish, image, seen, walk, cut>>

\* enforceImportTTL deletes a finished import; its Job and scratch volume are collected
\* once no publish Job has the volume mounted.
ImportExpires(i) ==
    /\ i \in Expiring /\ imp[i] \in Finished
    /\ SetImport(i, "gone")
    /\ ingest' = [ingest EXCEPT ![i] = "none"] /\ scratch' = [scratch EXCEPT ![i] = "none"]
    /\ spent' = [spent EXCEPT !.expired = @ \cup {i}]
    /\ UNCHANGED <<config, source, content, volume, publish, image, seen, walk, cut>>

(***************************************************************************)
(* The PartitionContent controller and the publish Job.                    *)
(***************************************************************************)
Live(n) == content[n] # None /\ ~content[n].deleting

AddFinalizer(n) ==
    /\ Live(n) /\ Cached(n) /\ ~content[n].finalizer
    /\ content' = [content EXCEPT ![n].finalizer = TRUE]
    /\ UNCHANGED <<config, imp, jobs, volume, publish, image, seen, walk, cut, spent>>

\* ensureContentPVC: whatever PVC has the name is the content's.
EnsureVolume(n) ==
    IF volume[n] = None THEN [live |-> TRUE, holds |-> None] ELSE volume[n]

\* Mutants: a Job that has not failed is taken to have succeeded; one that failed is
\* taken to be running still.
OutcomeNotFailed(n) == IF publish[n] = "running" THEN "succeeded" ELSE publish[n]
OutcomeNoFailure(n) == IF publish[n] = "failed" THEN "running" ELSE publish[n]
OutcomeOf(n) == publish[n]

\* onChange: Ready stays; without a Job create one, or wait for configuration; otherwise
\* follow the Job.  A finished Job whose result cannot be read fails the content.
Publish(n) ==
    /\ Live(n) /\ Cached(n) /\ content[n].finalizer
    /\ volume' = [volume EXCEPT ![n] = EnsureVolume(n)]
    /\ spent' = [spent EXCEPT
                   !.reused = IF volume[n] # None /\ ~volume[n].live THEN @ \cup {n} ELSE @]
    /\ \/ content[n].state = "Ready" /\ UNCHANGED <<content, publish>>
       \/ /\ content[n].state # "Ready" /\ OutcomeOf(n) = "none"
          /\ publish' = IF config THEN [publish EXCEPT ![n] = "running"] ELSE publish
          /\ content' = [content EXCEPT ![n].state = IF config THEN "Publishing" ELSE "Pending"]
       \/ /\ content[n].state # "Ready" /\ OutcomeOf(n) = "running"
          /\ content' = [content EXCEPT ![n].state = "Publishing"]
          /\ UNCHANGED publish
       \/ /\ content[n].state # "Ready" /\ OutcomeOf(n) = "succeeded"
          /\ content' = [content EXCEPT ![n].state = "Ready", ![n].hash = volume'[n].holds]
          /\ UNCHANGED publish
       \/ /\ content[n].state # "Ready" /\ OutcomeOf(n) = "failed"
          /\ content' = [content EXCEPT ![n].state = "Failed"]
          /\ UNCHANGED publish
    /\ <<content', volume', publish', spent'>> # <<content, volume, publish, spent>>
    /\ UNCHANGED <<config, imp, jobs, image, seen, walk, cut>>

\* completePublish finds no termination message in the cached Pods.
PublishUnread(n) ==
    /\ Live(n) /\ Cached(n) /\ content[n].state # "Ready" /\ publish[n] = "succeeded"
    /\ content' = [content EXCEPT ![n].state = "Failed"]
    /\ Mishap
    /\ UNCHANGED <<config, imp, jobs, volume, publish, image, seen, walk, cut>>

\* The publish pod needs both volumes to start; it copies, validates and hashes.
PublishRuns(n) ==
    /\ publish[n] = "running" /\ volume[n] # None /\ scratch[content[n].by] # "none"
    /\ \/ /\ scratch[content[n].by] = "captured"
          /\ volume' = [volume EXCEPT ![n].holds = content[n].by]
          /\ publish' = [publish EXCEPT ![n] = "succeeded"]
          /\ UNCHANGED spent
       \/ /\ publish' = [publish EXCEPT ![n] = "failed"]
          /\ Mishap /\ UNCHANGED volume
    /\ UNCHANGED <<config, imp, jobs, content, image, seen, walk, cut>>

\* ttlSecondsAfterFinished of the publish Job passes.  A Ready content never looks at its
\* Job again, so only a Failed one's matters.
PublishJobExpires(n) ==
    /\ publish[n] \in {"succeeded", "failed"} /\ content[n].state = "Failed"
    /\ publish' = [publish EXCEPT ![n] = "none"]
    /\ UNCHANGED <<config, imp, jobs, content, volume, image, seen, walk, cut, spent>>

(***************************************************************************)
(* Deletion of contents.                                                   *)
(***************************************************************************)
\* A delete call or the garbage collector marks the object, or removes one that has no
\* finalizer.  A removed content's volume loses its owner.
Delete(n) ==
    IF content[n].finalizer
    THEN content' = [content EXCEPT ![n].deleting = TRUE] /\ UNCHANGED <<volume, publish>>
    ELSE /\ content' = [content EXCEPT ![n] = None]
         /\ volume' = [volume EXCEPT ![n] = IF @ = None THEN None ELSE [@ EXCEPT !.live = FALSE]]
         /\ publish' = [publish EXCEPT ![n] = "none"]

DeleteContent(n) ==
    /\ Live(n) /\ Edit /\ Delete(n)
    /\ UNCHANGED <<config, imp, jobs, image, seen, walk, cut>>

\* Every Image that owned the content is gone.
CollectContent(n) ==
    /\ Live(n) /\ content[n].owned /\ content[n].refs = {}
    /\ Delete(n)
    /\ UNCHANGED <<config, imp, jobs, image, seen, walk, cut, spent>>

\* blockingReferences: cached Images with a slot naming the content.  An active DeployRun
\* blocks only through an Image that still exists, so it adds nothing to these.
Blockers(n) == {m \in Images : seen.image[m] # None /\ n \in seen.image[m].slots}

\* onDelete: with no blockers the publish Job is deleted and the finalizer is to go.
CheckBlockers(n) ==
    /\ cut = None /\ Cached(n) /\ content[n] # None /\ content[n].deleting
    /\ Reads(\A m \in Images : CachedImage(m))
    /\ Blockers(n) = {}
    /\ publish' = [publish EXCEPT ![n] = "none"]
    /\ cut' = n
    /\ UNCHANGED <<config, imp, jobs, content, volume, image, seen, walk>>

\* The Update that removes the finalizer; a patch in between makes it conflict (ReconcileImage).
RemoveFinalizer ==
    /\ cut # None /\ cut' = None
    /\ content' = [content EXCEPT ![cut] = None]
    /\ volume' = [volume EXCEPT ![cut] = IF @ = None THEN None ELSE [@ EXCEPT !.live = FALSE]]
    /\ UNCHANGED <<config, imp, jobs, publish, image, seen, walk, spent>>

\* The garbage collector removes a volume whose content is gone.
CollectVolume(n) ==
    /\ volume[n] # None /\ ~volume[n].live
    /\ volume' = [volume EXCEPT ![n] = None]
    /\ UNCHANGED <<config, imp, jobs, content, publish, image, seen, walk, cut, spent>>

(***************************************************************************)
(* The Image controller, and users' Images.                                *)
(***************************************************************************)
\* Admission refuses a slot smaller than a content that already exists.
UserImage(m, slots, fits) ==
    /\ image[m] = None /\ Edit
    /\ fits \/ \E n \in slots : content[n] = None
    /\ image' = [image EXCEPT ![m] = [by |-> None, slots |-> slots, fits |-> fits, state |-> ""]]
    /\ UNCHANGED <<config, imp, jobs, content, volume, publish, seen, walk, cut>>

DeleteImage(m) ==
    /\ image[m] # None /\ Edit
    /\ image' = [image EXCEPT ![m] = None]
    /\ content' = [n \in Contents |->
                     IF content[n] = None THEN None
                     ELSE [content[n] EXCEPT !.refs = @ \ {m}]]
    /\ UNCHANGED <<config, imp, jobs, volume, publish, seen, walk, cut>>

\* ensureContentOwnerRefs: a patch on every content of a slot that the cache shows.
Owned(m) ==
    [n \in Contents |->
       IF n \in image[m].slots /\ seen.content[n] # None /\ content[n] # None
       THEN [content[n] EXCEPT !.refs = @ \cup {m}, !.owned = TRUE] ELSE content[n]]

\* Mutant: the observedGeneration of a content's conditions is not looked at.
NeverStale(n) == FALSE
\* aggregateSlotContents.  A delete bumps the generation, so the conditions of a content
\* that is being deleted are stale.
StaleSlot(n) == seen.content[n] # None /\ seen.content[n].state # "" /\ seen.content[n].deleting
FailedSlot(n) == seen.content[n] # None /\ seen.content[n].state = "Failed"
ReadySlot(n) == seen.content[n] # None /\ seen.content[n].state = "Ready"

Aggregate(m) ==
    IF image[m].state = "Ready" \/ \E n \in image[m].slots : StaleSlot(n) THEN image[m].state
    ELSE IF \E n \in image[m].slots : FailedSlot(n) THEN "Failed"
    ELSE IF image[m].fits /\ \A n \in image[m].slots : ReadySlot(n) THEN "Ready"
    ELSE "Pending"

ReconcileImage(m) ==
    /\ image[m] # None /\ CachedImage(m)
    /\ content' = Owned(m)
    /\ image' = [image EXCEPT ![m].state = Aggregate(m)]
    /\ <<content', image'>> # <<content, image>>
    /\ Reads(\A n \in image[m].slots : Cached(n))
    /\ cut' = IF cut # None /\ content'[cut] # content[cut] THEN None ELSE cut
    /\ UNCHANGED <<config, imp, jobs, volume, publish, seen, walk>>

-----------------------------------------------------------------------------
Controllers ==
    \/ \E i \in Imports : \/ ImportWaits(i) \/ StartIngest(i) \/ IngestGivesUp(i)
                          \/ CompleteIngest(i)
    \/ \E n \in Contents : EnsureContent(n) \/ AddFinalizer(n) \/ Publish(n) \/ PublishUnread(n)
                           \/ CheckBlockers(n)
    \/ EnsureImage \/ RecordSucceeded \/ RemoveFinalizer
    \/ \E m \in Images : ReconcileImage(m)

Cluster ==
    \/ Configure \/ Interrupt
    \/ \E i \in Imports : IngestRuns(i) \/ IngestJobExpires(i) \/ ImportExpires(i)
    \/ \E n \in Contents : \/ CacheContent(n) \/ PublishRuns(n) \/ PublishJobExpires(n)
                           \/ CollectContent(n) \/ CollectVolume(n)
    \/ \E m \in Images : CacheImage(m)

Users ==
    \/ \E n \in Contents : DeleteContent(n)
    \/ \E m \in Images : \/ DeleteImage(m)
                         \/ \E slots \in (SUBSET Contents) \ {{}}, fits \in BOOLEAN :
                              UserImage(m, slots, fits)

Next == Controllers \/ Cluster \/ Users

Spec == Init /\ [][Next]_vars

\* Work queues, watches and pods go on; users and accidents need not happen.
FairSpec ==
    /\ Spec
    /\ WF_vars(Configure)
    /\ WF_vars(EnsureImage \/ RecordSucceeded) /\ WF_vars(RemoveFinalizer)
    /\ \A i \in Imports : /\ WF_vars(StartIngest(i)) /\ WF_vars(IngestGivesUp(i))
                          /\ SF_vars(CompleteIngest(i)) /\ WF_vars(IngestRuns(i))
    /\ \A n \in Contents : /\ WF_vars(CacheContent(n)) /\ WF_vars(EnsureContent(n))
                           /\ WF_vars(AddFinalizer(n)) /\ WF_vars(Publish(n))
                           /\ WF_vars(PublishRuns(n)) /\ WF_vars(PublishJobExpires(n))
                           /\ SF_vars(CheckBlockers(n)) /\ WF_vars(CollectContent(n))
    /\ \A m \in Images : WF_vars(CacheImage(m)) /\ WF_vars(ReconcileImage(m))

(***************************************************************************)
(* Properties.                                                             *)
(***************************************************************************)
\* A Ready content's volume holds what its own import captured, under the recorded hash,
\* unless it took over the volume of a deleted content of the same name.
ReadyHoldsItsBytes ==
    \A n \in Contents \ spent.reused :
      content[n] # None /\ content[n].state = "Ready"
        => /\ content[n].hash = content[n].by
           /\ volume[n] # None /\ volume[n].holds = content[n].by

\* A Ready Image never loses a content: whatever users delete and however late the cache
\* is, every content it names exists and is Ready.
ReadyImageStaysWhole ==
    \A m \in Images : image[m] # None /\ image[m].state = "Ready" =>
      \A n \in image[m].slots : content[n] # None /\ content[n].state = "Ready"

\* While nobody edits objects and reads are current, an import that reports Succeeded has
\* made its Image and every content of it itself.
SucceededMadeItsOwn ==
    [][\A i \in Imports :
         imp[i] # "Succeeded" /\ imp'[i] = "Succeeded" /\ spent'.edits = 0 /\ ~spent'.stale =>
           /\ image'[ImageOf[i]] # None /\ image'[ImageOf[i]].by = i
           /\ \A n \in ContentsOf[i] : content'[n] # None /\ content'[n].by = i]_vars

\* Every content ends Ready, Failed or deleted, unless the import whose scratch volume it
\* is copied from expired first.
ContentSettles ==
    \A n \in Contents :
      content[n] # None ~> \/ content[n] = None
                           \/ content[n].state \in {"Ready", "Failed"}
                           \/ content[n].deleting
                           \/ content[n].by \in spent.expired

(***************************************************************************)
(* What the code does not keep.                                            *)
(***************************************************************************)
\* observeImportWait, which kezioctl image upload --wait polls.
Observed(i) ==
    LET m == image[ImageOf[i]]
    IN IF imp[i] = "gone" THEN "failed"
       ELSE IF m # None /\ m.state = "Ready" THEN "ready"
       ELSE IF imp[i] = "Failed" \/ (m # None /\ m.state = "Failed") THEN "failed"
       ELSE "waiting"

\* An upload that waits is told of a name that was already taken.
WaitTellsTruth == \A i \in Imports : Observed(i) = "ready" => image[ImageOf[i]].by = i

\* An existing object of any other origin is a conflict, also when the cache is late.
SucceededIsItsOwn ==
    [][\A i \in Imports :
         imp[i] # "Succeeded" /\ imp'[i] = "Succeeded" /\ spent'.edits = 0 =>
           \A n \in ContentsOf[i] : content'[n] # None /\ content'[n].by = i]_vars

\* A content's volume is its own also when a content of that name was deleted before.
ReadyAlwaysHoldsBytes ==
    \A n \in Contents :
      content[n] # None /\ content[n].state = "Ready" =>
        volume[n] # None /\ volume[n].holds = content[n].by

\* Deleting an expired import takes nothing with it that its contents still need.
ContentAlwaysSettles ==
    \A n \in Contents :
      content[n] # None ~> \/ content[n] = None
                           \/ content[n].state \in {"Ready", "Failed"}
                           \/ content[n].deleting

\* A publish Job that failed is not retried unless an operator deletes it or the content.
FailedIsNotRetried ==
    [][\A n \in Contents :
         content[n] # None /\ content[n].state = "Failed" /\ spent'.edits = 0 =>
           content'[n] # None /\ content'[n].state # "Publishing"]_vars
==============================================================================
