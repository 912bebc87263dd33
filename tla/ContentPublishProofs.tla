------------------------ MODULE ContentPublishProofs ------------------------
(***************************************************************************)
(* Proofs about ContentPublish, for any imports, contents and Images, any  *)
(* number of edits and mishaps, and a cache of any age: a Ready content    *)
(* holds its own bytes, a Ready Image keeps its contents, and an import    *)
(* that reports success has made its objects itself.                       *)
(***************************************************************************)
EXTENDS ContentPublish, TLAPS

-----------------------------------------------------------------------------
(* The bounds, and what they record.                                       *)

Spent == [edits : 0..MaxEdits, mishaps : 0..MaxMishaps, stale : BOOLEAN,
          expired : SUBSET Imports, reused : SUBSET Contents]

\* What is recorded stays recorded.
SpentGrows ==
    /\ spent' \in Spent
    /\ spent'.edits = 0 => spent.edits = 0
    /\ ~spent'.stale => ~spent.stale
    /\ spent.reused \subseteq spent'.reused

\* A mishap is counted.
LEMMA MishapFacts ==
    ASSUME spent \in Spent, Mishap
    PROVE  SpentGrows /\ spent'.edits = spent.edits
<1>1. spent.mishaps + 1 \in 0..MaxMishaps
    BY BoundsAssumption DEF Mishap, Spent
<1>2. spent' = [spent EXCEPT !.mishaps = spent.mishaps + 1]
    BY DEF Mishap
<1> QED
    BY <1>1, <1>2 DEF Spent, SpentGrows

\* An edit is counted, and stays counted.
LEMMA EditFacts ==
    ASSUME spent \in Spent, Edit
    PROVE  SpentGrows /\ spent'.edits # 0
<1>1. spent.edits + 1 \in 0..MaxEdits /\ spent.edits + 1 # 0
    BY BoundsAssumption DEF Edit, Spent
<1>2. spent' = [spent EXCEPT !.edits = spent.edits + 1]
    BY DEF Edit
<1> QED
    BY <1>1, <1>2 DEF Spent, SpentGrows

\* While no stale read is recorded, what was read is current.
LEMMA ReadsFacts ==
    ASSUME spent \in Spent, NEW fresh, Reads(fresh)
    PROVE  SpentGrows /\ (~spent'.stale => fresh)
<1>1. CASE fresh /\ UNCHANGED spent
    BY <1>1 DEF SpentGrows
<1>2. CASE ~(fresh /\ UNCHANGED spent)
    <2>1. spent.mishaps < MaxMishaps
          /\ spent' = [spent EXCEPT !.mishaps = spent.mishaps + 1, !.stale = TRUE]
        BY <1>2 DEF Reads
    <2>2. spent.mishaps + 1 \in 0..MaxMishaps
        BY <2>1, BoundsAssumption DEF Spent
    <2> QED
        BY <2>1, <2>2, Zenon DEF Spent, SpentGrows
<1> QED
    BY <1>1, <1>2

-----------------------------------------------------------------------------
(* Types.                                                                  *)

\* The parts of TypeOK that the actions below share.
Objects ==
    /\ content \in [Contents -> Content \cup {None}]
    /\ volume \in [Contents -> Volume \cup {None}]
    /\ publish \in [Contents -> {"none", "running", "succeeded", "failed"}]
    /\ image \in [Images -> Image \cup {None}]
    /\ seen \in [content : [Contents -> SeenContent \cup {None}],
                 image : [Images -> SeenImage \cup {None}]]
    /\ walk \in [imp : Imports \cup {None}, todo : SUBSET Contents,
                 next : {"content", "image", "record"}]
    /\ cut \in Contents \cup {None}
    /\ spent \in Spent

Captures ==
    /\ config \in BOOLEAN
    /\ imp \in [Imports -> Unfinished \cup Finished \cup {"gone"}]
    /\ ingest \in [Imports -> {"none", "running", "succeeded", "failed"}]
    /\ source \in SUBSET Imports
    /\ scratch \in [Imports -> {"none", "empty", "captured"}]

\* The type invariant in two parts.
LEMMA TypeParts == TypeOK <=> Objects /\ Captures
    BY DEF TypeOK, Objects, Captures, Spent

\* A content that is not None is one, and so on.
LEMMA ObjectFacts ==
    ASSUME Objects
    PROVE  /\ \A n \in Contents : /\ content[n] # None => content[n] \in Content
                                  /\ volume[n] # None => volume[n] \in Volume
                                  /\ seen.content[n] # None => seen.content[n] \in SeenContent
           /\ \A m \in Images : /\ image[m] # None => image[m] \in Image
                                /\ seen.image[m] # None => seen.image[m] \in SeenImage
    BY DEF Objects

\* What is shown of an object is of the cache's type, and is None only for None.
LEMMA ShownFacts ==
    /\ \A c \in Content : /\ Shown(c) \in SeenContent /\ Shown(c) # None
                          /\ Shown(c).by = c.by /\ Shown(c).deleting = c.deleting
                          /\ Shown(c).state = c.state
    /\ \A m \in Image : /\ ShownImage(m) \in SeenImage /\ ShownImage(m) # None
                        /\ ShownImage(m).by = m.by /\ ShownImage(m).slots = m.slots
    /\ Shown(None) = None /\ ShownImage(None) = None
<1>1. ASSUME NEW c \in Content
      PROVE  /\ Shown(c) \in SeenContent /\ Shown(c) # None
             /\ Shown(c).by = c.by /\ Shown(c).deleting = c.deleting /\ Shown(c).state = c.state
    <2>1. Shown(c) = [by |-> c.by, deleting |-> c.deleting, state |-> c.state]
        BY NoneAssumption DEF Shown
    <2>2. Shown(c) \in SeenContent
        BY <2>1 DEF SeenContent, Content
    <2> QED
        BY <2>1, <2>2, NoneAssumption
<1>2. ASSUME NEW m \in Image
      PROVE  /\ ShownImage(m) \in SeenImage /\ ShownImage(m) # None
             /\ ShownImage(m).by = m.by /\ ShownImage(m).slots = m.slots
    <2>1. ShownImage(m) = [by |-> m.by, slots |-> m.slots]
        BY NoneAssumption DEF ShownImage
    <2>2. m.by \in Imports \cup {None} /\ m.slots \in SUBSET Contents
        BY Zenon DEF Image
    <2>3. ShownImage(m) \in SeenImage
        BY <2>1, <2>2 DEF SeenImage
    <2> QED
        BY <2>1, <2>3, NoneAssumption
<1> QED
    BY <1>1, <1>2 DEF Shown, ShownImage

\* Steps apart from contents and Images: configuration, ingest Jobs, expiry of imports.
Apart == UNCHANGED <<content, volume, publish, image, seen, walk, cut>> /\ SpentGrows

Ingests(i) ==
    \/ ImportWaits(i) \/ StartIngest(i) \/ IngestGivesUp(i)
    \/ IngestRuns(i) \/ IngestJobExpires(i) \/ ImportExpires(i)

\* These steps keep their own variables well-typed.
LEMMA IngestsFacts ==
    ASSUME TypeOK, Configure \/ \E i \in Imports : Ingests(i)
    PROVE  Apart /\ Captures'
<1>1. spent \in Spent /\ Captures
    BY TypeParts DEF Objects
<1>2. ASSUME UNCHANGED spent PROVE SpentGrows
    BY <1>1, <1>2 DEF SpentGrows
<1>3. CASE Configure
    BY <1>1, <1>2, <1>3 DEF Configure, Apart, Captures, jobs
<1>4. ASSUME NEW i \in Imports, Ingests(i)
      PROVE  Apart /\ Captures'
    <2>1. UNCHANGED <<content, volume, publish, image, seen, walk, cut>>
        BY <1>4 DEF Ingests, ImportWaits, StartIngest, IngestGivesUp, IngestRuns,
                    IngestJobExpires, ImportExpires
    <2>2. SpentGrows
        <3>1. CASE UNCHANGED spent \/ Mishap
            BY <1>1, <1>2, <3>1, MishapFacts
        <3>2. CASE ImportExpires(i)
            <4>1. spent' = [spent EXCEPT !.expired = spent.expired \cup {i}]
                BY <3>2 DEF ImportExpires
            <4>2. spent.expired \cup {i} \in SUBSET Imports
                BY <1>1 DEF Spent
            <4> QED
                BY <1>1, <4>1, <4>2 DEF Spent, SpentGrows
        <3> QED
            BY <1>4, <3>1, <3>2 DEF Ingests, ImportWaits, StartIngest, IngestGivesUp, IngestRuns,
                                    IngestJobExpires
    <2>3. Captures'
        <3> USE <1>1 DEF Captures, SetImport, Unfinished, Finished, jobs
        <3>1. CASE ImportWaits(i)
            BY <3>1, Zenon DEF ImportWaits
        <3>2. CASE StartIngest(i)
            BY <3>2, Zenon DEF StartIngest
        <3>3. CASE IngestGivesUp(i)
            BY <3>3, Zenon DEF IngestGivesUp
        <3>4. CASE IngestRuns(i)
            BY <3>4, Zenon DEF IngestRuns
        <3>5. CASE IngestJobExpires(i)
            BY <3>5, Zenon DEF IngestJobExpires
        <3>6. CASE ImportExpires(i)
            BY <3>6, Zenon DEF ImportExpires
        <3> QED
            BY <1>4, <3>1, <3>2, <3>3, <3>4, <3>5, <3>6, Zenon DEF Ingests
    <2> QED
        BY <2>1, <2>2, <2>3 DEF Apart
<1> QED
    BY <1>3, <1>4

\* The walk of an import through its objects: it turns to the contents, creates
\* what is missing, or ends.
Walks ==
    \/ \E i \in Imports : CompleteIngest(i)
    \/ \E n \in Contents : EnsureContent(n)
    \/ EnsureImage \/ RecordSucceeded \/ Interrupt

\* An import that walks through its objects has a name.
WalkInv == walk.next # "record" => walk.imp \in Imports

\* What the walk may do to a content or an Image: create it.
Created(n) ==
    /\ content[n] = None /\ content'[n] \in Content
    /\ walk.imp \in Imports /\ content'[n].by = walk.imp
    /\ content'[n].state = "" /\ ~content'[n].deleting /\ ~content'[n].owned
WalkCreates ==
    /\ \A n \in Contents : content'[n] = content[n] \/ Created(n)
    /\ \A m \in Images : image'[m] = image[m] \/ (image[m] = None /\ image'[m].state = "")

\* The walk creates and takes nothing away.
LEMMA WalksFacts ==
    ASSUME TypeOK, WalkInv, Walks
    PROVE  /\ TypeOK' /\ WalkInv' /\ SpentGrows
           /\ UNCHANGED <<volume, publish, seen>> /\ cut' \in {cut, None}
           /\ WalkCreates
<1>1. Objects /\ Captures /\ spent \in Spent
    BY TypeParts DEF Objects
<1>2. ASSUME UNCHANGED spent PROVE SpentGrows
    BY <1>1, <1>2 DEF SpentGrows
<1>3. UNCHANGED <<volume, publish, seen, config, jobs>> /\ cut' \in {cut, None}
    BY Zenon DEF Walks, CompleteIngest, EnsureContent, EnsureImage, RecordSucceeded, Interrupt
<1>4. NoWalk \in [imp : Imports \cup {None}, todo : SUBSET Contents,
                  next : {"content", "image", "record"}] /\ NoWalk.next = "record"
    BY DEF NoWalk
<1>5. ASSUME Objects', Captures' PROVE TypeOK'
    BY <1>5 DEF TypeOK, Objects, Captures, Spent
<1>6. CASE \E i \in Imports : CompleteIngest(i)
    <2>1. PICK i \in Imports : CompleteIngest(i)
        BY <1>6
    <2>2. walk' = [imp |-> i, todo |-> ContentsOf[i], next |-> "content"]
          /\ ContentsOf[i] \in SUBSET Contents
          /\ UNCHANGED <<imp, content, image, cut, spent>>
        BY <2>1, NamesAssumption DEF CompleteIngest
    <2>3. /\ walk' \in [imp : Imports \cup {None}, todo : SUBSET Contents,
                        next : {"content", "image", "record"}]
          /\ WalkInv'
        BY <2>2 DEF WalkInv
    <2> QED
        BY <1>1, <1>2, <1>3, <1>5, <2>2, <2>3 DEF Objects, Captures, WalkCreates, jobs
<1>7. CASE \E n \in Contents : EnsureContent(n)
    <2>1. PICK n \in Contents : EnsureContent(n)
        BY <1>7
    <2>2. walk.imp \in Imports /\ walk.next = "content" /\ UNCHANGED <<image, cut>>
        BY <2>1 DEF EnsureContent, WalkInv
    <2>3. SpentGrows
        BY <1>1, <2>1, ReadsFacts DEF EnsureContent
    <2>4. CASE imp' = [imp EXCEPT ![walk.imp] = "Failed"] /\ walk' = NoWalk /\ UNCHANGED content
        BY <1>1, <1>3, <1>4, <1>5, <2>2, <2>3, <2>4, ZenonT(40)
        DEF Objects, Captures, WalkCreates, WalkInv, SpentGrows, jobs, Unfinished, Finished
    <2>5. CASE /\ walk' = [walk EXCEPT !.todo = walk.todo \ {n},
                                       !.next = IF walk.todo = {n} THEN "image" ELSE walk.next]
               /\ \/ content[n] = None /\ content' = [content EXCEPT ![n] = NewContent(walk.imp)]
                  \/ content' = content
               /\ UNCHANGED imp
        <3>1. PICK c : c = NewContent(walk.imp)
            OBVIOUS
        <3>4. /\ c \in Content /\ c.by = walk.imp /\ c.state = "" /\ c.deleting = FALSE
              /\ c.owned = FALSE
            BY <2>2, <3>1, ZenonT(40) DEF NewContent, Content, ContentStates
        <3>2. walk' \in [imp : Imports \cup {None}, todo : SUBSET Contents,
                         next : {"content", "image", "record"}] /\ WalkInv'
            BY <1>1, <2>2, <2>5, Zenon DEF Objects, WalkInv
        <3>3. content' \in [Contents -> Content \cup {None}]
              /\ \A k \in Contents : content'[k] = content[k] \/ Created(k)
            <4>1. CASE content[n] = None /\ content' = [content EXCEPT ![n] = c]
                <5>1. /\ content' \in [Contents -> Content \cup {None}] /\ content'[n] = c
                      /\ \A k \in Contents : k # n => content'[k] = content[k]
                    BY <1>1, <3>4, <4>1, Zenon DEF Objects
                <5>2. Created(n)
                    BY <2>2, <3>4, <4>1, <5>1, Zenon DEF Created
                <5> QED
                    BY <5>1, <5>2
            <4>2. CASE content' = content
                BY <1>1, <4>2 DEF Objects
            <4> QED
                BY <2>5, <3>1, <4>1, <4>2
        <3> QED
            BY <1>1, <1>3, <1>5, <2>2, <2>3, <2>5, <3>2, <3>3, Zenon
            DEF Objects, Captures, WalkCreates, SpentGrows, jobs
    <2> QED
        BY <2>1, <2>4, <2>5 DEF EnsureContent, SetImport
<1>8. CASE EnsureImage
    <2>1. PICK m \in Images : m = ImageOf[walk.imp]
        BY <1>8, NamesAssumption, Zenon DEF EnsureImage, WalkInv
    <2>2. walk.imp \in Imports /\ UNCHANGED <<content, cut>>
        BY <1>8, Zenon DEF EnsureImage, WalkInv
    <2>3. SpentGrows
        BY <1>1, <1>8, ReadsFacts, Zenon DEF EnsureImage
    <2>4. CASE imp' = [imp EXCEPT ![walk.imp] = "Failed"] /\ walk' = NoWalk /\ UNCHANGED image
        BY <1>1, <1>3, <1>4, <1>5, <2>2, <2>3, <2>4, Zenon
        DEF Objects, Captures, WalkCreates, WalkInv, SpentGrows, jobs, Unfinished, Finished
    <2> DEFINE new == [by |-> walk.imp, slots |-> ContentsOf[walk.imp], fits |-> TRUE, state |-> ""]
    <2>5. CASE /\ walk' = [walk EXCEPT !.next = "record"]
               /\ (image[m] = None /\ image' = [image EXCEPT ![m] = new]) \/ UNCHANGED image
               /\ UNCHANGED imp
        <3>1. new \in Image /\ new.state = ""
            <4>1. ContentsOf[walk.imp] \in SUBSET Contents
                BY <2>2, NamesAssumption
            <4> QED
                BY <2>2, <4>1 DEF Image
        <3> HIDE DEF new
        <3>2. walk' \in [imp : Imports \cup {None}, todo : SUBSET Contents,
                         next : {"content", "image", "record"}] /\ WalkInv'
            BY <1>1, <2>2, <2>5 DEF Objects, WalkInv
        <3>3. image' \in [Images -> Image \cup {None}]
              /\ \A k \in Images : image'[k] = image[k] \/ (image[k] = None /\ image'[k].state = "")
            <4>1. PICK v \in Image : v = new /\ v.state = ""
                BY <3>1, Zenon
            <4>2. image \in [Images -> Image \cup {None}]
                BY <1>1 DEF Objects
            <4>3. CASE image[m] = None /\ image' = [image EXCEPT ![m] = v]
                BY <4>1, <4>2, <4>3, Zenon
            <4> QED
                BY <2>5, <4>1, <4>2, <4>3, Zenon
        <3> QED
            BY <1>1, <1>3, <1>5, <2>2, <2>3, <2>5, <3>2, <3>3, Zenon
            DEF Objects, Captures, WalkCreates, SpentGrows, jobs
    <2> QED
        BY <1>8, <2>1, <2>4, <2>5, Zenon DEF EnsureImage, SetImport
<1>9. CASE RecordSucceeded
    <2>1. imp' \in [Imports -> Unfinished \cup Finished \cup {"gone"}]
        BY <1>1, <1>9, Zenon DEF RecordSucceeded, SetImport, Captures, Finished
    <2>2. walk' = NoWalk /\ UNCHANGED <<content, image, cut, spent>>
        BY <1>9 DEF RecordSucceeded
    <2> QED
        BY <1>1, <1>2, <1>3, <1>4, <1>5, <2>1, <2>2
        DEF Objects, Captures, WalkCreates, WalkInv, jobs
<1>10. CASE Interrupt
    <2>1. walk' \in {walk, NoWalk} /\ Mishap /\ UNCHANGED <<imp, content, image>>
        BY <1>10 DEF Interrupt
    <2>2. SpentGrows
        BY <1>1, <2>1, MishapFacts
    <2>3. walk' \in [imp : Imports \cup {None}, todo : SUBSET Contents,
                     next : {"content", "image", "record"}] /\ WalkInv'
        BY <1>1, <1>4, <2>1 DEF Objects, WalkInv
    <2> QED
        BY <1>1, <1>3, <1>5, <2>1, <2>2, <2>3
        DEF Objects, Captures, WalkCreates, SpentGrows, jobs
<1> QED
    BY <1>3, <1>6, <1>7, <1>8, <1>9, <1>10 DEF Walks

-----------------------------------------------------------------------------
(* One content, its volume and its publish Job.                            *)

\* A content that is gone has no Job and no owned volume.  One whose finalizer is about to
\* go is being deleted, and its Job is gone.  A content is published only under its
\* finalizer, and, unless it took over a volume, into a volume of its own, which holds its
\* import's bytes when the Job has succeeded and when the content is Ready.
Bytes(n) ==
    /\ content[n] = None => publish[n] = "none" /\ (volume[n] # None => ~volume[n].live)
    /\ cut = n => /\ content[n] # None /\ content[n].deleting /\ publish[n] = "none"
                  /\ seen.content[n] # None /\ seen.content[n].deleting
    /\ content[n] # None /\ (publish[n] # "none" \/ content[n].state # "") => content[n].finalizer
    /\ n \notin spent.reused =>
         /\ content[n] # None /\ (publish[n] # "none" \/ content[n].state # "")
              => volume[n] # None /\ volume[n].live
         /\ publish[n] = "succeeded" => volume[n].holds = content[n].by
         /\ content[n] # None /\ content[n].state = "Ready"
              => content[n].hash = content[n].by /\ volume[n].holds = content[n].by

\* The same content up to its owner references.
Alike(c, d) ==
    \/ c = None /\ d = None
    \/ /\ c # None /\ d # None /\ d.by = c.by /\ d.finalizer = c.finalizer
       /\ d.deleting = c.deleting /\ d.state = c.state /\ d.hash = c.hash

\* A step that leaves a content alone, except for its owner references.
LEMMA BytesFrame ==
    ASSUME NEW n \in Contents, Bytes(n), SpentGrows, Alike(content[n], content'[n]),
           volume'[n] = volume[n], publish'[n] = publish[n],
           cut' = n => cut = n /\ seen'.content[n] # None /\ seen'.content[n].deleting
    PROVE  Bytes(n)'
<1>1. n \notin spent'.reused => n \notin spent.reused
    BY DEF SpentGrows
<1>2. CASE content[n] = None
    BY <1>1, <1>2, Zenon DEF Bytes, Alike
<1>3. CASE content[n] # None
    BY <1>1, <1>3, Zenon DEF Bytes, Alike
<1> QED
    BY <1>2, <1>3

\* What the content controller, the publish Job, deletion and the garbage collector do to
\* one content.
Tends(n) ==
    \/ AddFinalizer(n) \/ Publish(n) \/ PublishUnread(n) \/ PublishRuns(n)
    \/ PublishJobExpires(n) \/ DeleteContent(n) \/ CollectContent(n) \/ CollectVolume(n)

\* They create no content, keep a Ready one Ready, and without an edit neither delete one
\* that has an owner nor change whose it is.
Tended(n) ==
    /\ content'[n] \in Content \cup {None} /\ volume'[n] \in Volume \cup {None}
    /\ publish'[n] \in {"none", "running", "succeeded", "failed"}
    /\ SpentGrows /\ Bytes(n)'
    /\ content[n] = None => content'[n] = None
    /\ content[n] # None /\ content[n].state = "Ready"
         => content'[n] # None /\ content'[n].state = "Ready"
    /\ content[n] # None /\ spent'.edits = 0 /\ ~(content[n].owned /\ content[n].refs = {})
         => /\ content'[n] # None /\ content'[n].by = content[n].by
            /\ content'[n].deleting = content[n].deleting
            /\ content'[n].owned = content[n].owned /\ content'[n].refs = content[n].refs

\* They touch nothing else.
LEMMA TendsElsewhere ==
    ASSUME TypeOK, NEW n \in Contents, Tends(n)
    PROVE  /\ UNCHANGED <<config, imp, jobs, image, seen, walk, cut>>
           /\ content' = [content EXCEPT ![n] = content'[n]]
           /\ volume' = [volume EXCEPT ![n] = volume'[n]]
           /\ publish' = [publish EXCEPT ![n] = publish'[n]]
<1> USE DEF TypeOK
<1>1. CASE AddFinalizer(n)
    BY <1>1 DEF AddFinalizer
<1>2. CASE Publish(n)
    BY <1>2 DEF Publish
<1>3. CASE PublishUnread(n)
    BY <1>3 DEF PublishUnread
<1>4. CASE PublishRuns(n)
    BY <1>4 DEF PublishRuns
<1>5. CASE PublishJobExpires(n)
    BY <1>5 DEF PublishJobExpires
<1>6. CASE DeleteContent(n)
    BY <1>6 DEF DeleteContent, Delete
<1>7. CASE CollectContent(n)
    BY <1>7 DEF CollectContent, Delete
<1>8. CASE CollectVolume(n)
    BY <1>8 DEF CollectVolume
<1> QED
    BY <1>1, <1>2, <1>3, <1>4, <1>5, <1>6, <1>7, <1>8 DEF Tends

\* A delete marks what has a finalizer, and with it whatever was published, and removes
\* the rest.
LEMMA DeleteFacts ==
    ASSUME TypeOK, NEW n \in Contents, Live(n), Bytes(n), Delete(n), SpentGrows,
           UNCHANGED <<seen, cut>>,
           spent'.edits = 0 => content[n].owned /\ content[n].refs = {}
    PROVE  Tended(n)
<1> DEFINE c == content[n]
           v == volume[n]
<1>1. c \in Content /\ c # None /\ ~c.deleting /\ (v # None => v \in Volume)
    BY TypeParts, ObjectFacts DEF Live
<1>2. n \notin spent'.reused => n \notin spent.reused
    BY DEF SpentGrows
<1>3. CASE c.finalizer
    <2>1. content'[n] = [c EXCEPT !.deleting = TRUE] /\ volume'[n] = v /\ publish'[n] = publish[n]
        BY <1>3 DEF Delete, TypeOK
    <2>2. /\ content'[n] \in Content /\ content'[n].by = c.by /\ content'[n].state = c.state
          /\ content'[n].hash = c.hash /\ content'[n].finalizer
        BY <1>1, <1>3, <2>1, Zenon DEF Content
    <2>3. content'[n] # None
        BY <2>2, NoneAssumption
    <2>4. cut' # n
        BY <1>1, Zenon DEF Bytes
    <2>5. Bytes(n)'
        BY <1>1, <1>2, <2>1, <2>2, <2>3, <2>4, Zenon DEF Bytes
    <2> QED
        BY <1>1, <2>1, <2>2, <2>3, <2>5, Zenon DEF Tended, TypeOK
<1>4. CASE ~c.finalizer
    <2>1. content'[n] = None /\ publish'[n] = "none"
          /\ volume'[n] = IF v = None THEN None ELSE [v EXCEPT !.live = FALSE]
        BY <1>4 DEF Delete, TypeOK
    <2>2. volume'[n] \in Volume \cup {None} /\ (volume'[n] # None => ~volume'[n].live)
        <3>1. ASSUME v \in Volume
              PROVE  [v EXCEPT !.live = FALSE] \in Volume /\ ~[v EXCEPT !.live = FALSE].live
            BY <3>1, Zenon DEF Volume
        <3>2. CASE v = None
            BY <2>1, <3>2
        <3>3. CASE v # None
            BY <1>1, <2>1, <3>1, <3>3
        <3> QED
            BY <3>2, <3>3
    <2>3. cut' # n /\ c.state # "Ready"
        BY <1>1, <1>4, Zenon DEF Bytes
    <2>4. Bytes(n)'
        BY <2>1, <2>2, <2>3, Zenon DEF Bytes
    <2> QED
        BY <1>1, <2>1, <2>2, <2>3, <2>4 DEF Tended
<1> QED
    BY <1>3, <1>4

\* onChange on a content under its finalizer.
LEMMA PublishFacts ==
    ASSUME TypeOK, NEW n \in Contents, Bytes(n), Publish(n)
    PROVE  Tended(n)
<1> DEFINE c == content[n]
           v == volume[n]
           w == EnsureVolume(n)
<1>1. c \in Content /\ c # None /\ ~c.deleting /\ c.finalizer /\ (v # None => v \in Volume)
    BY TypeParts, ObjectFacts DEF Publish, Live
<1>2. volume'[n] = w /\ UNCHANGED <<seen, cut>>
    BY DEF Publish, TypeOK
<1>3. w \in Volume /\ (v # None => w = v) /\ (v = None => w.live)
    BY <1>1 DEF EnsureVolume, Volume
<1>4. w # None
    BY <1>3, NoneAssumption
<1>5. SpentGrows /\ (n \notin spent'.reused => n \notin spent.reused /\ w.live)
    <2> DEFINE r == IF v # None /\ ~v.live THEN spent.reused \cup {n} ELSE spent.reused
    <2>1. spent' = [spent EXCEPT !.reused = r]
        BY DEF Publish
    <2>2. spent \in Spent
        BY TypeParts DEF Objects
    <2>3. r \in SUBSET Contents /\ spent.reused \subseteq r
          /\ (n \notin r => v = None \/ v.live)
        BY <2>2 DEF Spent
    <2> HIDE DEF r
    <2>4. SpentGrows /\ spent'.reused = r
        BY <2>1, <2>2, <2>3 DEF Spent, SpentGrows
    <2> QED
        BY <1>3, <2>3, <2>4
<1>6. cut' # n
    BY <1>1, <1>2, Zenon DEF Bytes
<1>7. ASSUME NEW s \in ContentStates \ {"", "Ready"}, c.state # "Ready",
             content'[n] = [c EXCEPT !.state = s],
             publish'[n] \in {"none", "running", "succeeded", "failed"},
             publish'[n] = "succeeded" => publish[n] = "succeeded"
      PROVE  Tended(n)
    <2>1. /\ content'[n] \in Content /\ content'[n].by = c.by /\ content'[n].state = s
          /\ content'[n].finalizer /\ content'[n].deleting = c.deleting
          /\ content'[n].owned = c.owned /\ content'[n].refs = c.refs
        BY <1>1, <1>7, Zenon DEF Content
    <2>2. content'[n] # None
        BY <2>1, NoneAssumption, Zenon
    <2>3. Bytes(n)'
        BY <1>1, <1>2, <1>3, <1>4, <1>5, <1>6, <1>7, <2>1, <2>2, ZenonT(40) DEF Bytes
    <2> QED
        BY <1>1, <1>2, <1>3, <1>5, <1>7, <2>1, <2>2, <2>3, Zenon DEF Tended
<1>8. CASE c.state = "Ready" /\ UNCHANGED <<content, publish>>
    <2>1. Bytes(n)'
        BY <1>1, <1>2, <1>3, <1>4, <1>5, <1>6, <1>8, Zenon DEF Bytes
    <2> QED
        BY <1>1, <1>2, <1>3, <1>5, <1>8, <2>1 DEF Tended, TypeOK
<1>9. CASE /\ c.state # "Ready" /\ OutcomeOf(n) = "none"
           /\ publish' = IF config THEN [publish EXCEPT ![n] = "running"] ELSE publish
           /\ content' = [content EXCEPT ![n].state = IF config THEN "Publishing" ELSE "Pending"]
    <2>1. PICK s \in {"Publishing", "Pending"} :
                 content'[n] = [c EXCEPT !.state = s] /\ publish'[n] \in {"none", "running"}
        BY <1>9 DEF OutcomeOf, TypeOK
    <2>2. s \in ContentStates \ {"", "Ready"}
        BY Zenon DEF ContentStates
    <2> QED
        BY <1>7, <1>9, <2>1, <2>2, Zenon
<1>10. CASE /\ c.state # "Ready" /\ OutcomeOf(n) = "running"
            /\ content' = [content EXCEPT ![n].state = "Publishing"] /\ UNCHANGED publish
    <2>1. content'[n] = [c EXCEPT !.state = "Publishing"] /\ publish'[n] = "running"
        BY <1>10 DEF OutcomeOf, TypeOK
    <2>2. "Publishing" \in ContentStates \ {"", "Ready"}
        BY DEF ContentStates
    <2> QED
        BY <1>7, <1>10, <2>1, <2>2, Zenon
<1>11. CASE /\ c.state # "Ready" /\ OutcomeOf(n) = "failed"
            /\ content' = [content EXCEPT ![n].state = "Failed"] /\ UNCHANGED publish
    <2>1. content'[n] = [c EXCEPT !.state = "Failed"] /\ publish'[n] = "failed"
        BY <1>11 DEF OutcomeOf, TypeOK
    <2>2. "Failed" \in ContentStates \ {"", "Ready"}
        BY DEF ContentStates
    <2> QED
        BY <1>7, <1>11, <2>1, <2>2, Zenon
<1>12. CASE /\ c.state # "Ready" /\ OutcomeOf(n) = "succeeded"
            /\ content' = [content EXCEPT ![n].state = "Ready", ![n].hash = volume'[n].holds]
            /\ UNCHANGED publish
    <2>1. content'[n] = [c EXCEPT !.state = "Ready", !.hash = w.holds]
        BY <1>2, <1>12 DEF TypeOK
    <2>2. PICK h \in Imports \cup {None} : h = w.holds
        BY <1>3 DEF Volume
    <2>3. /\ content'[n] \in Content /\ content'[n].by = c.by /\ content'[n].state = "Ready"
          /\ content'[n].hash = h /\ content'[n].finalizer
          /\ content'[n].deleting = c.deleting
          /\ content'[n].owned = c.owned /\ content'[n].refs = c.refs
        <3>1. content'[n] = [c EXCEPT !.state = "Ready", !.hash = h]
            BY <2>1, <2>2
        <3>2. c \in Content
            BY <1>1
        <3>3. content'[n] \in Content
            BY <3>1, <3>2, Zenon DEF Content, ContentStates
        <3>4. /\ content'[n].by = c.by /\ content'[n].deleting = c.deleting
              /\ content'[n].finalizer = c.finalizer
              /\ content'[n].owned = c.owned /\ content'[n].refs = c.refs
            BY <3>1, <3>2 DEF Content
        <3>5. content'[n].state = "Ready" /\ content'[n].hash = h
            BY <3>1, <3>2 DEF Content
        <3> QED
            BY <1>1, <3>3, <3>4, <3>5
    <2>4. content'[n] # None
        BY <2>3, NoneAssumption
    <2>5. publish[n] = "succeeded" /\ publish'[n] = "succeeded"
        BY <1>12 DEF OutcomeOf
    <2>6. Bytes(n)'
        BY <1>1, <1>2, <1>3, <1>4, <1>5, <1>6, <2>2, <2>3, <2>4, <2>5 DEF Bytes
    <2> QED
        BY <1>1, <1>2, <1>3, <1>5, <1>12, <2>3, <2>4, <2>5, <2>6 DEF Tended
<1> QED
    BY <1>8, <1>9, <1>10, <1>11, <1>12 DEF Publish

\* Each of these operations tends its content.
LEMMA TendsFacts ==
    ASSUME TypeOK, NEW n \in Contents, Bytes(n), Tends(n)
    PROVE  Tended(n)
<1> DEFINE c == content[n]
           v == volume[n]
<1>1. (c # None => c \in Content) /\ (v # None => v \in Volume) /\ spent \in Spent
    BY TypeParts, ObjectFacts DEF Objects
<1>2. UNCHANGED <<seen, cut>>
    BY TendsElsewhere
<1>3. ASSUME UNCHANGED spent PROVE SpentGrows
    BY <1>1, <1>3 DEF SpentGrows
<1>4. ASSUME NEW s \in ContentStates, NEW f \in BOOLEAN, Live(n), c.state # "Ready",
             content'[n] = [c EXCEPT !.state = s, !.finalizer = f],
             s # "Ready", f, s # "" => publish[n] # "none" \/ c.state # "",
             UNCHANGED <<volume, publish>>, SpentGrows
      PROVE  Tended(n)
    <2>1. c # None /\ c \in Content /\ ~c.deleting
        BY <1>1, <1>4, Zenon DEF Live
    <2>2. /\ content'[n] \in Content /\ content'[n].by = c.by /\ content'[n].state = s
          /\ content'[n].finalizer /\ content'[n].deleting = c.deleting
          /\ content'[n].owned = c.owned /\ content'[n].refs = c.refs
        BY <1>4, <2>1, Zenon DEF Content
    <2>3. content'[n] # None /\ (n \notin spent'.reused => n \notin spent.reused)
        BY <1>4, <2>2, NoneAssumption, Zenon DEF SpentGrows
    <2>4. cut' # n
        BY <1>2, <2>1, Zenon DEF Bytes
    <2>5. Bytes(n)'
        BY <1>4, <2>1, <2>2, <2>3, <2>4, ZenonT(40) DEF Bytes
    <2> QED
        BY <1>4, <2>1, <2>2, <2>3, <2>5, Zenon DEF Tended, TypeOK
<1>5. CASE AddFinalizer(n)
    <2>1. Live(n) /\ content'[n] = [c EXCEPT !.finalizer = TRUE] /\ ~c.finalizer
          /\ UNCHANGED <<volume, publish, spent>>
        BY <1>5 DEF AddFinalizer, TypeOK
    <2>2. c.state = ""
        BY <2>1, Zenon DEF Bytes, Live
    <2>3. content'[n] = [c EXCEPT !.state = "", !.finalizer = TRUE]
        BY <1>1, <2>1, <2>2, ZenonT(40) DEF Live, Content
    <2> QED
        BY <1>3, <1>4, <2>1, <2>2, <2>3, Zenon DEF ContentStates
<1>6. CASE Publish(n)
    BY <1>6, PublishFacts
<1>7. CASE PublishUnread(n)
    <2>1. /\ Live(n) /\ content'[n] = [c EXCEPT !.state = "Failed"] /\ Mishap
          /\ c.state # "Ready" /\ publish[n] = "succeeded" /\ UNCHANGED <<volume, publish>>
        BY <1>7 DEF PublishUnread, TypeOK
    <2>2. c.finalizer = TRUE
        BY <1>1, <2>1 DEF Bytes, Live, Content
    <2>3. content'[n] = [c EXCEPT !.state = "Failed", !.finalizer = TRUE]
        BY <1>1, <2>1, <2>2, Zenon DEF Live, Content
    <2>4. SpentGrows
        BY <1>1, <2>1, MishapFacts
    <2> QED
        BY <1>4, <2>1, <2>3, <2>4, Zenon DEF ContentStates
<1>8. CASE PublishRuns(n)
    <2>1. publish[n] = "running" /\ v # None /\ UNCHANGED content
        BY <1>8 DEF PublishRuns
    <2>2. c # None /\ c \in Content /\ v \in Volume /\ cut' # n
        BY <1>1, <1>2, <2>1 DEF Bytes
    <2>3. CASE volume' = [volume EXCEPT ![n].holds = c.by]
               /\ publish' = [publish EXCEPT ![n] = "succeeded"] /\ UNCHANGED spent
        <3>1. volume'[n] = [v EXCEPT !.holds = c.by] /\ publish'[n] = "succeeded"
            BY <2>3 DEF TypeOK
        <3>2. volume'[n] \in Volume /\ volume'[n].holds = c.by /\ volume'[n].live = v.live
            BY <2>2, <3>1 DEF Volume, Content
        <3>3. volume'[n] # None
            BY <3>2, NoneAssumption
        <3>4. Bytes(n)'
            BY <2>1, <2>2, <2>3, <3>1, <3>2, <3>3, Zenon DEF Bytes
        <3> QED
            BY <1>3, <2>1, <2>2, <2>3, <3>1, <3>2, <3>4 DEF Tended
    <2>4. CASE publish' = [publish EXCEPT ![n] = "failed"] /\ Mishap /\ UNCHANGED volume
        <3>1. SpentGrows
            BY <1>1, <2>4, MishapFacts
        <3>2. publish'[n] = "failed" /\ (n \notin spent'.reused => n \notin spent.reused)
            BY <2>4, <3>1 DEF TypeOK, SpentGrows
        <3>3. Bytes(n)'
            BY <2>1, <2>2, <2>4, <3>2, Zenon DEF Bytes
        <3> QED
            BY <2>1, <2>2, <2>4, <3>1, <3>2, <3>3 DEF Tended
    <2> QED
        BY <1>8, <2>3, <2>4 DEF PublishRuns
<1>9. CASE PublishJobExpires(n)
    <2>1. publish[n] # "none" /\ publish'[n] = "none" /\ UNCHANGED <<content, volume, spent>>
        BY <1>9 DEF PublishJobExpires, TypeOK
    <2>2. c # None
        BY <2>1, Zenon DEF Bytes
    <2>3. Bytes(n)'
        BY <1>2, <2>1, <2>2, Zenon DEF Bytes
    <2> QED
        BY <1>1, <1>3, <2>1, <2>2, <2>3 DEF Tended
<1>10. CASE DeleteContent(n)
    <2>1. SpentGrows /\ spent'.edits # 0
        BY <1>1, <1>10, EditFacts DEF DeleteContent
    <2> QED
        BY <1>2, <1>10, <2>1, DeleteFacts DEF DeleteContent
<1>11. CASE CollectContent(n)
    BY <1>2, <1>3, <1>11, DeleteFacts DEF CollectContent
<1>12. CASE CollectVolume(n)
    <2>1. v # None /\ ~v.live /\ volume'[n] = None /\ UNCHANGED <<content, publish, spent>>
        BY <1>12 DEF CollectVolume, TypeOK
    <2>2. Bytes(n)'
        BY <1>2, <2>1, Zenon DEF Bytes
    <2> QED
        BY <1>1, <1>3, <2>1, <2>2 DEF Tended, TypeOK
<1> QED
    BY <1>5, <1>6, <1>7, <1>8, <1>9, <1>10, <1>11, <1>12 DEF Tends

-----------------------------------------------------------------------------
(* Images, the cache, and the end of a content.                            *)

\* What users and the Image controller do to one Image.
Binds(m) ==
    \/ \E slots \in (SUBSET Contents) \ {{}}, fits \in BOOLEAN : UserImage(m, slots, fits)
    \/ DeleteImage(m) \/ ReconcileImage(m)

\* Contents keep all but their owner references, and an owned content an owner; an Image
\* turns Ready only when the cache shows it and a Ready content in each of its slots.
Bound ==
    /\ SpentGrows /\ cut' \in {cut, None}
    /\ UNCHANGED <<config, imp, jobs, volume, publish, seen, walk>>
    /\ content' \in [Contents -> Content \cup {None}] /\ image' \in [Images -> Image \cup {None}]
    /\ \A n \in Contents : Alike(content[n], content'[n])
    /\ \A k \in Images : image'[k] # None /\ image'[k].state = "Ready" =>
         /\ image[k] # None /\ image'[k].slots = image[k].slots /\ image'[k].by = image[k].by
         /\ \/ image[k].state = "Ready"
            \/ CachedImage(k) /\ \A n \in image[k].slots : ReadySlot(n) /\ ~StaleSlot(n)
    /\ spent'.edits = 0 =>
         /\ \A k \in Images : image[k] # None => image'[k] # None /\ image'[k].by = image[k].by
         /\ \A n \in Contents : content[n] # None /\ (content[n].owned => content[n].refs # {})
                                  => (content'[n].owned => content'[n].refs # {})

\* A content with other owner references is the same content otherwise.
LEMMA OwnersFacts ==
    ASSUME NEW c \in Content, NEW r \in SUBSET Images
    PROVE  /\ [c EXCEPT !.refs = r, !.owned = TRUE] \in Content
           /\ [c EXCEPT !.refs = r, !.owned = TRUE].refs = r
           /\ Alike(c, [c EXCEPT !.refs = r, !.owned = TRUE])
           /\ [c EXCEPT !.refs = r] \in Content /\ Alike(c, [c EXCEPT !.refs = r])
<1> DEFINE d == [c EXCEPT !.refs = r, !.owned = TRUE]
           e == [c EXCEPT !.refs = r]
<1>1. d \in Content /\ e \in Content /\ d.refs = r
    BY Zenon DEF Content
<1>2. d # None /\ e # None /\ c # None
    BY <1>1, NoneAssumption
<1>3. /\ d.by = c.by /\ d.finalizer = c.finalizer /\ d.deleting = c.deleting
      /\ d.state = c.state /\ d.hash = c.hash
      /\ e.by = c.by /\ e.finalizer = c.finalizer /\ e.deleting = c.deleting
      /\ e.state = c.state /\ e.hash = c.hash
    BY DEF Content
<1> QED
    BY <1>1, <1>2, <1>3 DEF Alike

\* Nothing has changed.
LEMMA AlikeSelf == \A c : Alike(c, c)
    BY DEF Alike

\* A user's new Image is not Ready.
LEMMA UserImageFacts ==
    ASSUME TypeOK, NEW m \in Images, NEW slots \in SUBSET Contents, NEW fits \in BOOLEAN,
           UserImage(m, slots, fits)
    PROVE  Bound
<1>1. Objects
    BY TypeParts
<1>2. SpentGrows /\ spent'.edits # 0
    BY <1>1, EditFacts, Zenon DEF Objects, UserImage
<1>3. PICK new : new = [by |-> None, slots |-> slots, fits |-> fits, state |-> ""]
    BY Zenon
<1>4. new \in Image /\ new.state = ""
    BY <1>3, Zenon DEF Image
<1>5. image' = [image EXCEPT ![m] = new]
      /\ UNCHANGED <<config, imp, jobs, content, volume, publish, seen, walk, cut>>
    BY <1>3, Zenon DEF UserImage
<1>6. /\ image' \in [Images -> Image \cup {None}] /\ image'[m].state # "Ready"
      /\ \A k \in Images : k # m => image'[k] = image[k]
    BY <1>1, <1>4, <1>5, Zenon DEF Objects
<1>7. \A n \in Contents : Alike(content[n], content'[n])
    BY <1>5, AlikeSelf
<1> QED
    BY <1>1, <1>2, <1>5, <1>6, <1>7 DEF Bound, Objects

\* A deleted Image is no longer an owner of its contents.
LEMMA DeleteImageFacts ==
    ASSUME TypeOK, NEW m \in Images, DeleteImage(m)
    PROVE  Bound
<1>1. Objects
    BY TypeParts
<1>2. SpentGrows /\ spent'.edits # 0
    BY <1>1, EditFacts DEF Objects, DeleteImage
<1>3. UNCHANGED <<config, imp, jobs, volume, publish, seen, walk, cut>>
    BY DEF DeleteImage
<1>4. /\ image' \in [Images -> Image \cup {None}] /\ image'[m] = None
      /\ \A k \in Images : k # m => image'[k] = image[k]
    BY <1>1 DEF Objects, DeleteImage
<1>5. ASSUME NEW n \in Contents
      PROVE  content'[n] \in Content \cup {None} /\ Alike(content[n], content'[n])
    <2>1. CASE content[n] = None
        BY <2>1 DEF DeleteImage, Alike
    <2>2. CASE content[n] # None
        <3>1. PICK c \in Content : c = content[n]
            BY <1>1, <2>2, ObjectFacts
        <3>2. PICK r \in SUBSET Images : r = c.refs \ {m}
            BY Zenon DEF Content
        <3>3. content'[n] = [c EXCEPT !.refs = r]
            BY <2>2, <3>1, <3>2 DEF DeleteImage
        <3>4. [c EXCEPT !.refs = r] \in Content /\ Alike(c, [c EXCEPT !.refs = r])
            BY OwnersFacts, Zenon
        <3> QED
            BY <3>1, <3>3, <3>4, Zenon
    <2> QED
        BY <2>1, <2>2
<1>6. content' \in [Contents -> Content \cup {None}]
    <2>1. content' = [n \in Contents |-> content'[n]]
        BY DEF DeleteImage
    <2> QED
        BY <1>5, <2>1
<1> QED
    BY <1>2, <1>3, <1>4, <1>5, <1>6 DEF Bound

\* The Image controller adds owners and aggregates what the cache shows of the slots.
LEMMA ReconcileImageFacts ==
    ASSUME TypeOK, NEW m \in Images, ReconcileImage(m)
    PROVE  Bound /\ (~spent'.stale => \A n \in image[m].slots : Cached(n))
<1>1. Objects
    BY TypeParts
<1>2. SpentGrows /\ (~spent'.stale => \A n \in image[m].slots : Cached(n))
    BY <1>1, ReadsFacts, Zenon DEF Objects, ReconcileImage
<1>3. UNCHANGED <<config, imp, jobs, volume, publish, seen, walk>> /\ cut' \in {cut, None}
    BY DEF ReconcileImage
<1>4. image[m] # None /\ CachedImage(m) /\ image[m] \in Image
    BY <1>1, ObjectFacts DEF ReconcileImage
<1>5. PICK s : s = Aggregate(m)
    OBVIOUS
<1>6. /\ s \in {"", "Pending", "Ready", "Failed"}
      /\ s = "Ready" => \/ image[m].state = "Ready"
                        \/ \A n \in image[m].slots : ReadySlot(n) /\ ~StaleSlot(n)
    <2>1. image[m].state \in {"", "Pending", "Ready", "Failed"}
        BY <1>4, Zenon DEF Image
    <2>2. s \in {image[m].state, "Failed", "Ready", "Pending"}
        BY <1>5 DEF Aggregate
    <2>3. ASSUME s = "Ready", image[m].state # "Ready"
          PROVE  \A n \in image[m].slots : ReadySlot(n) /\ ~StaleSlot(n)
        BY <1>5, <2>3 DEF Aggregate
    <2> QED
        BY <2>1, <2>2, <2>3, Zenon
<1>7. image' = [image EXCEPT ![m].state = s]
    BY <1>5 DEF ReconcileImage
<1>8. image'[m] = [image[m] EXCEPT !.state = s] /\ \A k \in Images : k # m => image'[k] = image[k]
    BY <1>1, <1>7 DEF Objects
<1>9. /\ image'[m] \in Image /\ image'[m].slots = image[m].slots /\ image'[m].by = image[m].by
      /\ image'[m].state = s
    BY <1>4, <1>6, <1>8, Zenon DEF Image
<1>10. image' \in [Images -> Image \cup {None}] /\ image'[m] # None
    BY <1>1, <1>7, <1>8, <1>9, NoneAssumption DEF Objects
<1>11. ASSUME NEW n \in Contents
       PROVE  /\ content'[n] \in Content \cup {None} /\ Alike(content[n], content'[n])
              /\ content[n] # None /\ (content[n].owned => content[n].refs # {})
                   => (content'[n].owned => content'[n].refs # {})
    <2>1. CASE n \in image[m].slots /\ seen.content[n] # None /\ content[n] # None
        <3>1. PICK c \in Content : c = content[n]
            BY <1>1, <2>1, ObjectFacts
        <3>2. PICK r \in SUBSET Images : r = c.refs \cup {m}
            BY Zenon DEF Content
        <3>3. content'[n] = [c EXCEPT !.refs = r, !.owned = TRUE]
            BY <2>1, <3>1, <3>2, Zenon DEF ReconcileImage, Owned
        <3>4. /\ content'[n] \in Content /\ Alike(content[n], content'[n])
              /\ content'[n].refs = r
            <4>1. /\ [c EXCEPT !.refs = r, !.owned = TRUE] \in Content
                  /\ [c EXCEPT !.refs = r, !.owned = TRUE].refs = r
                  /\ Alike(c, [c EXCEPT !.refs = r, !.owned = TRUE])
                BY OwnersFacts, Zenon
            <4> QED
                BY <3>1, <3>3, <4>1, Zenon
        <3> QED
            BY <3>2, <3>4
    <2>2. CASE ~(n \in image[m].slots /\ seen.content[n] # None /\ content[n] # None)
        <3>1. content'[n] = content[n]
            BY <2>2, Zenon DEF ReconcileImage, Owned
        <3> QED
            BY <1>1, <3>1, AlikeSelf DEF Objects
    <2> QED
        BY <2>1, <2>2
<1>12. content' \in [Contents -> Content \cup {None}]
    <2>1. content' = [n \in Contents |-> content'[n]]
        BY Zenon DEF ReconcileImage, Owned
    <2> QED
        BY <1>11, <2>1
<1>13. \A k \in Images : image'[k] # None /\ image'[k].state = "Ready" =>
         /\ image[k] # None /\ image'[k].slots = image[k].slots /\ image'[k].by = image[k].by
         /\ \/ image[k].state = "Ready"
            \/ CachedImage(k) /\ \A n \in image[k].slots : ReadySlot(n) /\ ~StaleSlot(n)
    BY <1>4, <1>6, <1>8, <1>9, Zenon
<1>14. \A k \in Images : image[k] # None => image'[k] # None /\ image'[k].by = image[k].by
    BY <1>8, <1>9, <1>10, Zenon
<1> QED
    BY <1>2, <1>3, <1>10, <1>11, <1>12, <1>13, <1>14 DEF Bound

\* A watch event shows the cache what there is.
LEMMA CacheFacts ==
    ASSUME TypeOK, (\E n \in Contents : CacheContent(n)) \/ (\E m \in Images : CacheImage(m))
    PROVE  /\ UNCHANGED <<config, imp, jobs, content, volume, publish, image, walk, cut, spent>>
           /\ TypeOK' /\ SpentGrows
           /\ \A n \in Contents : \/ seen'.content[n] = seen.content[n]
                                  \/ seen'.content[n] = Shown(content[n])
           /\ \A m \in Images : \/ seen'.image[m] = seen.image[m]
                                \/ seen'.image[m] = ShownImage(image[m])
<1>1. Objects /\ Captures /\ spent \in Spent
    BY TypeParts DEF Objects
<1>2. UNCHANGED <<config, imp, jobs, content, volume, publish, image, walk, cut, spent>>
    BY DEF CacheContent, CacheImage
<1>3. /\ seen' \in [content : [Contents -> SeenContent \cup {None}],
                    image : [Images -> SeenImage \cup {None}]]
      /\ \A k \in Contents : \/ seen'.content[k] = seen.content[k]
                             \/ seen'.content[k] = Shown(content[k])
      /\ \A k \in Images : \/ seen'.image[k] = seen.image[k]
                           \/ seen'.image[k] = ShownImage(image[k])
    <2>1. ASSUME NEW n \in Contents, CacheContent(n) PROVE <1>3!:
        <3>1. PICK s \in SeenContent \cup {None} : s = Shown(content[n])
            BY <1>1, ShownFacts DEF Objects
        <3>2. seen' = [seen EXCEPT !.content[n] = s]
            BY <2>1, <3>1 DEF CacheContent
        <3> QED
            BY <1>1, <3>1, <3>2 DEF Objects
    <2>2. ASSUME NEW m \in Images, CacheImage(m) PROVE <1>3!:
        <3>1. PICK s \in SeenImage \cup {None} : s = ShownImage(image[m])
            BY <1>1, ShownFacts DEF Objects
        <3>2. seen' = [seen EXCEPT !.image[m] = s]
            BY <2>2, <3>1 DEF CacheImage
        <3> QED
            BY <1>1, <3>1, <3>2 DEF Objects
    <2> QED
        BY <2>1, <2>2
<1>4. Objects' /\ Captures' /\ SpentGrows
    BY <1>1, <1>2, <1>3 DEF Objects, Captures, SpentGrows, jobs
<1>5. TypeOK'
    BY <1>4 DEF TypeOK, Objects, Captures, Spent
<1> QED
    BY <1>2, <1>3, <1>4, <1>5

\* onDelete finds no blockers: the publish Job goes.
LEMMA CheckBlockersFacts ==
    ASSUME TypeOK, NEW n \in Contents, CheckBlockers(n)
    PROVE  /\ UNCHANGED <<config, imp, jobs, content, volume, image, seen, walk>>
           /\ TypeOK' /\ SpentGrows /\ cut' = n
           /\ content[n] # None /\ content[n].deleting /\ publish'[n] = "none"
           /\ seen.content[n] # None /\ seen.content[n].deleting /\ Blockers(n) = {}
           /\ \A k \in Contents : k # n => publish'[k] = publish[k]
<1>1. Objects /\ Captures /\ spent \in Spent
    BY TypeParts DEF Objects
<1>2. /\ UNCHANGED <<config, imp, jobs, content, volume, image, seen, walk>>
      /\ cut' = n /\ Blockers(n) = {} /\ Cached(n) /\ content[n] # None /\ content[n].deleting
      /\ publish' = [publish EXCEPT ![n] = "none"]
    BY DEF CheckBlockers
<1>3. SpentGrows
    BY <1>1, ReadsFacts, Zenon DEF CheckBlockers
<1>4. /\ publish' \in [Contents -> {"none", "running", "succeeded", "failed"}]
      /\ publish'[n] = "none" /\ \A k \in Contents : k # n => publish'[k] = publish[k]
    BY <1>1, <1>2 DEF Objects
<1>5. content[n] \in Content
    BY <1>1, <1>2, ObjectFacts
<1>6. seen.content[n] # None /\ seen.content[n].deleting
    BY <1>2, <1>5, ShownFacts DEF Cached
<1>7. Objects' /\ Captures'
    BY <1>1, <1>2, <1>3, <1>4 DEF Objects, Captures, SpentGrows, jobs
<1>8. TypeOK'
    BY <1>7 DEF TypeOK, Objects, Captures, Spent
<1> QED
    BY <1>2, <1>3, <1>4, <1>6, <1>8

\* The finalizer goes, and the content with it.
LEMMA RemoveFinalizerFacts ==
    ASSUME TypeOK, RemoveFinalizer
    PROVE  /\ UNCHANGED <<config, imp, jobs, publish, image, seen, walk, spent>>
           /\ TypeOK' /\ SpentGrows /\ cut \in Contents /\ cut' = None
           /\ content'[cut] = None /\ (volume'[cut] # None => ~volume'[cut].live)
           /\ \A k \in Contents : k # cut => content'[k] = content[k] /\ volume'[k] = volume[k]
<1>1. Objects /\ Captures /\ spent \in Spent
    BY TypeParts DEF Objects
<1>2. UNCHANGED <<config, imp, jobs, publish, image, seen, walk, spent>> /\ cut' = None
    BY DEF RemoveFinalizer
<1>3. PICK n \in Contents : n = cut
    BY <1>1 DEF RemoveFinalizer, Objects
<1>4. PICK v \in Volume \cup {None} : v = volume[n]
    BY <1>1 DEF Objects
<1>5. PICK w : w = IF v = None THEN None ELSE [v EXCEPT !.live = FALSE]
    BY Zenon
<1>6. w \in Volume \cup {None} /\ (w # None => ~w.live)
    BY <1>5, Zenon DEF Volume
<1>7. content' = [content EXCEPT ![n] = None] /\ volume' = [volume EXCEPT ![n] = w]
    BY <1>3, <1>4, <1>5 DEF RemoveFinalizer
<1>8. /\ content' \in [Contents -> Content \cup {None}] /\ volume' \in [Contents -> Volume \cup {None}]
      /\ content'[n] = None /\ volume'[n] = w
      /\ \A k \in Contents : k # n => content'[k] = content[k] /\ volume'[k] = volume[k]
    BY <1>1, <1>6, <1>7 DEF Objects
<1>9. Objects' /\ Captures' /\ SpentGrows
    BY <1>1, <1>2, <1>8 DEF Objects, Captures, SpentGrows, jobs
<1>10. TypeOK'
    BY <1>9 DEF TypeOK, Objects, Captures, Spent
<1> QED
    BY <1>2, <1>3, <1>6, <1>8, <1>9, <1>10

-----------------------------------------------------------------------------
(* A Ready content holds its own bytes.                                    *)

BytesInv == TypeOK /\ WalkInv /\ \A n \in Contents : Bytes(n)

\* The kinds of steps the lemmas above are about.
LEMMA StepKinds ==
    ASSUME Next
    PROVE  \/ Configure \/ \E i \in Imports : Ingests(i)
           \/ Walks
           \/ \E n \in Contents : Tends(n)
           \/ \E m \in Images : Binds(m)
           \/ (\E n \in Contents : CacheContent(n)) \/ (\E m \in Images : CacheImage(m))
           \/ \E n \in Contents : CheckBlockers(n)
           \/ RemoveFinalizer
    BY DEF Next, Controllers, Cluster, Users, Ingests, Walks, Tends, Binds

\* Each of these operations binds, and keeps the types.
LEMMA BindsFacts ==
    ASSUME TypeOK, NEW m \in Images, Binds(m)
    PROVE  Bound /\ TypeOK'
<1>1. Bound
    BY UserImageFacts, DeleteImageFacts, ReconcileImageFacts DEF Binds
<1>2. Objects /\ Captures
    BY TypeParts
<1>3. Objects' /\ Captures'
    BY <1>1, <1>2 DEF Bound, Objects, Captures, SpentGrows, jobs
<1> QED
    BY <1>1, <1>3 DEF TypeOK, Objects, Captures, Spent

\* Every step keeps every content sound: its own by what it does, the others by leaving
\* them alone.
LEMMA NextKeepsBytes ==
    ASSUME BytesInv, Next
    PROVE  BytesInv' /\ SpentGrows
<1> USE DEF BytesInv
<1>1. Objects /\ Captures /\ spent \in Spent
    BY TypeParts DEF Objects
<1>2. CASE Configure \/ \E i \in Imports : Ingests(i)
    <2>1. Apart /\ Captures'
        BY <1>2, IngestsFacts
    <2>2. Objects' /\ WalkInv'
        BY <1>1, <2>1 DEF Apart, Objects, SpentGrows, WalkInv
    <2>3. TypeOK'
        BY <2>1, <2>2 DEF TypeOK, Objects, Captures, Spent
    <2>4. ASSUME NEW n \in Contents PROVE Bytes(n)'
        <3>1. Alike(content[n], content'[n])
            BY <2>1, AlikeSelf DEF Apart
        <3>2. cut' = n => cut = n /\ seen'.content[n] # None /\ seen'.content[n].deleting
            BY <2>1, Zenon DEF Apart, Bytes
        <3> QED
            BY <2>1, <3>1, <3>2, BytesFrame DEF Apart
    <2> QED
        BY <2>1, <2>2, <2>3, <2>4 DEF Apart
<1>3. CASE Walks
    <2>1. /\ TypeOK' /\ WalkInv' /\ SpentGrows /\ UNCHANGED <<volume, publish, seen>>
          /\ cut' \in {cut, None} /\ WalkCreates
        BY <1>3, WalksFacts
    <2>2. ASSUME NEW n \in Contents PROVE Bytes(n)'
        <3>1. cut' = n => cut = n /\ seen'.content[n] # None /\ seen'.content[n].deleting
            BY <2>1, NoneAssumption, ZenonT(40) DEF Bytes
        <3>2. CASE content'[n] = content[n]
            BY <2>1, <3>1, <3>2, AlikeSelf, BytesFrame
        <3>3. CASE Created(n)
            <4>1. content[n] = None /\ content'[n].state = "" /\ content'[n] # None
                BY <3>3, NoneAssumption, Zenon DEF Created
            <4>2. publish'[n] = "none" /\ cut' # n
                BY <2>1, <3>1, <4>1, Zenon DEF Bytes
            <4> QED
                BY <4>1, <4>2, Zenon DEF Bytes
        <3> QED
            BY <2>1, <3>2, <3>3, Zenon DEF WalkCreates
    <2> QED
        BY <2>1, <2>2
<1>4. CASE \E n \in Contents : Tends(n)
    <2>1. PICK n \in Contents : Tends(n)
        BY <1>4
    <2>2. Tended(n)
        BY <2>1, TendsFacts
    <2>3. /\ UNCHANGED <<config, imp, jobs, image, seen, walk, cut>>
          /\ content' = [content EXCEPT ![n] = content'[n]]
          /\ volume' = [volume EXCEPT ![n] = volume'[n]]
          /\ publish' = [publish EXCEPT ![n] = publish'[n]]
        BY <2>1, TendsElsewhere
    <2>4. Objects' /\ Captures' /\ WalkInv'
        BY <1>1, <2>2, <2>3 DEF Objects, Captures, WalkInv, Tended, SpentGrows, jobs
    <2>5. TypeOK'
        BY <2>4 DEF TypeOK, Objects, Captures, Spent
    <2>6. ASSUME NEW k \in Contents, k # n PROVE Bytes(k)'
        <3>1. content'[k] = content[k] /\ volume'[k] = volume[k] /\ publish'[k] = publish[k]
            BY <1>1, <2>3, <2>6 DEF Objects
        <3>2. cut' = k => cut = k /\ seen'.content[k] # None /\ seen'.content[k].deleting
            BY <2>3, Zenon DEF Bytes
        <3> QED
            BY <2>2, <3>1, <3>2, AlikeSelf, BytesFrame, Zenon DEF Tended
    <2> QED
        BY <2>2, <2>4, <2>5, <2>6 DEF Tended
<1>5. CASE \E m \in Images : Binds(m)
    <2>1. Bound /\ TypeOK'
        BY <1>5, BindsFacts
    <2>2. ASSUME NEW n \in Contents PROVE Bytes(n)'
        <3>1. cut' = n => cut = n /\ seen'.content[n] # None /\ seen'.content[n].deleting
            <4>1. cut' \in {cut, None} /\ seen' = seen /\ n # None
                BY <2>1, NoneAssumption, ZenonT(40) DEF Bound
            <4> QED
                BY <4>1, ZenonT(40) DEF Bytes
        <3> QED
            BY <2>1, <3>1, BytesFrame, ZenonT(40) DEF Bound
    <2> QED
        BY <2>1, <2>2 DEF Bound, WalkInv
<1>6. CASE (\E n \in Contents : CacheContent(n)) \/ (\E m \in Images : CacheImage(m))
    <2>1. /\ UNCHANGED <<content, volume, publish, walk, cut>> /\ TypeOK' /\ SpentGrows
          /\ \A n \in Contents : \/ seen'.content[n] = seen.content[n]
                                 \/ seen'.content[n] = Shown(content[n])
        BY <1>6, CacheFacts
    <2>2. ASSUME NEW n \in Contents PROVE Bytes(n)'
        <3>1. cut' = n => cut = n /\ seen'.content[n] # None /\ seen'.content[n].deleting
            <4>1. cut = n => /\ content[n] # None /\ content[n].deleting
                             /\ seen.content[n] # None /\ seen.content[n].deleting
                BY Zenon DEF Bytes
            <4>2. content[n] # None => content[n] \in Content
                BY <1>1, ObjectFacts
            <4>3. content[n] \in Content
                    => Shown(content[n]) # None /\ Shown(content[n]).deleting = content[n].deleting
                BY ShownFacts
            <4> QED
                BY <2>1, <4>1, <4>2, <4>3
        <3> QED
            BY <2>1, <3>1, AlikeSelf, BytesFrame
    <2> QED
        BY <2>1, <2>2 DEF WalkInv
<1>7. CASE \E n \in Contents : CheckBlockers(n)
    <2>1. PICK n \in Contents : CheckBlockers(n)
        BY <1>7
    <2>2. /\ UNCHANGED <<content, volume, seen, walk>> /\ TypeOK' /\ SpentGrows /\ cut' = n
          /\ content[n] # None /\ content[n].deleting /\ publish'[n] = "none"
          /\ seen.content[n] # None /\ seen.content[n].deleting
          /\ \A k \in Contents : k # n => publish'[k] = publish[k]
        BY <2>1, CheckBlockersFacts
    <2>3. Bytes(n)'
        <3>1. n \notin spent'.reused => n \notin spent.reused
            BY <2>2 DEF SpentGrows
        <3> QED
            BY <2>2, <3>1, Zenon DEF Bytes
    <2>4. ASSUME NEW k \in Contents, k # n PROVE Bytes(k)'
        BY <2>2, <2>4, AlikeSelf, BytesFrame
    <2> QED
        BY <2>2, <2>3, <2>4 DEF WalkInv
<1>8. CASE RemoveFinalizer
    <2>1. /\ UNCHANGED <<publish, seen, walk, spent>> /\ TypeOK' /\ SpentGrows
          /\ cut \in Contents /\ cut' = None
          /\ content'[cut] = None /\ (volume'[cut] # None => ~volume'[cut].live)
          /\ \A k \in Contents : k # cut => content'[k] = content[k] /\ volume'[k] = volume[k]
        BY <1>8, RemoveFinalizerFacts
    <2>2. ASSUME NEW n \in Contents PROVE Bytes(n)'
        <3>1. cut' # n
            BY <2>1, NoneAssumption
        <3>2. CASE n = cut
            BY <2>1, <3>1, <3>2, ZenonT(40) DEF Bytes
        <3>3. CASE n # cut
            BY <2>1, <3>1, <3>3, AlikeSelf, BytesFrame
        <3> QED
            BY <3>2, <3>3
    <2> QED
        BY <2>1, <2>2 DEF WalkInv
<1> QED
    BY <1>2, <1>3, <1>4, <1>5, <1>6, <1>7, <1>8, StepKinds

\* At first there is no content.
LEMMA InitEstablishesBytes ==
    ASSUME Init
    PROVE  BytesInv
<1>1. content \in [Contents -> Content \cup {None}] /\ volume \in [Contents -> Volume \cup {None}]
      /\ publish \in [Contents -> {"none", "running", "succeeded", "failed"}]
      /\ image \in [Images -> Image \cup {None}]
    BY Zenon DEF Init
<1>2. /\ \A n \in Contents : content[n] = None /\ volume[n] = None /\ publish[n] = "none"
      /\ \A m \in Images : image[m] = None
    BY Zenon DEF Init
<1>3. seen \in [content : [Contents -> SeenContent \cup {None}],
                image : [Images -> SeenImage \cup {None}]]
    <2>1. content \in [Contents -> SeenContent \cup {None}]
          /\ image \in [Images -> SeenImage \cup {None}]
        BY Zenon DEF Init
    <2> QED
        BY <2>1, Zenon DEF Init
<1>4. walk \in [imp : Imports \cup {None}, todo : SUBSET Contents,
                next : {"content", "image", "record"}] /\ WalkInv
    BY Zenon DEF Init, NoWalk, WalkInv
<1>5. spent \in Spent
    <2>1. 0 \in 0..MaxEdits /\ 0 \in 0..MaxMishaps
        BY BoundsAssumption
    <2>2. spent = [edits |-> 0, mishaps |-> 0, stale |-> FALSE, expired |-> {}, reused |-> {}]
        BY Zenon DEF Init
    <2> QED
        BY <2>1, <2>2 DEF Spent
<1>6. cut = None
    BY Zenon DEF Init
<1>7. Captures
    BY Zenon DEF Init, Captures, Unfinished
<1>8. Objects
    BY <1>1, <1>3, <1>4, <1>5, <1>6 DEF Objects
<1>9. TypeOK
    BY <1>7, <1>8, TypeParts
<1>10. \A n \in Contents : Bytes(n)
    BY <1>2, <1>6, NoneAssumption, ZenonT(40) DEF Bytes
<1> QED
    BY <1>4, <1>9, <1>10 DEF BytesInv

\* So does a step that changes nothing.
LEMMA StutterKeepsBytes ==
    ASSUME BytesInv, UNCHANGED vars
    PROVE  BytesInv'
    BY Zenon DEF vars, BytesInv, TypeOK, WalkInv, Bytes

\* Every variable keeps its type, in every state of every behaviour.
THEOREM TypeCorrect == Spec => []TypeOK
<1>1. Init => BytesInv
    BY InitEstablishesBytes
<1>2. BytesInv /\ [Next]_vars => BytesInv'
    <2>1. CASE Next
        BY <2>1, NextKeepsBytes
    <2>2. CASE UNCHANGED vars
        BY <2>2, StutterKeepsBytes
    <2> QED
        BY <2>1, <2>2
<1>3. BytesInv => TypeOK
    BY DEF BytesInv
<1> QED
    BY <1>1, <1>2, <1>3, PTL DEF Spec

\* A Ready content's volume holds what its own import captured, under the recorded hash,
\* whatever is deleted, lost or read late, unless it took over the volume of a deleted
\* content of the same name.
THEOREM ReadyMeansPublished == Spec => []ReadyHoldsItsBytes
<1>1. Init => BytesInv
    BY InitEstablishesBytes
<1>2. BytesInv /\ [Next]_vars => BytesInv'
    <2>1. CASE Next
        BY <2>1, NextKeepsBytes
    <2>2. CASE UNCHANGED vars
        BY <2>2, StutterKeepsBytes
    <2> QED
        BY <2>1, <2>2
<1>3. BytesInv => ReadyHoldsItsBytes
    BY Zenon DEF BytesInv, Bytes, ReadyHoldsItsBytes
<1> QED
    BY <1>1, <1>2, <1>3, PTL DEF Spec

-----------------------------------------------------------------------------
(* A Ready Image keeps its contents.                                       *)

\* A content that is Ready, and whose end is not decided.
Safe(n) == content[n] # None /\ content[n].state = "Ready" /\ n # cut

\* What the cache shows as Ready and not being deleted is safe; a Ready Image is in the
\* cache, where it blocks deletions, and its contents are safe.
WholeInv ==
    /\ \A n \in Contents :
         seen.content[n] # None /\ seen.content[n].state = "Ready" /\ ~seen.content[n].deleting
           => Safe(n)
    /\ \A m \in Images : image[m] # None /\ image[m].state = "Ready" =>
         CachedImage(m) /\ \A n \in image[m].slots : Safe(n)

\* A step that ends no safe content and leaves the cache and the Images alone.
LEMMA WholeFrame ==
    ASSUME WholeInv, \A n \in Contents : Safe(n) => Safe(n)', UNCHANGED <<seen, image>>, Objects
    PROVE  WholeInv'
<1>1. \A m \in Images : image[m] # None => image[m].slots \subseteq Contents
    BY ObjectFacts, ZenonT(40) DEF Image
<1>2. \A m \in Images : CachedImage(m)' <=> CachedImage(m)
    BY DEF CachedImage
<1> QED
    BY <1>1, <1>2 DEF WholeInv

\* Every step keeps the contents of Ready Images safe.
LEMMA NextKeepsWhole ==
    ASSUME BytesInv, WholeInv, Next
    PROVE  WholeInv'
<1>1. TypeOK /\ Objects /\ WalkInv /\ \A n \in Contents : Bytes(n)
    BY TypeParts DEF BytesInv
<1>2. \A m \in Images : image[m] # None => image[m].slots \subseteq Contents
    BY <1>1, ObjectFacts, Zenon DEF Image
<1>3. CASE Configure \/ \E i \in Imports : Ingests(i)
    <2>1. Apart
        BY <1>1, <1>3, IngestsFacts
    <2> QED
        BY <1>1, <2>1, WholeFrame DEF Apart, Safe
<1>4. CASE Walks
    <2>1. /\ UNCHANGED seen /\ cut' \in {cut, None} /\ WalkCreates
        BY <1>1, <1>4, WalksFacts
    <2>2. \A n \in Contents : Safe(n) => Safe(n)'
        BY <2>1, NoneAssumption, ZenonT(40) DEF WalkCreates, Created, Safe
    <2>3. ASSUME NEW m \in Images, image'[m] # None, image'[m].state = "Ready"
          PROVE  CachedImage(m)' /\ \A n \in image'[m].slots : Safe(n)'
        <3>1. image'[m] = image[m]
            BY <2>1, <2>3, Zenon DEF WalkCreates
        <3> QED
            BY <1>2, <2>1, <2>2, <2>3, <3>1 DEF WholeInv, CachedImage
    <2> QED
        BY <2>1, <2>2, <2>3 DEF WholeInv
<1>5. CASE \E n \in Contents : Tends(n)
    <2>1. PICK n \in Contents : Tends(n)
        BY <1>5
    <2>2. Tended(n)
        BY <1>1, <2>1, TendsFacts
    <2>3. UNCHANGED <<image, seen, cut>> /\ content' = [content EXCEPT ![n] = content'[n]]
        BY <1>1, <2>1, TendsElsewhere
    <2>4. \A k \in Contents : k # n => content'[k] = content[k]
        BY <1>1, <2>3 DEF Objects
    <2>5. Safe(n) => Safe(n)'
        <3>1. content[n] # None /\ content[n].state = "Ready"
                => content'[n] # None /\ content'[n].state = "Ready"
            BY <2>2, Zenon DEF Tended
        <3>2. cut' = cut
            BY <2>3
        <3> QED
            BY <3>1, <3>2, Zenon DEF Safe
    <2>6. \A k \in Contents : Safe(k) => Safe(k)'
        BY <2>3, <2>4, <2>5 DEF Safe
    <2> QED
        BY <1>1, <2>3, <2>6, WholeFrame
<1>6. CASE \E m \in Images : Binds(m)
    <2>1. Bound
        BY <1>1, <1>6, BindsFacts
    <2>2. ASSUME NEW n \in Contents, Safe(n) PROVE Safe(n)'
        <3>1. Alike(content[n], content'[n]) /\ cut' \in {cut, None} /\ n # None
            BY <2>1, NoneAssumption DEF Bound
        <3> QED
            BY <2>2, <3>1 DEF Safe, Alike
    <2>3. ASSUME NEW m \in Images, image'[m] # None, image'[m].state = "Ready"
          PROVE  CachedImage(m)' /\ \A n \in image'[m].slots : Safe(n)'
        <3>1. /\ image[m] # None /\ image'[m].slots = image[m].slots /\ image'[m].by = image[m].by
              /\ \/ image[m].state = "Ready"
                 \/ CachedImage(m) /\ \A n \in image[m].slots : ReadySlot(n) /\ ~StaleSlot(n)
            BY <2>1, <2>3 DEF Bound
        <3>2. CachedImage(m) /\ \A n \in image[m].slots : Safe(n)
            BY <1>2, <3>1, ZenonT(40) DEF WholeInv, ReadySlot, StaleSlot
        <3>3. CachedImage(m)'
            BY <2>1, <2>3, <3>1, <3>2 DEF CachedImage, ShownImage, Bound
        <3> QED
            BY <1>2, <2>2, <3>1, <3>2, <3>3, ZenonT(40)
    <2> QED
        BY <2>1, <2>2, <2>3, Zenon DEF WholeInv, Bound
<1>7. CASE (\E n \in Contents : CacheContent(n)) \/ (\E m \in Images : CacheImage(m))
    <2>1. /\ UNCHANGED <<content, image, cut>>
          /\ \A n \in Contents : \/ seen'.content[n] = seen.content[n]
                                 \/ seen'.content[n] = Shown(content[n])
          /\ \A m \in Images : \/ seen'.image[m] = seen.image[m]
                               \/ seen'.image[m] = ShownImage(image[m])
        BY <1>1, <1>7, CacheFacts
    <2>2. \A n \in Contents : Safe(n) <=> Safe(n)'
        BY <2>1 DEF Safe
    <2>3. ASSUME NEW n \in Contents, seen'.content[n] # None, seen'.content[n].state = "Ready",
                 ~seen'.content[n].deleting
          PROVE  Safe(n)
        <3>1. CASE seen'.content[n] = seen.content[n]
            BY <2>3, <3>1 DEF WholeInv
        <3>2. CASE seen'.content[n] = Shown(content[n])
            <4>1. content[n] # None
                BY <2>3, <3>2, ShownFacts
            <4>2. content[n] \in Content
                BY <1>1, <4>1, ObjectFacts
            <4>3. content[n].state = "Ready" /\ ~content[n].deleting
                BY <2>3, <3>2, <4>2, ShownFacts
            <4> QED
                BY <1>1, <4>1, <4>3, Zenon DEF Safe, Bytes
        <3> QED
            BY <2>1, <3>1, <3>2
    <2>4. \A m \in Images : CachedImage(m) => CachedImage(m)'
        BY <2>1 DEF CachedImage
    <2> QED
        BY <1>2, <2>1, <2>2, <2>3, <2>4, ZenonT(40) DEF WholeInv
<1>8. CASE \E n \in Contents : CheckBlockers(n)
    <2>1. PICK n \in Contents : CheckBlockers(n)
        BY <1>8
    <2>2. /\ UNCHANGED <<content, image, seen>> /\ cut' = n
          /\ seen.content[n].deleting /\ Blockers(n) = {}
        BY <1>1, <2>1, CheckBlockersFacts
    <2>3. \A k \in Contents \ {n} : Safe(k) => Safe(k)'
        BY <2>2 DEF Safe
    <2>4. ASSUME NEW m \in Images, image[m] # None, image[m].state = "Ready"
          PROVE  n \notin image[m].slots
        <3>1. seen.image[m] = ShownImage(image[m]) /\ image[m] \in Image
            BY <1>1, <2>4, ObjectFacts DEF WholeInv, CachedImage
        <3>2. seen.image[m] # None /\ seen.image[m].slots = image[m].slots
            BY <3>1, ShownFacts
        <3> QED
            BY <2>2, <3>2 DEF Blockers
    <2>5. \A m \in Images : CachedImage(m)' <=> CachedImage(m)
        BY <2>2 DEF CachedImage
    <2> QED
        BY <1>2, <2>2, <2>3, <2>4, <2>5, Zenon DEF WholeInv
<1>9. CASE RemoveFinalizer
    <2>1. /\ UNCHANGED <<image, seen>> /\ cut' = None
          /\ \A k \in Contents : k # cut => content'[k] = content[k]
        BY <1>1, <1>9, RemoveFinalizerFacts
    <2>2. \A n \in Contents : Safe(n) => Safe(n)'
        BY <2>1, NoneAssumption DEF Safe
    <2> QED
        BY <1>1, <2>1, <2>2, WholeFrame
<1> QED
    BY <1>3, <1>4, <1>5, <1>6, <1>7, <1>8, <1>9, StepKinds

\* A Ready Image never loses a content: whatever users delete, whatever the garbage
\* collector takes and however late the cache is.
THEOREM ReadyImagesStayWhole == Spec => []ReadyImageStaysWhole
<1>1. Init => BytesInv /\ WholeInv
    <2> SUFFICES ASSUME Init PROVE BytesInv /\ WholeInv
        OBVIOUS
    <2>1. /\ \A n \in Contents : seen.content[n] = None
          /\ \A m \in Images : image[m] = None
        BY Zenon DEF Init
    <2> QED
        BY <2>1, InitEstablishesBytes DEF WholeInv
<1>2. BytesInv /\ WholeInv /\ [Next]_vars => (BytesInv /\ WholeInv)'
    <2>1. CASE Next
        BY <2>1, NextKeepsBytes, NextKeepsWhole
    <2>2. CASE UNCHANGED vars
        <3>1. UNCHANGED <<content, image, seen, cut>>
            BY <2>2 DEF vars
        <3>2. \A n \in Contents : Safe(n) => Safe(n)'
            BY <3>1 DEF Safe
        <3> QED
            BY <2>2, <3>1, <3>2, StutterKeepsBytes, WholeFrame, TypeParts DEF BytesInv
    <2> QED
        BY <2>1, <2>2
<1>3. BytesInv /\ WholeInv => ReadyImageStaysWhole
    <2> SUFFICES ASSUME BytesInv, WholeInv PROVE ReadyImageStaysWhole
        OBVIOUS
    <2> QED
        BY DEF WholeInv, Safe, ReadyImageStaysWhole
<1> QED
    BY <1>1, <1>2, <1>3, PTL DEF Spec

-----------------------------------------------------------------------------
(* An import that succeeds has made its objects itself.                    *)

\* A content that nobody deletes.
Settled(c) == c # None => ~c.deleting /\ (c.owned => c.refs # {})

\* What the import has been through is its own.
Through ==
    walk.imp # None =>
      /\ \A n \in ContentsOf[walk.imp] \ walk.todo : content[n] # None /\ content[n].by = walk.imp
      /\ walk.next # "content" => walk.todo = {}
      /\ walk.next = "record" =>
           image[ImageOf[walk.imp]] # None /\ image[ImageOf[walk.imp]].by = walk.imp

\* While nobody edits objects and reads are current, no content ends.
OwnInv ==
    spent.edits = 0 /\ ~spent.stale =>
      cut = None /\ (\A n \in Contents : Settled(content[n])) /\ Through

\* A step that leaves the walk alone and changes no object's origin.
LEMMA ThroughFrame ==
    ASSUME Objects, Through, UNCHANGED walk,
           \A n \in Contents : content[n] # None
                                 => content'[n] # None /\ content'[n].by = content[n].by,
           \A m \in Images : image[m] # None
                               => image'[m] # None /\ image'[m].by = image[m].by
    PROVE  Through'
<1> SUFFICES ASSUME walk.imp # None PROVE Through'
    BY DEF Through
<1>1. walk.imp \in Imports
    BY DEF Objects
<1>2. ContentsOf[walk.imp] \subseteq Contents /\ ImageOf[walk.imp] \in Images
    BY <1>1, NamesAssumption, Zenon
<1> QED
    BY <1>2 DEF Through

\* The walk itself.
LEMMA WalksKeepOwn ==
    ASSUME TypeOK, WalkInv, Walks, SpentGrows, spent'.edits = 0, ~spent'.stale,
           cut = None, \A n \in Contents : Settled(content[n]), Through
    PROVE  cut' = None /\ (\A n \in Contents : Settled(content'[n])) /\ Through'
<1>1. Objects /\ spent \in Spent
    BY TypeParts DEF Objects
<1>2. UNCHANGED <<volume, publish, seen>> /\ cut' \in {cut, None} /\ WalkCreates
    BY WalksFacts
<1>3. \A n \in Contents : Settled(content'[n])
    BY <1>2, ZenonT(40) DEF WalkCreates, Created, Settled
<1>4. ASSUME walk' = NoWalk PROVE Through'
    BY <1>4 DEF Through, NoWalk
<1>5. CASE \E i \in Imports : CompleteIngest(i)
    <2>1. PICK i \in Imports : CompleteIngest(i)
        BY <1>5
    <2>2. walk'.imp = i /\ walk'.todo = ContentsOf[i] /\ walk'.next = "content"
        BY <2>1 DEF CompleteIngest
    <2>3. Through'
        BY <2>2 DEF Through
    <2> QED
        BY <1>2, <1>3, <2>3
<1>6. CASE \E n \in Contents : EnsureContent(n)
    <2>1. PICK n \in Contents : EnsureContent(n)
        BY <1>6
    <2>2. walk.imp \in Imports /\ walk.next = "content" /\ n \in walk.todo
        BY <2>1 DEF EnsureContent, WalkInv
    <2>3. Cached(n)
        BY <1>1, <2>1, ReadsFacts DEF EnsureContent
    <2>4. CASE TakenByOther(seen.content[n], walk.imp)
        BY <1>2, <1>3, <1>4, <2>1, <2>4 DEF EnsureContent
    <2>5. CASE ~TakenByOther(seen.content[n], walk.imp)
        <3>1. /\ walk' = [walk EXCEPT !.todo = walk.todo \ {n},
                                      !.next = IF walk.todo = {n} THEN "image" ELSE walk.next]
              /\ content' = IF seen.content[n] = None /\ content[n] = None
                            THEN [content EXCEPT ![n] = NewContent(walk.imp)] ELSE content
            BY <2>1, <2>5 DEF EnsureContent
        <3>2. /\ walk'.imp = walk.imp /\ walk'.todo = walk.todo \ {n} /\ walk'.next # "record"
              /\ walk'.next # "content" => walk.todo = {n}
            BY <1>1, <2>2, <3>1 DEF Objects
        <3>3. \A k \in Contents : content[k] # None => content'[k] = content[k]
            BY <1>2, NoneAssumption, Zenon DEF WalkCreates, Created
        <3>4. content'[n] # None /\ content'[n].by = walk.imp
            <4>1. CASE content[n] = None
                <5>1. seen.content[n] = None
                    BY <2>3, <4>1, ShownFacts DEF Cached
                <5>2. PICK c : c = NewContent(walk.imp)
                    OBVIOUS
                <5>3. c \in Content /\ c.by = walk.imp
                    BY <2>2, <5>2, Zenon DEF NewContent, Content, ContentStates
                <5>4. content' = [content EXCEPT ![n] = c]
                    BY <3>1, <4>1, <5>1, <5>2
                <5> QED
                    BY <1>1, <5>3, <5>4, NoneAssumption DEF Objects
            <4>2. CASE content[n] # None
                <5>1. content[n] \in Content
                    BY <1>1, <4>2, ObjectFacts
                <5>2. seen.content[n] # None /\ seen.content[n].by = content[n].by
                    BY <2>3, <5>1, ShownFacts DEF Cached
                <5> QED
                    BY <2>5, <3>3, <4>2, <5>2 DEF TakenByOther
            <4> QED
                BY <4>1, <4>2
        <3>5. ContentsOf[walk.imp] \subseteq Contents
            BY <2>2, NamesAssumption
        <3>6. ASSUME walk.imp # None, NEW k \in ContentsOf[walk.imp] \ walk'.todo
              PROVE  content'[k] # None /\ content'[k].by = walk.imp
            <4>1. CASE k = n
                BY <3>4, <4>1
            <4>2. CASE k # n
                <5>1. k \in ContentsOf[walk.imp] \ walk.todo /\ k \in Contents
                    BY <3>2, <3>5, <3>6, <4>2
                <5>2. content[k] # None /\ content[k].by = walk.imp
                    BY <3>6, <5>1 DEF Through
                <5> QED
                    BY <3>3, <5>1, <5>2
            <4> QED
                BY <4>1, <4>2
        <3>7. Through'
            BY <3>2, <3>6 DEF Through
        <3> QED
            BY <1>2, <1>3, <3>7
    <2> QED
        BY <2>4, <2>5
<1>7. CASE EnsureImage
    <2>1. walk.imp \in Imports /\ walk.next = "image" /\ UNCHANGED content
        BY <1>7, Zenon DEF EnsureImage, WalkInv
    <2>2. PICK m \in Images : m = ImageOf[walk.imp]
        BY <2>1, NamesAssumption
    <2>3. CachedImage(m)
        <3>1. Reads(CachedImage(m))
            BY <1>7, <2>2, Zenon DEF EnsureImage
        <3> QED
            BY <1>1, <3>1, ReadsFacts
    <2>4. CASE TakenByOther(seen.image[m], walk.imp)
        BY <1>2, <1>3, <1>4, <1>7, <2>2, <2>4 DEF EnsureImage
    <2>5. CASE ~TakenByOther(seen.image[m], walk.imp)
        <3>1. PICK new : new = [by |-> walk.imp, slots |-> ContentsOf[walk.imp],
                                fits |-> TRUE, state |-> ""]
            BY Zenon
        <3>2. new \in Image /\ new.by = walk.imp
            <4>1. ContentsOf[walk.imp] \in SUBSET Contents
                BY <2>1, NamesAssumption
            <4> QED
                BY <2>1, <3>1, <4>1, Zenon DEF Image
        <3>3. /\ walk' = [walk EXCEPT !.next = "record"]
              /\ image' = IF seen.image[m] = None /\ image[m] = None
                          THEN [image EXCEPT ![m] = new] ELSE image
            BY <1>7, <2>2, <2>5, <3>1, Zenon DEF EnsureImage
        <3>4. walk'.imp = walk.imp /\ walk'.todo = walk.todo
            BY <1>1, <3>3 DEF Objects
        <3>5. image'[m] # None /\ image'[m].by = walk.imp
            <4>1. CASE image[m] = None
                <5>1. seen.image[m] = None
                    BY <2>3, <4>1, ShownFacts DEF CachedImage
                <5> QED
                    BY <1>1, <3>2, <3>3, <4>1, <5>1, NoneAssumption DEF Objects
            <4>2. CASE image[m] # None
                <5>1. image[m] \in Image
                    BY <1>1, <4>2, ObjectFacts
                <5>2. seen.image[m] # None /\ seen.image[m].by = image[m].by
                    BY <2>3, <5>1, ShownFacts DEF CachedImage
                <5> QED
                    BY <2>5, <3>3, <4>2, <5>2 DEF TakenByOther
            <4> QED
                BY <4>1, <4>2
        <3>6. Through'
            BY <2>1, <2>2, <3>4, <3>5 DEF Through
        <3> QED
            BY <1>2, <1>3, <3>6
    <2> QED
        BY <2>4, <2>5
<1>8. CASE RecordSucceeded
    BY <1>2, <1>3, <1>4, <1>8 DEF RecordSucceeded
<1>9. CASE Interrupt
    <2>1. walk' = NoWalk
        BY <1>9 DEF Interrupt
    <2> QED
        BY <1>2, <1>3, <1>4, <2>1
<1> QED
    BY <1>5, <1>6, <1>7, <1>8, <1>9 DEF Walks

\* Every step keeps what imports have made, while nobody edits and reads are current.
LEMMA NextKeepsOwn ==
    ASSUME BytesInv, OwnInv, Next
    PROVE  OwnInv'
<1>1. TypeOK /\ Objects /\ WalkInv /\ SpentGrows /\ \A n \in Contents : Bytes(n)
    BY TypeParts, NextKeepsBytes DEF BytesInv
<1> SUFFICES ASSUME spent'.edits = 0, ~spent'.stale
             PROVE  cut' = None /\ (\A n \in Contents : Settled(content'[n])) /\ Through'
    BY DEF OwnInv
<1>2. cut = None /\ (\A n \in Contents : Settled(content[n])) /\ Through
    BY <1>1 DEF SpentGrows, OwnInv
<1>3. CASE Configure \/ \E i \in Imports : Ingests(i)
    <2>1. Apart
        BY <1>1, <1>3, IngestsFacts
    <2> QED
        BY <1>1, <1>2, <2>1, ThroughFrame DEF Apart
<1>4. CASE Walks
    BY <1>1, <1>2, <1>4, WalksKeepOwn
<1>5. CASE \E n \in Contents : Tends(n)
    <2>1. PICK n \in Contents : Tends(n)
        BY <1>5
    <2>2. Tended(n)
        BY <1>1, <2>1, TendsFacts
    <2>3. UNCHANGED <<image, seen, walk, cut>> /\ content' = [content EXCEPT ![n] = content'[n]]
        BY <1>1, <2>1, TendsElsewhere
    <2>4. \A k \in Contents : k # n => content'[k] = content[k]
        BY <1>1, <2>3 DEF Objects
    <2>5. /\ content[n] = None => content'[n] = None
          /\ content[n] # None => /\ content'[n] # None /\ content'[n].by = content[n].by
                                  /\ content'[n].deleting = content[n].deleting
                                  /\ content'[n].owned = content[n].owned
                                  /\ content'[n].refs = content[n].refs
        BY <1>2, <2>2 DEF Tended, Settled
    <2>6. \A k \in Contents : Settled(content'[k])
        <3>1. Settled(content'[n])
            BY <1>2, <2>5 DEF Settled
        <3>2. ASSUME NEW k \in Contents, k # n
              PROVE  Settled(content'[k])
            BY <1>2, <2>4, <3>2
        <3> QED
            BY <3>1, <3>2
    <2>7. \A k \in Contents : content[k] # None
                                => content'[k] # None /\ content'[k].by = content[k].by
        BY <2>4, <2>5
    <2> QED
        BY <1>1, <1>2, <2>3, <2>6, <2>7, ThroughFrame
<1>6. CASE \E m \in Images : Binds(m)
    <2>1. Bound
        BY <1>1, <1>6, BindsFacts
    <2>2. /\ cut' \in {cut, None} /\ UNCHANGED walk
          /\ \A k \in Images : image[k] # None => image'[k] # None /\ image'[k].by = image[k].by
        BY <2>1, ZenonT(40) DEF Bound
    <2>3. ASSUME NEW n \in Contents
          PROVE  /\ Settled(content'[n])
                 /\ content[n] # None => content'[n] # None /\ content'[n].by = content[n].by
        <3>1. /\ Alike(content[n], content'[n])
              /\ content[n] # None /\ (content[n].owned => content[n].refs # {})
                   => (content'[n].owned => content'[n].refs # {})
            BY <2>1, ZenonT(40) DEF Bound
        <3> QED
            BY <1>2, <3>1 DEF Settled, Alike
    <2> QED
        BY <1>1, <1>2, <2>2, <2>3, ThroughFrame
<1>7. CASE (\E n \in Contents : CacheContent(n)) \/ (\E m \in Images : CacheImage(m))
    <2>1. UNCHANGED <<content, image, walk, cut>>
        BY <1>1, <1>7, CacheFacts, ZenonT(40)
    <2> QED
        BY <1>1, <1>2, <2>1, ThroughFrame
<1>8. CASE \E n \in Contents : CheckBlockers(n)
    BY <1>1, <1>2, <1>8, CheckBlockersFacts DEF Settled
<1>9. CASE RemoveFinalizer
    BY <1>1, <1>2, <1>9, RemoveFinalizerFacts, NoneAssumption
<1> QED
    BY <1>3, <1>4, <1>5, <1>6, <1>7, <1>8, <1>9, StepKinds

\* Only recordImportSucceeded reports success, at the end of the import's own walk.
LEMMA OnlyTheWalkSucceeds ==
    ASSUME BytesInv, Next, NEW i \in Imports, imp[i] # "Succeeded", imp'[i] = "Succeeded"
    PROVE  RecordSucceeded /\ walk.imp = i
<1>1. TypeOK /\ Objects /\ Captures /\ WalkInv
    BY TypeParts DEF BytesInv
<1>2. imp \in [Imports -> Unfinished \cup Finished \cup {"gone"}]
    BY <1>1 DEF Captures
<1>3. ~UNCHANGED imp
    OBVIOUS
<1>4. ASSUME NEW j, NEW s \in {"Pending", "Ingesting", "Failed", "gone"}, SetImport(j, s)
      PROVE  FALSE
    BY <1>2, <1>4 DEF SetImport
<1>5. ASSUME NEW j \in Imports, Ingests(j) PROVE FALSE
    <2>1. CASE ImportWaits(j)
        BY <1>4, <2>1 DEF ImportWaits
    <2>2. CASE StartIngest(j)
        BY <1>4, <2>2 DEF StartIngest
    <2>3. CASE IngestGivesUp(j)
        BY <1>4, <2>3 DEF IngestGivesUp
    <2>4. CASE IngestRuns(j) \/ IngestJobExpires(j)
        BY <1>3, <2>4 DEF IngestRuns, IngestJobExpires
    <2>5. CASE ImportExpires(j)
        BY <1>4, <2>5 DEF ImportExpires
    <2> QED
        BY <1>5, <2>1, <2>2, <2>3, <2>4, <2>5 DEF Ingests
<1>6. CASE Configure
    BY <1>3, <1>6 DEF Configure
<1>7. CASE Walks
    <2>1. ASSUME NEW n \in Contents, EnsureContent(n) PROVE FALSE
        BY <1>3, <1>4, <2>1 DEF EnsureContent
    <2>2. ~EnsureImage
        BY <1>3, <1>4, ZenonT(40) DEF EnsureImage
    <2>3. RecordSucceeded
        BY <1>3, <1>7, <2>1, <2>2 DEF Walks, CompleteIngest, Interrupt
    <2>4. imp' = [imp EXCEPT ![walk.imp] = "Succeeded"]
        BY <2>3 DEF RecordSucceeded, SetImport
    <2> QED
        BY <1>2, <2>3, <2>4
<1>8. CASE \E n \in Contents : Tends(n)
    BY <1>1, <1>3, <1>8, TendsElsewhere
<1>9. CASE \E m \in Images : Binds(m)
    BY <1>1, <1>3, <1>9, BindsFacts, ZenonT(40) DEF Bound
<1>10. CASE (\E n \in Contents : CacheContent(n)) \/ (\E m \in Images : CacheImage(m))
    BY <1>1, <1>3, <1>10, CacheFacts, ZenonT(40)
<1>11. CASE \E n \in Contents : CheckBlockers(n)
    BY <1>1, <1>3, <1>11, CheckBlockersFacts
<1>12. CASE RemoveFinalizer
    BY <1>1, <1>3, <1>12, RemoveFinalizerFacts
<1> QED
    BY <1>5, <1>6, <1>7, <1>8, <1>9, <1>10, <1>11, <1>12, StepKinds, ZenonT(40)

\* While nobody edits objects and reads are current, an import that reports Succeeded has
\* made its Image and every content of it itself, wherever earlier walks were interrupted.
THEOREM SuccessMeansOwnObjects == Spec => SucceededMadeItsOwn
<1> DEFINE Made == \A i \in Imports :
             imp[i] # "Succeeded" /\ imp'[i] = "Succeeded" /\ spent'.edits = 0 /\ ~spent'.stale =>
               /\ image'[ImageOf[i]] # None /\ image'[ImageOf[i]].by = i
               /\ \A n \in ContentsOf[i] : content'[n] # None /\ content'[n].by = i
<1>1. Init => BytesInv /\ OwnInv
    <2> SUFFICES ASSUME Init PROVE BytesInv /\ OwnInv
        OBVIOUS
    <2>1. cut = None /\ walk.imp = None /\ \A n \in Contents : content[n] = None
        BY Zenon DEF Init, NoWalk
    <2> QED
        BY <2>1, InitEstablishesBytes DEF OwnInv, Settled, Through
<1>2. BytesInv /\ OwnInv /\ [Next]_vars => (BytesInv /\ OwnInv)'
    <2>1. CASE Next
        BY <2>1, NextKeepsBytes, NextKeepsOwn
    <2>2. CASE UNCHANGED vars
        <3>1. UNCHANGED <<content, image, walk, cut, spent>>
            BY <2>2 DEF vars
        <3>2. OwnInv => OwnInv'
            BY <3>1 DEF OwnInv, Settled, Through
        <3> QED
            BY <2>2, <3>2, StutterKeepsBytes
    <2> QED
        BY <2>1, <2>2
<1>3. BytesInv /\ OwnInv /\ [Next]_vars => [Made]_vars
    <2> SUFFICES ASSUME BytesInv, OwnInv, Next, NEW i \in Imports,
                        imp[i] # "Succeeded", imp'[i] = "Succeeded",
                        spent'.edits = 0, ~spent'.stale
                 PROVE  /\ image'[ImageOf[i]] # None /\ image'[ImageOf[i]].by = i
                        /\ \A n \in ContentsOf[i] : content'[n] # None /\ content'[n].by = i
        OBVIOUS
    <2>1. RecordSucceeded /\ walk.imp = i
        BY OnlyTheWalkSucceeds
    <2>2. UNCHANGED <<content, image, spent>> /\ walk.imp # None /\ walk.next = "record"
        BY <2>1 DEF RecordSucceeded
    <2>3. Through
        BY <2>2 DEF OwnInv
    <2> QED
        BY <2>1, <2>2, <2>3 DEF Through
<1>4. QED
    BY <1>1, <1>2, <1>3, PTL DEF Spec, SucceededMadeItsOwn

=============================================================================
