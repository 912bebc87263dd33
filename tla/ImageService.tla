---------------------------- MODULE ImageService ----------------------------
(***************************************************************************)
(* The image service's staging area: concurrent uploads streaming into     *)
(* temporary files, the capacity ledger that admits them, the lock that    *)
(* turns a received file into a named upload, and the ingest Job, in       *)
(* another pod on the same volume, that resolves a staged upload and       *)
(* removes it.  A crash of the service and a failed write can hit between  *)
(* any two file-system calls.                                              *)
(*                                                                         *)
(* Sources: internal/imageservice/{staging,admission,server}.go,           *)
(* internal/kezioctl/upload.go, internal/ingest/source.go and              *)
(* cmd/ingest/main.go.                                                     *)
(***************************************************************************)
EXTENDS Integers, FiniteSets

CONSTANTS
    Clients,      \* uploaders; each has at most one upload in flight
    Names,        \* upload names
    Contents,     \* the files that are uploaded, identified by their sha256
    Size,         \* content -> bytes, the Content-Length of its upload
    Quota,        \* --staging-quota-bytes; 0 disables the logical guard
    Capacity,     \* bytes of the staging volume
    Headroom,     \* StagingSpaceHeadroom
    MaxIngests,   \* bound: ingest Jobs started
    MaxMishaps,   \* bound: crashes, cut connections and failed writes
    None, Torn    \* no file; a marker file that was created but not written

ASSUME SizesArePositive == Size \in [Contents -> Nat \ {0}]
ASSUME FinitelyMany == IsFiniteSet(Clients) /\ IsFiniteSet(Names)
ASSUME ThingsApart ==
    /\ None \notin Clients \cup Names \cup Contents
    /\ Torn \notin Contents \cup {None}
ASSUME BoundsAreNaturals == {Quota, Capacity, Headroom, MaxIngests, MaxMishaps} \subseteq Nat

VARIABLES
    data,      \* name -> what upload.bin holds, or None
    marker,    \* name -> what upload.sha256 names, Torn, or None
    up,        \* client -> its request's handler
    mu,        \* holder of Admission.mu across the scan of the markers
    final,     \* holder of Staging.finalizeMu
    reserved,  \* Admission.reserved
    acked,     \* name -> contents a client was told are stored under it
    job,       \* the ingest Job reading and removing a staged upload
    spent      \* bounds used: ingests, mishaps; removed: names removed from

vars == <<data, marker, up, mu, final, reserved, acked, job, spent>>

Idle == [pc |-> "idle", name |-> None, body |-> None, linked |-> FALSE, used |-> 0]
NoJob == [pc |-> "none", name |-> None, sum |-> None, todo |-> {}]

TypeOK ==
    /\ data \in [Names -> Contents \cup {None}]
    /\ marker \in [Names -> Contents \cup {None, Torn}]
    /\ up \in [Clients -> [pc : {"idle", "scanned", "stream", "hashed", "renamed",
                                 "marking", "stored", "refused"},
                           name : Names \cup {None}, body : Contents \cup {None},
                           linked : BOOLEAN, used : Nat]]
    /\ mu \in Clients \cup {None} /\ final \in Clients \cup {None}
    /\ reserved \in Int
    /\ acked \in [Names -> SUBSET Contents]
    /\ job \in [pc : {"none", "resolved", "removing"}, name : Names \cup {None},
                sum : Contents \cup {None}, todo : SUBSET {"data", "marker"}]
    /\ spent \in [ingests : 0..MaxIngests, mishaps : 0..MaxMishaps, removed : SUBSET Names]

Init ==
    /\ data = [n \in Names |-> None] /\ marker = [n \in Names |-> None]
    /\ up = [c \in Clients |-> Idle]
    /\ mu = None /\ final = None /\ reserved = 0
    /\ acked = [n \in Names |-> {}]
    /\ job = NoJob
    /\ spent = [ingests |-> 0, mishaps |-> 0, removed |-> {}]

(***************************************************************************)
(* Files and sizes.                                                        *)
(***************************************************************************)
Bytes(x) == IF x \in Contents THEN Size[x] ELSE 0

\* The sum of a function's values, counted block by block.
Blocks(f) == UNION {{x} \X (1..f[x]) : x \in DOMAIN f}
Total(f) == Cardinality(Blocks(f))

Complete(n) == marker[n] \in Contents
AnyTorn == \E n \in Names : marker[n] = Torn

\* UsedBytes: the sizes every completion marker records.
MarkedBytes == [n \in Names |-> Bytes(marker[n])]
UsedBytes == Total(MarkedBytes)

\* Blocks the volume has given out: upload.bin files and received temporary files.
StoredBytes == [n \in Names |-> Bytes(data[n])]
TempBytes == [c \in Clients |-> IF up[c].pc = "hashed" /\ up[c].linked
                                THEN Bytes(up[c].body) ELSE 0]
Held == Total(StoredBytes) + Total(TempBytes)
Available == Capacity - Held

Mishap == spent.mishaps < MaxMishaps
Hit == spent' = [spent EXCEPT !.mishaps = @ + 1]

(***************************************************************************)
(* handleUpload: the capacity guards of Reserve.                           *)
(***************************************************************************)
\* A PUT takes Admission.mu and, with a quota, scans the completion markers.  An
\* unreadable marker fails the scan, which refuses the upload.
Begin(c, n, x) ==
    /\ up[c].pc = "idle" /\ mu = None
    /\ IF Quota > 0 /\ AnyTorn
       THEN /\ up' = [up EXCEPT ![c] = [Idle EXCEPT !.pc = "refused"]]
            /\ mu' = mu
       ELSE /\ up' = [up EXCEPT ![c] = [pc |-> "scanned", name |-> n, body |-> x,
                                        linked |-> FALSE, used |-> UsedBytes]]
            /\ mu' = c
    /\ UNCHANGED <<data, marker, final, reserved, acked, job, spent>>

\* Mutant: the space guard forgets the bytes other uploads have been promised.
SpaceOfFinished(c) == Size[up[c].body] + Headroom <= Available
QuotaOK(c) == Quota > 0 => up[c].used + reserved + Size[up[c].body] <= Quota
SpaceOK(c) == Size[up[c].body] + reserved + Headroom <= Available

\* Still under mu: both guards, then the reservation; Receive opens its temporary file.
Reserve(c) ==
    /\ up[c].pc = "scanned" /\ mu = c
    /\ mu' = None
    /\ IF QuotaOK(c) /\ SpaceOK(c)
       THEN /\ reserved' = reserved + Size[up[c].body]
            /\ up' = [up EXCEPT ![c].pc = "stream", ![c].linked = TRUE, ![c].used = 0]
       ELSE /\ up' = [up EXCEPT ![c] = [Idle EXCEPT !.pc = "refused"]]
            /\ UNCHANGED reserved
    /\ UNCHANGED <<data, marker, final, acked, job, spent>>

(***************************************************************************)
(* Receive.                                                                *)
(***************************************************************************)
\* The temporary file is removed and the error answered; name and body stay to be released.
Fail(c) == up' = [up EXCEPT ![c].pc = "refused", ![c].linked = FALSE]

\* The whole body is in the temporary file, hashed and closed.
Stream(c) ==
    /\ up[c].pc = "stream"
    /\ up' = [up EXCEPT ![c].pc = "hashed"]
    /\ UNCHANGED <<data, marker, mu, final, reserved, acked, job, spent>>

\* The connection breaks, or the checksum the client declared does not match.
StreamCut(c) ==
    /\ up[c].pc = "stream" /\ Mishap
    /\ Fail(c) /\ Hit
    /\ UNCHANGED <<data, marker, mu, final, reserved, acked, job>>

\* Mutant: Receive does not take finalizeMu.
FinalizeUnlocked(c) == final \in Clients \cup {None}
FinalizeFree(c) == final = None

\* Under finalizeMu: an equal completed upload answers at once, a different one or an
\* unreadable marker refuses, otherwise the temporary file is renamed into place.  The
\* rename fails when the file has been swept away.
Finalize(c) ==
    LET n == up[c].name
        x == up[c].body
    IN /\ up[c].pc = "hashed" /\ FinalizeFree(c)
       /\ \/ /\ marker[n] = x
             /\ up' = [up EXCEPT ![c].pc = "stored", ![c].linked = FALSE]
             /\ UNCHANGED <<data, final>>
          \/ /\ marker[n] \notin {x, None}
             /\ Fail(c)
             /\ UNCHANGED <<data, final>>
          \/ /\ marker[n] = None /\ ~up[c].linked
             /\ Fail(c)
             /\ UNCHANGED <<data, final>>
          \/ /\ marker[n] = None /\ up[c].linked
             /\ data' = [data EXCEPT ![n] = x]
             /\ up' = [up EXCEPT ![c].pc = "renamed", ![c].linked = FALSE]
             /\ final' = c
       /\ UNCHANGED <<marker, mu, reserved, acked, job, spent>>

\* writeMeta creates the marker file, and then writes it.
CreateMarker(c) ==
    /\ up[c].pc = "renamed"
    /\ marker' = [marker EXCEPT ![up[c].name] = Torn]
    /\ up' = [up EXCEPT ![c].pc = "marking"]
    /\ UNCHANGED <<data, mu, final, reserved, acked, job, spent>>

WriteMarker(c) ==
    /\ up[c].pc = "marking"
    /\ marker' = [marker EXCEPT ![up[c].name] = up[c].body]
    /\ up' = [up EXCEPT ![c].pc = "stored"]
    /\ final' = None
    /\ UNCHANGED <<data, mu, reserved, acked, job, spent>>

\* Mutant: the error return forgets the lock.
MarkerFailsLocked(c) ==
    /\ up[c].pc \in {"renamed", "marking"} /\ Mishap
    /\ data' = [data EXCEPT ![up[c].name] = None]
    /\ Fail(c) /\ Hit
    /\ UNCHANGED <<marker, mu, final, reserved, acked, job>>

\* writeMeta fails, before or after the file exists: the data file is removed again.
MarkerFails(c) ==
    /\ up[c].pc \in {"renamed", "marking"} /\ Mishap
    /\ data' = [data EXCEPT ![up[c].name] = None]
    /\ Fail(c) /\ final' = None /\ Hit
    /\ UNCHANGED <<marker, mu, reserved, acked, job>>

\* Mutant: the ledger is given back while another request is between scan and decision.
ReleaseAnytime == mu \in Clients \cup {None}
\* The release of a reservation needs Admission.mu.
MayRelease == mu = None

Return(c) == reserved - Bytes(up[c].body)

\* The answer, and the deferred release.  On success Upload has compared the checksum
\* and kezioctl goes on to create the ImageImport that names this upload.
Answer(c) ==
    /\ up[c].pc \in {"stored", "refused"} /\ MayRelease
    /\ reserved' = Return(c)
    /\ acked' = IF up[c].pc = "stored"
                THEN [acked EXCEPT ![up[c].name] = @ \cup {up[c].body}] ELSE acked
    /\ up' = [up EXCEPT ![c] = Idle]
    /\ UNCHANGED <<data, marker, mu, final, job, spent>>

\* The process dies and its successor runs NewStaging, which sweeps every temporary file.
Crash ==
    /\ Mishap /\ Hit
    /\ up' = [c \in Clients |-> Idle]
    /\ mu' = None /\ final' = None /\ reserved' = 0
    /\ UNCHANGED <<data, marker, acked, job>>

(***************************************************************************)
(* The ingest Job, another process on the same volume.                     *)
(***************************************************************************)
\* buildFromEnv opens the staging area with NewStaging, so the Job sweeps the temporary
\* files too; ResolveUpload then needs a completed upload.
StartIngest(n) ==
    /\ job.pc = "none" /\ acked[n] # {} /\ spent.ingests < MaxIngests
    /\ spent' = [spent EXCEPT !.ingests = @ + 1]
    /\ up' = [c \in Clients |-> [up[c] EXCEPT !.linked = FALSE]]
    /\ \E x \in acked[n] :
         job' = IF Complete(n)
                THEN [pc |-> "resolved", name |-> n, sum |-> x, todo |-> {}] ELSE NoJob
    /\ UNCHANGED <<data, marker, mu, final, reserved, acked>>

\* The upload is read where it lies and checked against the import's checksum; after a
\* successful capture RemoveUpload lists the directory's files.
ReadUpload ==
    /\ job.pc = "resolved"
    /\ IF data[job.name] = job.sum
       THEN /\ job' = [job EXCEPT !.pc = "removing",
                                  !.todo = {f \in {"data", "marker"} :
                                               IF f = "data" THEN data[job.name] # None
                                               ELSE marker[job.name] # None}]
            /\ spent' = [spent EXCEPT !.removed = @ \cup {job.name}]
       ELSE job' = NoJob /\ UNCHANGED spent
    /\ UNCHANGED <<data, marker, up, mu, final, reserved, acked>>

\* RemoveAll unlinks the listed files one by one, in directory order.
Unlink(f) ==
    /\ job.pc = "removing" /\ f \in job.todo
    /\ data' = IF f = "data" THEN [data EXCEPT ![job.name] = None] ELSE data
    /\ marker' = IF f = "marker" THEN [marker EXCEPT ![job.name] = None] ELSE marker
    /\ job' = IF job.todo = {f} THEN NoJob ELSE [job EXCEPT !.todo = @ \ {f}]
    /\ UNCHANGED <<up, mu, final, reserved, acked, spent>>

\* The Job's pod is killed.
IngestKilled ==
    /\ job.pc # "none" /\ Mishap /\ Hit
    /\ job' = NoJob
    /\ UNCHANGED <<data, marker, up, mu, final, reserved, acked>>

Serve(c) ==
    \/ Reserve(c) \/ Stream(c) \/ Finalize(c) \/ CreateMarker(c) \/ WriteMarker(c) \/ Answer(c)

Next ==
    \/ \E c \in Clients : \/ \E n \in Names, x \in Contents : Begin(c, n, x)
                          \/ Serve(c) \/ StreamCut(c) \/ MarkerFails(c)
    \/ Crash
    \/ \E n \in Names : StartIngest(n)
    \/ ReadUpload
    \/ \E f \in {"data", "marker"} : Unlink(f)
    \/ IngestKilled

Spec == Init /\ [][Next]_vars

\* Handlers run; the finalize lock is a Go mutex whose waiters are served in turn, and a
\* client sends its body or its connection breaks.
FairSpec ==
    /\ Spec
    /\ \A c \in Clients : WF_vars(Reserve(c) \/ Stream(c) \/ CreateMarker(c) \/ WriteMarker(c))
                          /\ SF_vars(Finalize(c)) /\ SF_vars(Answer(c))

(***************************************************************************)
(* Properties.                                                             *)
(***************************************************************************)
\* The bytes of the uploads whose handlers are at one of the given places.
BodiesAt(pcs) == [c \in Clients |-> IF up[c].pc \in pcs THEN Bytes(up[c].body) ELSE 0]
Promised == {"stream", "hashed", "renamed", "marking"}

\* Completed uploads and the ones still arriving never exceed the quota together, although
\* the markers are scanned while other uploads finish and give their reservations back.
QuotaKept ==
    Quota > 0 => UsedBytes + Total(BodiesAt(Promised)) <= Quota

\* The volume can hold everything that was admitted: stored files, and the bodies still
\* to be written, leave the headroom free, whatever crashed or was abandoned in between.
AdmittedFits ==
    LET admitted == Total(StoredBytes) + Total(BodiesAt({"stream", "hashed"}))
    IN admitted > 0 => admitted <= Capacity - Headroom

\* An upload that was acknowledged stays what it was acknowledged to be, whoever else
\* uploads under the name and whatever crashes, until an ingest Job removes it.
AckedUploadStays ==
    \A n \in Names \ spent.removed : \A x \in acked[n] : data[n] = x /\ marker[n] = x

\* A request is answered in the end: no order of the two locks, of a crash and of the
\* early returns leaves a handler waiting.
UploadIsAnswered == \A c \in Clients : up[c].pc # "idle" ~> up[c].pc = "idle"

(***************************************************************************)
(* What the code does not keep.                                            *)
(***************************************************************************)
\* Sweeping temporary files removes only files no process is writing (NewStaging).
SweepSparesUploads ==
    \A c \in Clients : up[c].pc \in {"stream", "hashed"} => up[c].linked

\* On any error the final path is left as it was (Receive): a name whose upload failed or
\* crashed can be uploaded again.
NoTornMarker == \A n \in Names : marker[n] = Torn => \E c \in Clients : up[c].pc = "marking"

\* A completed upload's marker and file agree also after an ingest Job has removed an
\* earlier upload of that name.
MarkerHasItsFile ==
    \A n \in Names : Complete(n) /\ job.name # n => data[n] = marker[n]
==============================================================================
