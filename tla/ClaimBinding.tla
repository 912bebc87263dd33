---------------------------- MODULE ClaimBinding ----------------------------
(***************************************************************************)
(* The MachineClaim controller (internal/controller/                       *)
(* machineclaim_controller.go): one worker that binds claims to Machines   *)
(* through Machine.spec.claimRef, reading both kinds through caches that   *)
(* lag behind the API server, and losing its place when the manager stops. *)
(*                                                                         *)
(* A reconcile reads once and then makes its API calls one at a time; each *)
(* call is a step of its own, so every other actor may move between any    *)
(* two of them.  The Machine controller, which moves Machine.status.state, *)
(* and the users, who create, edit and delete the objects, are the         *)
(* environment.                                                            *)
(***************************************************************************)
EXTENDS Informer, FiniteSets

CONSTANTS
    Machines,     \* Machine names; numbers, so that they sort
    Claims,       \* MachineClaim names
    NamedMachine, \* what each claim's spec.machineName may be, None for a selector
    Matches,      \* the Machines each claim's spec.selector accepts
    MaxUid,       \* bound: how often one claim name can be created
    MaxGen,       \* bound: edits of one claim
    MaxBirths,    \* bound: how often one Machine name can be created
    MaxLag,       \* bound: undelivered watch events of one object
    MaxRestarts,  \* bound: manager restarts
    None

ASSUME MachinesAssumption == Machines \subseteq Nat
ASSUME ClaimSpecAssumption ==
    /\ NamedMachine \in [Claims -> SUBSET (Machines \cup {None})]
    /\ Matches \in [Claims -> SUBSET Machines]
ASSUME NoneAssumption == None \notin Machines /\ None \notin [name : Claims, uid : Nat]
ASSUME BoundsAssumption ==
    /\ MaxUid \in Nat /\ MaxGen \in Nat /\ MaxBirths \in Nat
    /\ MaxLag \in Nat /\ MaxRestarts \in Nat

VARIABLES
    machineLog,  \* per Machine, its versions from the cached to the stored one
    claimLog,    \* per claim name, likewise
    queue,       \* claim names waiting in the work queue
    worker,      \* the reconcile in progress
    restarts     \* manager restarts so far

vars == <<machineLog, claimLog, queue, worker, restarts>>

-----------------------------------------------------------------------------
(* The objects.                                                            *)

ClaimRef == [name : Claims, uid : 0..MaxUid]

State == {"Inspecting", "Available", "Provisioning", "Provisioned",
          "Released", "Deprovisioning"}

Machine == [exists : BOOLEAN, uid : 0..MaxBirths, deleting : BOOLEAN,
            state : State, claimRef : ClaimRef \cup {None}]

Phase == {"", "Pending", "Bound", "Failed"}

Claim == [exists : BOOLEAN, deleting : BOOLEAN, uid : 0..MaxUid,
          finalizer : BOOLEAN, gen : 0..MaxGen, named : Machines \cup {None}, phase : Phase,
          machineName : Machines \cup {None}, ready : BOOLEAN]

NewMachine(uid) == [exists |-> TRUE, uid |-> uid, deleting |-> FALSE,
                    state |-> "Inspecting", claimRef |-> None]

\* The uid stays, so that the next object of this name gets another one.
NoMachine(uid) == [NewMachine(uid) EXCEPT !.exists = FALSE]

NewClaim(uid, named) ==
    [exists |-> TRUE, deleting |-> FALSE, uid |-> uid, finalizer |-> FALSE,
     gen |-> 0, named |-> named, phase |-> "", machineName |-> None, ready |-> FALSE]

NoClaim(uid) == [NewClaim(uid, None) EXCEPT !.exists = FALSE]

machine(m) == Current(machineLog[m])
claim(c) == Current(claimLog[c])

\* The copies the controllers read.
seenMachine(m) == Cached(machineLog[m])
seenClaim(c) == Cached(claimLog[c])

-----------------------------------------------------------------------------
(* The reconcile in progress.  pc names its next API call, todo holds the  *)
(* Machines it has still to write, target the one it has found, and fresh  *)
(* and claimFresh say which of its copies still carry the stored version.  *)

Step == {"idle", "addFinalizer", "clearOrphans", "clearClaimRef",
         "removeFinalizer", "recordLost", "mirror", "recordBound", "tryBind",
         "markNoCandidate", "markFailed"}

Worker == [pc : Step, c : Claims \cup {None}, uid : 0..MaxUid,
           claimFresh : BOOLEAN, fresh : SUBSET Machines,
           todo : SUBSET Machines, target : Machines \cup {None},
           ready : BOOLEAN]

Idle == [pc |-> "idle", c |-> None, uid |-> 0, claimFresh |-> FALSE,
         fresh |-> {}, todo |-> {}, target |-> None, ready |-> FALSE]

\* A reconcile of c that has done its reads and goes on to the call pc.
Reads(c, pc) ==
    [Idle EXCEPT !.pc = pc, !.c = c, !.claimFresh = UpToDate(claimLog[c])]

\* A reconcile of c that goes on to bind one of the Machines cands.
ReadsToBind(c, cands) ==
    [Reads(c, "tryBind") EXCEPT
        !.uid = seenClaim(c).uid,
        !.todo = cands,
        !.fresh = {m \in cands : UpToDate(machineLog[m])}]

\* claimRefMatches: name and uid; the namespace is the claim's own.
claimRefMatches(ref, c, uid) == ref # None /\ ref.name = c /\ ref.uid = uid

\* The Machines whose cached claimRef is the cached claim's.  findBoundMachine
\* asks only the recorded one when status.machineName is set.
findBoundMachine(c) ==
    {m \in Machines :
        /\ seenClaim(c).machineName \in {None, m}
        /\ seenMachine(m).exists
        /\ claimRefMatches(seenMachine(m).claimRef, c, seenClaim(c).uid)}

machineIsFreeAndAvailable(obj) ==
    obj.exists /\ obj.claimRef = None /\ obj.state = "Available"

matchingCandidates(c) ==
    {m \in Matches[c] : machineIsFreeAndAvailable(seenMachine(m))}

\* Candidates, and listed Machines, are taken in name order.
First(S) == CHOOSE x \in S : \A y \in S : x <= y

\* mapMachineToClaims: the claim a Machine names, or, when it is free and
\* Available, every claim the cache shows Pending.
mapMachineToClaims(obj) ==
    IF ~obj.exists THEN {}
    ELSE IF obj.claimRef # None THEN {obj.claimRef.name}
    ELSE IF obj.state # "Available" THEN {}
    ELSE {c \in Claims : seenClaim(c).exists /\ seenClaim(c).phase = "Pending"}

\* machineClaimUpdatePredicate: status-only updates do not queue the claim.
machineClaimUpdatePredicate(old, new) ==
    \/ old.exists # new.exists
    \/ old.uid # new.uid
    \/ old.gen # new.gen
    \/ old.deleting # new.deleting
    \/ old.finalizer # new.finalizer

-----------------------------------------------------------------------------
(* API writes.  Every write makes the worker's copy of the object stale.   *)

MayWriteMachine(m) == Len(machineLog[m]) <= MaxLag
MayWriteClaim(c) == Len(claimLog[c]) <= MaxLag

WriteMachine(m, obj) ==
    machineLog' = [machineLog EXCEPT ![m] = Write(@, obj)]

WriteClaim(c, obj) ==
    claimLog' = [claimLog EXCEPT ![c] = Write(@, obj)]

\* The worker after somebody else wrote Machine m, or the claim c.
MachineWritten(m) == worker' = [worker EXCEPT !.fresh = @ \ {m}]
ClaimWritten(c) ==
    worker' = [worker EXCEPT !.claimFresh = @ /\ worker.c # c]

-----------------------------------------------------------------------------
(* Reconcile: the reads, and the choice of the first API call.             *)

Dequeue(c) == worker.pc = "idle" /\ c \in queue /\ queue' = queue \ {c}

\* Mutant: a claim that is not Bound is taken to hold no Machine.
ClearsUnrecorded(c) ==
    LET orphans == {m \in Machines :
                        /\ seenMachine(m).exists
                        /\ seenMachine(m).claimRef # None
                        /\ seenMachine(m).claimRef.name = c}
    IN  /\ Dequeue(c)
        /\ ~(seenClaim(c).exists /\ seenClaim(c).phase = "Bound")
        /\ orphans # {}
        /\ worker' = [Reads(c, "clearOrphans") EXCEPT !.todo = orphans]
        /\ UNCHANGED <<machineLog, claimLog, restarts>>

\* Mutant: nothing is done for a claim that is gone.
IgnoresGone(c) ==
    /\ Dequeue(c)
    /\ ~seenClaim(c).exists
    /\ worker' = Idle
    /\ UNCHANGED <<machineLog, claimLog, restarts>>

\* Reconcile of a name no claim has: clearOrphanedClaimRefs lists Machines.
ReconcileGone(c) ==
    LET orphans == {m \in Machines :
                        /\ seenMachine(m).exists
                        /\ seenMachine(m).claimRef # None
                        /\ seenMachine(m).claimRef.name = c}
    IN  /\ Dequeue(c)
        /\ ~seenClaim(c).exists
        /\ worker' = IF orphans = {} THEN Idle
                     ELSE [Reads(c, "clearOrphans") EXCEPT !.todo = orphans]
        /\ UNCHANGED <<machineLog, claimLog, restarts>>

\* onDelete, up to its first call.
ReconcileDeleting(c) ==
    /\ Dequeue(c)
    /\ seenClaim(c).exists /\ seenClaim(c).deleting
    /\ \/ /\ ~seenClaim(c).finalizer
          /\ worker' = Idle
       \/ /\ seenClaim(c).finalizer
          /\ findBoundMachine(c) = {}
          /\ worker' = Reads(c, "removeFinalizer")
       \/ /\ seenClaim(c).finalizer
          /\ \E m \in findBoundMachine(c) :
                worker' = [Reads(c, "clearClaimRef") EXCEPT !.target = m]
    /\ UNCHANGED <<machineLog, claimLog, restarts>>

Live(c) == seenClaim(c).exists /\ ~seenClaim(c).deleting

ReconcileNew(c) ==
    /\ Dequeue(c)
    /\ Live(c) /\ ~seenClaim(c).finalizer
    /\ worker' = Reads(c, "addFinalizer")
    /\ UNCHANGED <<machineLog, claimLog, restarts>>

\* Mutant: a binding is taken to last.
BoundIsForever(c) ==
    /\ Dequeue(c)
    /\ Live(c) /\ seenClaim(c).finalizer /\ seenClaim(c).phase = "Bound"
    /\ worker' = Idle
    /\ UNCHANGED <<machineLog, claimLog, restarts>>

\* reconcileBound: is the recorded Machine still this claim's?
ReconcileBound(c) ==
    /\ Dequeue(c)
    /\ Live(c) /\ seenClaim(c).finalizer /\ seenClaim(c).phase = "Bound"
    /\ IF findBoundMachine(c) = {}
       THEN worker' = Reads(c, "recordLost")
       ELSE LET ready == seenMachine(seenClaim(c).machineName).state = "Provisioned"
            IN  worker' = IF ready = seenClaim(c).ready THEN Idle
                          ELSE [Reads(c, "mirror") EXCEPT !.ready = ready]
    /\ UNCHANGED <<machineLog, claimLog, restarts>>

\* reconcilePending: adopt, else bind by name, else bind by selector.  A claim
\* already Failed takes this path too.
ReconcilePending(c) ==
    LET named == seenClaim(c).named
        bindTo(cands) ==
            IF cands = {} THEN Reads(c, "markNoCandidate")
            ELSE ReadsToBind(c, cands)
    IN  /\ Dequeue(c)
        /\ Live(c) /\ seenClaim(c).finalizer /\ seenClaim(c).phase # "Bound"
        /\ \/ \E m \in findBoundMachine(c) :
                 worker' = [Reads(c, "recordBound") EXCEPT !.target = m]
           \/ /\ findBoundMachine(c) = {}
              /\ named # None /\ ~seenMachine(named).exists
              /\ worker' = Reads(c, "markFailed")
           \/ /\ findBoundMachine(c) = {}
              /\ named # None /\ seenMachine(named).exists
              /\ worker' = bindTo({m \in {named} :
                                      machineIsFreeAndAvailable(seenMachine(m))})
           \/ /\ findBoundMachine(c) = {}
              /\ named = None
              /\ worker' = bindTo(matchingCandidates(c))
        /\ UNCHANGED <<machineLog, claimLog, restarts>>

-----------------------------------------------------------------------------
(* The API calls of a reconcile.                                           *)

Done == worker' = Idle /\ UNCHANGED queue
Requeue == worker' = Idle /\ queue' = queue \cup {worker.c}

\* An Update, of the claim or of its status: it succeeds only from a fresh
\* copy, and a conflict ends the reconcile with an error, which requeues.
UpdateClaim(obj) ==
    /\ MayWriteClaim(worker.c)
    /\ WriteClaim(worker.c, obj)

\* Mutant: a conflict is swallowed.
ConflictIsDropped ==
    /\ worker.pc \in {"addFinalizer", "removeFinalizer", "recordLost", "mirror",
                      "recordBound", "markNoCandidate", "markFailed"}
    /\ ~worker.claimFresh
    /\ Done
    /\ UNCHANGED <<machineLog, claimLog, restarts>>

ConflictOnClaim ==
    /\ worker.pc \in {"addFinalizer", "removeFinalizer", "recordLost", "mirror",
                      "recordBound", "markNoCandidate", "markFailed"}
    /\ ~worker.claimFresh
    /\ Requeue
    /\ UNCHANGED <<machineLog, claimLog, restarts>>

AddFinalizer ==
    /\ worker.pc = "addFinalizer" /\ worker.claimFresh
    /\ UpdateClaim([claim(worker.c) EXCEPT !.finalizer = TRUE])
    /\ Requeue
    /\ UNCHANGED <<machineLog, restarts>>

\* clearClaimRef: a merge patch, which no resourceVersion guards.
PatchClaimRefAway(m) ==
    /\ MayWriteMachine(m)
    /\ machine(m).exists
    /\ WriteMachine(m, [machine(m) EXCEPT !.claimRef = None])

ClearOrphan ==
    /\ worker.pc = "clearOrphans"
    /\ LET m == First(worker.todo)
       IN  \/ /\ PatchClaimRefAway(m)
              /\ worker' = IF worker.todo = {m} THEN Idle
                           ELSE [worker EXCEPT !.todo = @ \ {m}]
              /\ UNCHANGED queue
           \/ /\ ~machine(m).exists
              /\ Requeue
              /\ UNCHANGED machineLog
    /\ UNCHANGED <<claimLog, restarts>>

ClearClaimRef ==
    /\ worker.pc = "clearClaimRef"
    /\ \/ /\ PatchClaimRefAway(worker.target)
          /\ worker' = [worker EXCEPT !.pc = "removeFinalizer", !.target = None]
          /\ UNCHANGED queue
       \/ /\ ~machine(worker.target).exists
          /\ Requeue
          /\ UNCHANGED machineLog
    /\ UNCHANGED <<claimLog, restarts>>

\* The last finalizer goes, and the API server deletes the object.
RemoveFinalizer ==
    /\ worker.pc = "removeFinalizer" /\ worker.claimFresh
    /\ UpdateClaim(NoClaim(claim(worker.c).uid))
    /\ Done
    /\ UNCHANGED <<machineLog, restarts>>

\* The status keeps its Ready condition.
RecordLostBinding ==
    /\ worker.pc = "recordLost" /\ worker.claimFresh
    /\ UpdateClaim([claim(worker.c) EXCEPT !.phase = "Pending", !.machineName = None])
    /\ Requeue
    /\ UNCHANGED <<machineLog, restarts>>

MirrorMachineStatus ==
    /\ worker.pc = "mirror" /\ worker.claimFresh
    /\ UpdateClaim([claim(worker.c) EXCEPT !.ready = worker.ready])
    /\ Done
    /\ UNCHANGED <<machineLog, restarts>>

\* Mutant: the claimRef is patched in, whatever became of the Machine.
BindByPatch ==
    /\ worker.pc = "tryBind"
    /\ LET m == First(worker.todo)
       IN  /\ machine(m).exists /\ MayWriteMachine(m)
           /\ WriteMachine(m, [machine(m) EXCEPT
                                 !.claimRef = [name |-> worker.c, uid |-> worker.uid]])
           /\ worker' = [worker EXCEPT !.pc = "recordBound", !.target = m,
                                       !.uid = 0, !.todo = {}, !.fresh = {}]
    /\ UNCHANGED <<queue, claimLog, restarts>>

\* tryBind's Update of the Machine: the candidates are tried in name order, a
\* conflict moves on to the next one, and any other error ends the reconcile.
tryBind ==
    /\ worker.pc = "tryBind"
    /\ LET m == First(worker.todo)
       IN  \/ /\ m \in worker.fresh
              /\ MayWriteMachine(m)
              /\ WriteMachine(m, [machine(m) EXCEPT
                                    !.claimRef = [name |-> worker.c, uid |-> worker.uid]])
              /\ worker' = [worker EXCEPT !.pc = "recordBound", !.target = m,
                                          !.uid = 0, !.todo = {}, !.fresh = {}]
              /\ UNCHANGED queue
           \/ /\ m \notin worker.fresh /\ machine(m).exists
              /\ worker' = IF worker.todo = {m}
                           THEN [worker EXCEPT !.pc = "markNoCandidate",
                                               !.uid = 0, !.todo = {}]
                           ELSE [worker EXCEPT !.todo = @ \ {m}]
              /\ UNCHANGED <<machineLog, queue>>
           \/ /\ ~machine(m).exists
              /\ Requeue
              /\ UNCHANGED machineLog
    /\ UNCHANGED <<claimLog, restarts>>

\* The status write of tryBind and of adoptExistingBinding.
RecordBound ==
    /\ worker.pc = "recordBound" /\ worker.claimFresh
    /\ UpdateClaim([claim(worker.c) EXCEPT !.phase = "Bound",
                                           !.machineName = worker.target])
    /\ Requeue
    /\ UNCHANGED <<machineLog, restarts>>

\* The 30 second requeue is a requeue.
MarkNoCandidate ==
    /\ worker.pc = "markNoCandidate" /\ worker.claimFresh
    /\ UpdateClaim([claim(worker.c) EXCEPT !.phase = "Pending"])
    /\ Requeue
    /\ UNCHANGED <<machineLog, restarts>>

MarkFailed ==
    /\ worker.pc = "markFailed" /\ worker.claimFresh
    /\ UpdateClaim([claim(worker.c) EXCEPT !.phase = "Failed"])
    /\ Done
    /\ UNCHANGED <<machineLog, restarts>>

-----------------------------------------------------------------------------
(* Watch events, and the restart of the manager.                           *)

DeliverMachine(m) ==
    /\ Len(machineLog[m]) > 1
    /\ machineLog' = [machineLog EXCEPT ![m] = Deliver(@)]
    /\ queue' = queue \cup mapMachineToClaims(machineLog[m][1])
                      \cup mapMachineToClaims(machineLog[m][2])
    /\ UNCHANGED <<claimLog, worker, restarts>>

DeliverClaim(c) ==
    /\ Len(claimLog[c]) > 1
    /\ claimLog' = [claimLog EXCEPT ![c] = Deliver(@)]
    /\ queue' = IF machineClaimUpdatePredicate(claimLog[c][1], claimLog[c][2])
                THEN queue \cup {c} ELSE queue
    /\ UNCHANGED <<machineLog, worker, restarts>>

\* The reconcile in progress and the queue are lost.  The new manager lists
\* every object, and each listed object is a create event.
Restart ==
    /\ restarts < MaxRestarts
    /\ restarts' = restarts + 1
    /\ worker' = Idle
    /\ machineLog' = [m \in Machines |-> Relist(machineLog[m])]
    /\ claimLog' = [c \in Claims |-> Relist(claimLog[c])]
    /\ queue' = {c \in Claims : claim(c).exists}
                \cup {machine(m).claimRef.name : m \in
                        {n \in Machines : machine(n).exists /\ machine(n).claimRef # None}}

-----------------------------------------------------------------------------
(* The environment: the Machine controller's moves of status.state, decided *)
(* on its own cached copy and applied without a resourceVersion, and users. *)

\* Available with a claim that resolves is deployed; a claim released while
\* the Machine is deployed, or being deployed, makes it Released.
NextState(obj) ==
    IF obj.deleting THEN {"Deprovisioning"}
    ELSE CASE obj.state = "Inspecting" -> {"Available"}
           [] obj.state = "Available" ->
                {s \in {"Provisioning"} :
                    /\ obj.claimRef # None
                    /\ seenClaim(obj.claimRef.name).exists
                    /\ seenClaim(obj.claimRef.name).uid = obj.claimRef.uid}
           [] obj.state = "Provisioning" ->
                {IF obj.claimRef = None THEN "Released" ELSE "Provisioned"}
           [] obj.state = "Provisioned" ->
                {s \in {"Released"} : obj.claimRef = None}
           [] OTHER -> {}

ChangeMachine(m, obj) ==
    /\ MayWriteMachine(m)
    /\ WriteMachine(m, obj)
    /\ MachineWritten(m)
    /\ UNCHANGED <<claimLog, queue, restarts>>

MachineStep(m) ==
    /\ seenMachine(m).exists /\ machine(m).exists
    /\ \E s \in NextState(seenMachine(m)) :
          /\ s # machine(m).state
          /\ ChangeMachine(m, [machine(m) EXCEPT !.state = s])

\* The re-inspect annotation.
ReInspect(m) ==
    /\ seenMachine(m).exists /\ machine(m).exists
    /\ ~seenMachine(m).deleting
    /\ seenMachine(m).state \in {"Available", "Released"}
    /\ ChangeMachine(m, [machine(m) EXCEPT !.state = "Inspecting"])

CreateMachine(m) ==
    /\ ~machine(m).exists /\ machine(m).uid < MaxBirths
    /\ ChangeMachine(m, NewMachine(machine(m).uid + 1))

DeleteMachine(m) ==
    /\ machine(m).exists /\ ~machine(m).deleting
    /\ ChangeMachine(m, [machine(m) EXCEPT !.deleting = TRUE])

\* releaseMachine at the end of the delete walk.
MachineGone(m) ==
    /\ machine(m).exists
    /\ seenMachine(m).deleting /\ seenMachine(m).state = "Deprovisioning"
    /\ ChangeMachine(m, NoMachine(machine(m).uid))

ChangeClaim(c, obj) ==
    /\ MayWriteClaim(c)
    /\ WriteClaim(c, obj)
    /\ ClaimWritten(c)
    /\ UNCHANGED <<machineLog, queue, restarts>>

CreateClaim(c) ==
    /\ ~claim(c).exists /\ claim(c).uid < MaxUid
    /\ \E named \in NamedMachine[c] : ChangeClaim(c, NewClaim(claim(c).uid + 1, named))

\* An edit of the claim's spec or annotations.
EditClaim(c) ==
    /\ claim(c).exists /\ claim(c).gen < MaxGen
    /\ \E named \in NamedMachine[c] :
          ChangeClaim(c, [claim(c) EXCEPT !.gen = @ + 1, !.named = named])

DeleteClaim(c) ==
    /\ claim(c).exists /\ ~claim(c).deleting
    /\ ChangeClaim(c, IF claim(c).finalizer
                      THEN [claim(c) EXCEPT !.deleting = TRUE]
                      ELSE NoClaim(claim(c).uid))

-----------------------------------------------------------------------------
Init ==
    /\ machineLog = [m \in Machines |-> <<NoMachine(0)>>]
    /\ claimLog = [c \in Claims |-> <<NoClaim(0)>>]
    /\ queue = {}
    /\ worker = Idle
    /\ restarts = 0

Reconcile(c) ==
    \/ ReconcileGone(c) \/ ReconcileDeleting(c) \/ ReconcileNew(c)
    \/ ReconcileBound(c) \/ ReconcilePending(c)

WorkerCall ==
    \/ ConflictOnClaim \/ AddFinalizer \/ ClearOrphan \/ ClearClaimRef
    \/ RemoveFinalizer \/ RecordLostBinding \/ MirrorMachineStatus \/ tryBind
    \/ RecordBound \/ MarkNoCandidate \/ MarkFailed

MachineController(m) == MachineStep(m) \/ MachineGone(m)

Users ==
    \/ \E m \in Machines : ReInspect(m) \/ CreateMachine(m) \/ DeleteMachine(m)
    \/ \E c \in Claims : CreateClaim(c) \/ EditClaim(c) \/ DeleteClaim(c)

Next ==
    \/ \E c \in Claims : Reconcile(c) \/ DeliverClaim(c)
    \/ \E m \in Machines : DeliverMachine(m) \/ MachineController(m)
    \/ WorkerCall
    \/ Restart
    \/ Users

Spec == Init /\ [][Next]_vars

-----------------------------------------------------------------------------
(* Properties.                                                             *)

\* Every variable has its type.
TypeOK ==
    /\ machineLog \in [Machines -> Seq(Machine)]
    /\ \A m \in Machines : Len(machineLog[m]) \in 1..(MaxLag + 1)
    /\ claimLog \in [Claims -> Seq(Claim)]
    /\ \A c \in Claims : Len(claimLog[c]) \in 1..(MaxLag + 1)
    /\ queue \subseteq Claims
    /\ worker \in Worker
    /\ restarts \in 0..MaxRestarts

\* The stored claimRef of m goes from ref to another value.
RefChanges(m, ref) == machine(m).claimRef = ref /\ machine(m)'.claimRef # ref

\* "Does not steal": whatever the caches show, tryBind never takes a Machine
\* that another claim holds, nor one that is not Available (a Released
\* Machine still carries a tenant's disks).
BindsOnlyFree ==
    [][\A m \in Machines :
          machine(m)'.claimRef \notin {None, machine(m).claimRef}
            => /\ machine(m).exists
               /\ machine(m).claimRef = None
               /\ machine(m).state = "Available"]_vars

\* A claim that exists, is not being deleted and holds an existing Machine is
\* never unbound from it: clearClaimRef is a patch that no resourceVersion
\* guards, yet neither onDelete nor clearOrphanedClaimRefs, both working from
\* caches that may be stale, ever takes a Machine from a live claim.
NeverUnbindsLive ==
    [][\A m \in Machines, c \in Claims, u \in 1..MaxUid :
          (RefChanges(m, [name |-> c, uid |-> u]) /\ machine(m)'.exists)
            => ~(claim(c).exists /\ ~claim(c).deleting /\ claim(c).uid = u)]_vars

-----------------------------------------------------------------------------
(* Liveness.  A watch delivers every event and a worker finishes what it   *)
(* started; the work queue is first-in first-out, so a queued name is      *)
(* reconciled even though the worker is busy with others in between.       *)

Fairness ==
    /\ \A c \in Claims : SF_vars(Reconcile(c)) /\ WF_vars(DeliverClaim(c))
    /\ \A m \in Machines : WF_vars(DeliverMachine(m)) /\ WF_vars(MachineController(m))
    /\ SF_vars(WorkerCall)

FairSpec == Spec /\ Fairness

\* A claimRef whose claim is gone is cleared, by onDelete or by
\* clearOrphanedClaimRefs, unless a claim of that name is created again.
OrphanedRefIsCleared ==
    \A m \in Machines, c \in Claims, u \in 1..MaxUid :
        LET orphan == /\ machine(m).exists
                      /\ machine(m).claimRef = [name |-> c, uid |-> u]
                      /\ ~claim(c).exists
        IN  orphan ~> ~orphan

\* A live claim does not go on saying it is Bound to a Machine that is gone or
\* does not carry its claimRef (reconcileBound).
FalseBoundIsRepaired ==
    \A m \in Machines, c \in Claims :
        LET false == /\ claim(c).exists /\ ~claim(c).deleting
                     /\ claim(c).phase = "Bound" /\ claim(c).machineName = m
                     /\ ~(/\ machine(m).exists
                          /\ machine(m).claimRef = [name |-> c, uid |-> claim(c).uid])
        IN  false ~> ~false

\* A live claim with a selector is bound when a Machine it accepts stays free
\* and Available: no watch event is lost between the claim's requeues.
WaitingClaimBinds ==
    \A m \in Machines, c \in Claims :
        LET waiting == /\ claim(c).named = None /\ m \in Matches[c]
                       /\ claim(c).exists /\ ~claim(c).deleting
                       /\ claim(c).phase # "Bound"
                       /\ machineIsFreeAndAvailable(machine(m))
        IN  waiting ~> ~waiting
-----------------------------------------------------------------------------
(* What the repository says of the controller and the code does not do;    *)
(* each of these is violated by the run that checks it.                    *)

\* reconcilePending adopts a Machine that already carries the claim's claimRef
\* "before ever considering a fresh bind": no claim ever holds two Machines.
OneMachinePerClaim ==
    \A m, n \in Machines :
        (machine(m).claimRef # None /\ machine(m).claimRef = machine(n).claimRef)
            => m = n

\* "Failed is terminal: nothing here ever moves a claim out of it."
FailedIsTerminal ==
    [][\A c \in Claims :
          (claim(c).phase = "Failed" /\ claim(c)'.exists /\ claim(c)'.uid = claim(c).uid)
            => claim(c)'.phase = "Failed"]_vars

\* MachineClaimFinalizer "blocks MachineClaim deletion until the claim
\* controller clears spec.claimRef on the bound machine".
FinalizerHoldsUntilReleased ==
    [][\A c \in Claims, m \in Machines :
          (claim(c).exists /\ ~claim(c)'.exists /\ claim(c).machineName = m)
            => machine(m).claimRef # [name |-> c, uid |-> claim(c).uid]]_vars

\* "Deleting a MachineClaim releases its Machine": a claimRef does not go on
\* naming a claim that is gone, even when its name is used again.
DeletedClaimReleases ==
    \A m \in Machines, c \in Claims, u \in 1..MaxUid :
        LET held == /\ machine(m).exists /\ ~machine(m).deleting
                    /\ machine(m).claimRef = [name |-> c, uid |-> u]
                    /\ ~(claim(c).exists /\ claim(c).uid = u)
        IN  held ~> ~held
=============================================================================
