------------------------- MODULE ClaimBindingProofs -------------------------
(***************************************************************************)
(* Proofs about ClaimBinding, for any number of Machines and claims, any   *)
(* selectors, and caches that lag by any amount: a claim takes only a free *)
(* Machine, and a live claim keeps the one it has.                         *)
(***************************************************************************)
EXTENDS ClaimBinding, TLAPS, SequenceTheorems, WellFoundedInduction

-----------------------------------------------------------------------------
(* The version histories of module Informer.                               *)

\* A write stores what is written and adds at most one version.
LEMMA WriteFacts ==
    ASSUME NEW S, NEW log \in Seq(S), Len(log) >= 1, NEW v \in S
    PROVE  /\ Write(log, v) \in Seq(S)
           /\ Len(Write(log, v)) \in {Len(log), Len(log) + 1}
           /\ Current(Write(log, v)) = v
    BY DEF Write, Current

\* The event a watch delivers changes the cache, not what is stored.
LEMMA DeliverFacts ==
    ASSUME NEW S, NEW log \in Seq(S), Len(log) > 1
    PROVE  /\ Deliver(log) \in Seq(S)
           /\ Len(Deliver(log)) = Len(log) - 1
           /\ Current(Deliver(log)) = Current(log)
    BY DEF Deliver, Current

\* The cached and the stored version are versions.
LEMMA VersionFacts ==
    ASSUME NEW S, NEW log \in Seq(S), Len(log) >= 1
    PROVE  /\ Cached(log) \in S
           /\ Current(log) \in S
           /\ UpToDate(log) => Cached(log) = Current(log)
           /\ Relist(log) \in Seq(S)
           /\ Len(Relist(log)) = 1
           /\ Current(Relist(log)) = Current(log)
    BY DEF Cached, Current, UpToDate, Relist

\* Name order has a first element.
LEMMA FirstFacts ==
    ASSUME NEW S \in SUBSET Machines, S # {}
    PROVE  First(S) \in S
<1>1. \E x \in S : \A y \in S : ~(<<y, x>> \in OpToRel(<, Nat))
    BY NatLessThanWellFounded, WFMin, MachinesAssumption, Zenon
<1>2. PICK x \in S : \A y \in S : ~(<<y, x>> \in OpToRel(<, Nat))
    BY <1>1, Zenon
<1>3. \A y \in S : x <= y
    <2>1. TAKE y \in S
    <2>2. x \in Nat /\ y \in Nat
        BY MachinesAssumption
    <2>3. ~(<<y, x>> \in OpToRel(<, Nat))
        BY <1>2, Zenon
    <2>4. ~(y < x)
        BY <2>2, <2>3 DEF OpToRel
    <2> QED
        BY <2>2, <2>4
<1> QED
    BY <1>3 DEF First

-----------------------------------------------------------------------------
(* The inductive invariant.  What tryBind relies on is the last conjunct:  *)
(* a candidate's copy that no write has made stale is the stored object,   *)
(* and it was free and Available when it was chosen.                       *)

WorkerInv ==
    /\ worker.pc # "idle" => worker.c \in Claims
    /\ worker.pc \in {"clearOrphans", "tryBind"} => worker.todo # {}
    /\ worker.pc \in {"clearClaimRef", "recordBound"} => worker.target \in Machines
    /\ worker.pc = "tryBind" =>
          \A m \in worker.todo \cap worker.fresh : machineIsFreeAndAvailable(machine(m))

BindInv == TypeOK /\ WorkerInv

\* The objects the API server and the caches hold are well-formed.
LEMMA ObjectTypes ==
    ASSUME TypeOK
    PROVE  /\ \A m \in Machines : machine(m) \in Machine /\ seenMachine(m) \in Machine
           /\ \A c \in Claims : claim(c) \in Claim /\ seenClaim(c) \in Claim
<1>1. \A m \in Machines : Len(machineLog[m]) >= 1 /\ machineLog[m] \in Seq(Machine)
    BY BoundsAssumption DEF TypeOK
<1>2. \A c \in Claims : Len(claimLog[c]) >= 1 /\ claimLog[c] \in Seq(Claim)
    BY BoundsAssumption DEF TypeOK
<1> QED
    BY <1>1, <1>2, VersionFacts DEF machine, seenMachine, claim, seenClaim

\* Writing a well-formed Machine keeps the histories well-formed, changes what
\* is stored of that Machine to what is written, and of no other Machine.
LEMMA MachineWrite ==
    ASSUME TypeOK, NEW m \in Machines, NEW obj \in Machine,
           MayWriteMachine(m), WriteMachine(m, obj)
    PROVE  /\ machineLog' \in [Machines -> Seq(Machine)]
           /\ \A n \in Machines : Len(machineLog'[n]) \in 1..(MaxLag + 1)
           /\ machine(m)' = obj
           /\ \A n \in Machines \ {m} : machine(n)' = machine(n)
<1>1. Len(machineLog[m]) >= 1 /\ machineLog[m] \in Seq(Machine)
    BY BoundsAssumption DEF TypeOK
<1>2. /\ Write(machineLog[m], obj) \in Seq(Machine)
      /\ Len(Write(machineLog[m], obj)) \in {Len(machineLog[m]), Len(machineLog[m]) + 1}
      /\ Current(Write(machineLog[m], obj)) = obj
    BY <1>1, WriteFacts
<1>3. machineLog' = [machineLog EXCEPT ![m] = Write(machineLog[m], obj)]
    BY DEF WriteMachine
<1> QED
    BY <1>1, <1>2, <1>3, BoundsAssumption DEF TypeOK, MayWriteMachine, machine

\* A write of a claim keeps the log's type, and changes what is stored of that
\* claim to what is written, and of no other claim.
LEMMA ClaimWrite ==
    ASSUME TypeOK, NEW c \in Claims, NEW obj \in Claim,
           MayWriteClaim(c), WriteClaim(c, obj)
    PROVE  /\ claimLog' \in [Claims -> Seq(Claim)]
           /\ \A d \in Claims : Len(claimLog'[d]) \in 1..(MaxLag + 1)
<1>1. Len(claimLog[c]) >= 1 /\ claimLog[c] \in Seq(Claim)
    BY BoundsAssumption DEF TypeOK
<1>2. /\ Write(claimLog[c], obj) \in Seq(Claim)
      /\ Len(Write(claimLog[c], obj)) \in {Len(claimLog[c]), Len(claimLog[c]) + 1}
    BY <1>1, WriteFacts
<1>3. claimLog' = [claimLog EXCEPT ![c] = Write(claimLog[c], obj)]
    BY DEF WriteClaim
<1> QED
    BY <1>1, <1>2, <1>3, BoundsAssumption DEF TypeOK, MayWriteClaim

\* The counters may start at zero.
LEMMA ZeroFacts ==
    0 \in 0..MaxUid /\ 0 \in 0..MaxGen /\ 0 \in 0..MaxBirths
    BY BoundsAssumption

\* The idle worker is a worker.
LEMMA IdleIsWorker == Idle \in Worker
    BY BoundsAssumption DEF Idle, Worker, Step

\* What a reconcile has read is well-formed.
LEMMA ReadsFacts ==
    ASSUME TypeOK, NEW c \in Claims, NEW pc \in Step
    PROVE  /\ Reads(c, pc) \in Worker
           /\ Reads(c, pc).pc = pc
           /\ Reads(c, pc).c = c
<1>1. UpToDate(claimLog[c]) \in BOOLEAN
    BY DEF UpToDate
<1>2. ASSUME NEW b \in BOOLEAN
      PROVE  LET w == [Idle EXCEPT !.pc = pc, !.c = c, !.claimFresh = b]
             IN  w \in Worker /\ w.pc = pc /\ w.c = c
    BY IdleIsWorker, Zenon DEF Worker
<1> QED
    BY <1>1, <1>2, Zenon DEF Reads

\* The candidates of a reconcile that goes on to bind are free and Available,
\* as far as its copies are fresh.
LEMMA ReadsToBindFacts ==
    ASSUME TypeOK, NEW c \in Claims, NEW cands \in SUBSET Machines,
           \A m \in cands : machineIsFreeAndAvailable(seenMachine(m))
    PROVE  LET w == ReadsToBind(c, cands)
           IN  /\ w \in Worker
               /\ w.pc = "tryBind" /\ w.c = c /\ w.todo = cands
               /\ \A m \in w.todo \cap w.fresh : machineIsFreeAndAvailable(machine(m))
<1>1. Reads(c, "tryBind") \in Worker /\ Reads(c, "tryBind").pc = "tryBind"
      /\ Reads(c, "tryBind").c = c
    BY ReadsFacts DEF Step
<1>2. seenClaim(c).uid \in 0..MaxUid
    BY ObjectTypes DEF Claim
<1>3. ReadsToBind(c, cands) \in Worker
    BY <1>1, <1>2, Zenon DEF ReadsToBind, Worker
<1>4. /\ ReadsToBind(c, cands).pc = "tryBind" /\ ReadsToBind(c, cands).c = c
      /\ ReadsToBind(c, cands).todo = cands
      /\ ReadsToBind(c, cands).fresh = {m \in cands : UpToDate(machineLog[m])}
    BY <1>1 DEF ReadsToBind, Worker
<1>5. \A m \in Machines : UpToDate(machineLog[m]) => machine(m) = seenMachine(m)
    BY DEF UpToDate, machine, seenMachine, Current, Cached
<1> QED
    BY <1>3, <1>4, <1>5

\* The reads of a reconcile keep the invariant.
LEMMA ReconcileKeepsInv ==
    ASSUME BindInv, NEW c \in Claims, Reconcile(c)
    PROVE  BindInv'
<1>1. UNCHANGED <<machineLog, claimLog, restarts>> /\ queue' \subseteq Claims
    BY DEF Reconcile, ReconcileGone, ReconcileDeleting, ReconcileNew, ReconcileBound,
           ReconcilePending, Dequeue, BindInv, TypeOK
<1>2. \A m \in Machines : machine(m)' = machine(m)
    BY <1>1 DEF machine
<1>3. worker' \in Worker /\ WorkerInv'
    <2> USE DEF BindInv
    <2>1. CASE worker' = Idle
        BY <2>1, IdleIsWorker DEF Idle, WorkerInv
    <2>2. ASSUME NEW pc \in Step \ {"clearOrphans", "clearClaimRef", "recordBound", "tryBind"},
                 worker' = Reads(c, pc)
          PROVE  worker' \in Worker /\ WorkerInv'
        BY <2>2, ReadsFacts DEF WorkerInv
    <2>3. ASSUME NEW pc \in {"clearClaimRef", "recordBound"}, NEW m \in Machines,
                 worker' = [Reads(c, pc) EXCEPT !.target = m]
          PROVE  worker' \in Worker /\ WorkerInv'
        <3>1. Reads(c, pc) \in Worker /\ Reads(c, pc).pc = pc /\ Reads(c, pc).c = c
            BY ReadsFacts DEF Step
        <3>2. worker' \in Worker /\ worker'.pc = pc /\ worker'.c = c /\ worker'.target = m
            BY <2>3, <3>1 DEF Worker
        <3> QED
            BY <3>2 DEF WorkerInv
    <2>4. CASE ReconcileGone(c)
        <3>1. PICK orphans \in SUBSET Machines :
                    worker' = IF orphans = {} THEN Idle
                              ELSE [Reads(c, "clearOrphans") EXCEPT !.todo = orphans]
            BY <2>4, Zenon DEF ReconcileGone
        <3>2. CASE orphans # {}
            <4>1. Reads(c, "clearOrphans") \in Worker /\ Reads(c, "clearOrphans").c = c
                  /\ Reads(c, "clearOrphans").pc = "clearOrphans"
                BY ReadsFacts DEF Step
            <4>2. worker' \in Worker /\ worker'.pc = "clearOrphans" /\ worker'.c = c
                  /\ worker'.todo = orphans
                BY <3>1, <3>2, <4>1 DEF Worker
            <4> QED
                BY <3>2, <4>2 DEF WorkerInv
        <3> QED
            BY <2>1, <3>1, <3>2
    <2>5. CASE ReconcileDeleting(c)
        BY <2>1, <2>2, <2>3, <2>5 DEF ReconcileDeleting, Step, findBoundMachine
    <2>6. CASE ReconcileNew(c)
        BY <2>2, <2>6 DEF ReconcileNew, Step
    <2>7. CASE ReconcileBound(c)
        <3>1. CASE worker' = Reads(c, "recordLost")
            BY <2>2, <3>1 DEF Step
        <3>2. ASSUME NEW ready \in BOOLEAN,
                     worker' = [Reads(c, "mirror") EXCEPT !.ready = ready]
              PROVE  worker' \in Worker /\ WorkerInv'
            <4>1. Reads(c, "mirror") \in Worker /\ Reads(c, "mirror").c = c
                  /\ Reads(c, "mirror").pc = "mirror"
                BY ReadsFacts DEF Step
            <4>2. worker' \in Worker /\ worker'.pc = "mirror" /\ worker'.c = c
                BY <3>2, <4>1 DEF Worker
            <4> QED
                BY <4>2 DEF WorkerInv
        <3> QED
            BY <2>1, <2>7, <3>1, <3>2, Zenon DEF ReconcileBound
    <2>8. CASE ReconcilePending(c)
        <3>1. ASSUME NEW cands \in SUBSET Machines,
                     \A m \in cands : machineIsFreeAndAvailable(seenMachine(m)),
                     worker' = IF cands = {} THEN Reads(c, "markNoCandidate")
                               ELSE ReadsToBind(c, cands)
              PROVE  worker' \in Worker /\ WorkerInv'
            <4>1. CASE cands = {}
                BY <2>2, <3>1, <4>1 DEF Step
            <4>2. CASE cands # {}
                <5>1. worker' = ReadsToBind(c, cands)
                    BY <3>1, <4>2
                <5> QED
                    BY <1>2, <3>1, <4>2, <5>1, ReadsToBindFacts DEF WorkerInv, machineIsFreeAndAvailable
            <4> QED
                BY <4>1, <4>2
        <3>2. CASE \E m \in findBoundMachine(c) :
                      worker' = [Reads(c, "recordBound") EXCEPT !.target = m]
            BY <2>3, <3>2 DEF findBoundMachine
        <3>3. CASE worker' = Reads(c, "markFailed")
            BY <2>2, <3>3 DEF Step
        <3>4. matchingCandidates(c) \in SUBSET Machines
              /\ \A m \in matchingCandidates(c) : machineIsFreeAndAvailable(seenMachine(m))
            BY ClaimSpecAssumption DEF matchingCandidates
        <3>5. ASSUME seenClaim(c).named # None
              PROVE  {m \in {seenClaim(c).named} : machineIsFreeAndAvailable(seenMachine(m))}
                        \in SUBSET Machines
            BY <3>5, ObjectTypes DEF Claim
        <3> QED
            BY <2>8, <3>1, <3>2, <3>3, <3>4, <3>5 DEF ReconcilePending
    <2> QED
        BY <2>4, <2>5, <2>6, <2>7, <2>8 DEF Reconcile
<1> QED
    BY <1>1, <1>3 DEF BindInv, TypeOK

\* A claim that is gone or going.
Over(x) == ~x.exists \/ x.deleting

\* y is x or a later version of the claim: uids grow, and one that is over stays so.
Later(x, y) == x.uid <= y.uid /\ (x.uid = y.uid /\ Over(x) => Over(y))

\* The calls that write the claim, and the conflict they can end in.
ClaimCall ==
    \/ ConflictOnClaim \/ AddFinalizer \/ RemoveFinalizer \/ RecordLostBinding
    \/ MirrorMachineStatus \/ RecordBound \/ MarkNoCandidate \/ MarkFailed

\* They leave the claim alone or write a later version of it, and end the reconcile.
LEMMA ClaimCallFacts ==
    ASSUME BindInv, ClaimCall
    PROVE  /\ worker.c \in Claims /\ worker' = Idle /\ UNCHANGED <<machineLog, restarts>>
           /\ queue' = queue \/ queue' = queue \cup {worker.c}
           /\ \/ UNCHANGED claimLog
              \/ \E obj \in Claim : UpdateClaim(obj) /\ Later(claim(worker.c), obj)
<1> DEFINE Calls == {"addFinalizer", "removeFinalizer", "recordLost", "mirror",
                     "recordBound", "markNoCandidate", "markFailed"}
<1>1. worker.pc \in Calls /\ worker' = Idle /\ UNCHANGED <<machineLog, restarts>>
      /\ (queue' = queue \/ queue' = queue \cup {worker.c})
    BY DEF ClaimCall, ConflictOnClaim, AddFinalizer, RemoveFinalizer, RecordLostBinding,
           MirrorMachineStatus, RecordBound, MarkNoCandidate, MarkFailed, Done, Requeue
<1>2. worker.c \in Claims
    BY <1>1 DEF BindInv, WorkerInv, TypeOK
<1>3. claim(worker.c) \in Claim /\ worker \in Worker
    BY <1>2, ObjectTypes DEF BindInv, TypeOK
<1>4. ASSUME NEW obj \in Claim,
             \/ /\ obj.uid = claim(worker.c).uid /\ obj.exists = claim(worker.c).exists
                /\ obj.deleting = claim(worker.c).deleting
             \/ obj.uid = claim(worker.c).uid /\ ~obj.exists
      PROVE  Later(claim(worker.c), obj)
    BY <1>3, <1>4, BoundsAssumption DEF Later, Over, Claim
<1>5. UNCHANGED claimLog \/ \E obj \in Claim : UpdateClaim(obj) /\ Later(claim(worker.c), obj)
    <2>1. CASE ConflictOnClaim
        BY <2>1 DEF ConflictOnClaim
    <2>2. CASE AddFinalizer
        <3> DEFINE obj == [claim(worker.c) EXCEPT !.finalizer = TRUE]
        <3>1. obj \in Claim /\ obj.uid = claim(worker.c).uid
              /\ obj.exists = claim(worker.c).exists /\ obj.deleting = claim(worker.c).deleting
            BY <1>3, Zenon DEF Claim
        <3>2. Later(claim(worker.c), obj)
            BY <1>4, <3>1, Zenon
        <3> QED
            BY <2>2, <3>1, <3>2 DEF AddFinalizer
    <2>3. CASE RemoveFinalizer
        <3> DEFINE obj == NoClaim(claim(worker.c).uid)
        <3>1. obj \in Claim /\ obj.uid = claim(worker.c).uid /\ ~obj.exists
            BY <1>3, ZeroFacts, Zenon DEF Claim, NoClaim, NewClaim, Phase
        <3>2. Later(claim(worker.c), obj)
            BY <1>4, <3>1
        <3> QED
            BY <2>3, <3>1, <3>2 DEF RemoveFinalizer
    <2>4. CASE RecordLostBinding
        <3> DEFINE obj == [claim(worker.c) EXCEPT !.phase = "Pending", !.machineName = None]
        <3>1. obj \in Claim /\ obj.uid = claim(worker.c).uid
              /\ obj.exists = claim(worker.c).exists /\ obj.deleting = claim(worker.c).deleting
            BY <1>3, Zenon DEF Claim, Phase
        <3>2. Later(claim(worker.c), obj)
            BY <1>4, <3>1, Zenon
        <3> QED
            BY <2>4, <3>1, <3>2 DEF RecordLostBinding
    <2>5. CASE MirrorMachineStatus
        <3> DEFINE obj == [claim(worker.c) EXCEPT !.ready = worker.ready]
        <3>1. obj \in Claim /\ obj.uid = claim(worker.c).uid
              /\ obj.exists = claim(worker.c).exists /\ obj.deleting = claim(worker.c).deleting
            BY <1>3 DEF Claim, Worker
        <3>2. Later(claim(worker.c), obj)
            BY <1>4, <3>1, Zenon
        <3> QED
            BY <2>5, <3>1, <3>2 DEF MirrorMachineStatus
    <2>6. CASE RecordBound
        <3> DEFINE obj == [claim(worker.c) EXCEPT !.phase = "Bound", !.machineName = worker.target]
        <3>1. obj \in Claim /\ obj.uid = claim(worker.c).uid
              /\ obj.exists = claim(worker.c).exists /\ obj.deleting = claim(worker.c).deleting
            BY <1>3, Zenon DEF Claim, Worker, Phase
        <3>2. Later(claim(worker.c), obj)
            BY <1>4, <3>1, Zenon
        <3> QED
            BY <2>6, <3>1, <3>2 DEF RecordBound
    <2>7. CASE MarkNoCandidate
        <3> DEFINE obj == [claim(worker.c) EXCEPT !.phase = "Pending"]
        <3>1. obj \in Claim /\ obj.uid = claim(worker.c).uid
              /\ obj.exists = claim(worker.c).exists /\ obj.deleting = claim(worker.c).deleting
            BY <1>3, Zenon DEF Claim, Phase
        <3>2. Later(claim(worker.c), obj)
            BY <1>4, <3>1, Zenon
        <3> QED
            BY <2>7, <3>1, <3>2 DEF MarkNoCandidate
    <2>8. CASE MarkFailed
        <3> DEFINE obj == [claim(worker.c) EXCEPT !.phase = "Failed"]
        <3>1. obj \in Claim /\ obj.uid = claim(worker.c).uid
              /\ obj.exists = claim(worker.c).exists /\ obj.deleting = claim(worker.c).deleting
            BY <1>3, Zenon DEF Claim, Phase
        <3>2. Later(claim(worker.c), obj)
            BY <1>4, <3>1, Zenon
        <3> QED
            BY <2>8, <3>1, <3>2 DEF MarkFailed
    <2> QED
        BY <2>1, <2>2, <2>3, <2>4, <2>5, <2>6, <2>7, <2>8 DEF ClaimCall
<1> QED
    BY <1>1, <1>2, <1>5

\* They keep the invariant.
LEMMA ClaimCallKeepsInv ==
    ASSUME BindInv, ClaimCall
    PROVE  BindInv'
<1>1. /\ worker.c \in Claims /\ worker' = Idle /\ UNCHANGED <<machineLog, restarts>>
      /\ queue' = queue \/ queue' = queue \cup {worker.c}
      /\ UNCHANGED claimLog \/ \E obj \in Claim : UpdateClaim(obj)
    BY ClaimCallFacts
<1>2. /\ claimLog' \in [Claims -> Seq(Claim)]
      /\ \A d \in Claims : Len(claimLog'[d]) \in 1..(MaxLag + 1)
    BY <1>1, ClaimWrite DEF BindInv, TypeOK, UpdateClaim
<1> QED
    BY <1>1, <1>2, IdleIsWorker DEF BindInv, TypeOK, WorkerInv, Idle

\* The calls that write a Machine.
LEMMA MachineCallKeepsInv ==
    ASSUME BindInv, ClearOrphan \/ ClearClaimRef \/ tryBind
    PROVE  BindInv'
<1> USE DEF BindInv
<1>1. worker \in Worker /\ worker.c \in Claims /\ queue \subseteq Claims
    BY DEF ClearOrphan, ClearClaimRef, tryBind, WorkerInv, TypeOK
<1>2. worker.pc \in {"clearOrphans", "tryBind"} => First(worker.todo) \in worker.todo
      /\ First(worker.todo) \in Machines
    BY <1>1, FirstFacts DEF WorkerInv, Worker
<1>3. ASSUME NEW m \in Machines, PatchClaimRefAway(m)
      PROVE  /\ machineLog' \in [Machines -> Seq(Machine)]
             /\ \A n \in Machines : Len(machineLog'[n]) \in 1..(MaxLag + 1)
             /\ \A n \in Machines \ {m} : machine(n)' = machine(n)
    <2>1. [machine(m) EXCEPT !.claimRef = None] \in Machine
        BY ObjectTypes DEF Machine
    <2> QED
        BY <1>3, <2>1, MachineWrite DEF PatchClaimRefAway
<1>4. CASE Requeue /\ UNCHANGED <<machineLog, claimLog, restarts>>
    BY <1>1, <1>4, IdleIsWorker DEF Requeue, TypeOK, WorkerInv, Idle
<1>5. CASE ClearOrphan
    <2>1. CASE Requeue /\ UNCHANGED machineLog
        BY <1>4, <1>5, <2>1 DEF ClearOrphan
    <2>2. CASE PatchClaimRefAway(First(worker.todo))
        <3>1. UNCHANGED <<claimLog, restarts>> /\ worker.pc = "clearOrphans"
            BY <1>5 DEF ClearOrphan
        <3>2. CASE Requeue
            BY <1>1, <1>2, <1>3, <2>2, <3>1, <3>2, IdleIsWorker DEF Requeue, TypeOK, WorkerInv, Idle
        <3>3. CASE worker' = Idle /\ UNCHANGED queue
            BY <1>1, <1>2, <1>3, <2>2, <3>1, <3>3, IdleIsWorker DEF TypeOK, WorkerInv, Idle
        <3>4. CASE /\ worker.todo # {First(worker.todo)}
                   /\ worker' = [worker EXCEPT !.todo = @ \ {First(worker.todo)}]
                   /\ UNCHANGED queue
            <4>1. worker' \in Worker /\ worker'.pc = "clearOrphans" /\ worker'.c = worker.c
                  /\ worker'.todo # {}
                BY <1>1, <1>2, <3>1, <3>4 DEF Worker
            <4> QED
                BY <1>1, <1>2, <1>3, <2>2, <3>1, <3>4, <4>1 DEF TypeOK, WorkerInv
        <3> QED
            BY <1>5, <3>2, <3>3, <3>4 DEF ClearOrphan
    <2> QED
        BY <1>5, <2>1, <2>2 DEF ClearOrphan
<1>6. CASE ClearClaimRef
    <2>1. worker.target \in Machines
        BY <1>6 DEF ClearClaimRef, WorkerInv
    <2>2. CASE Requeue /\ UNCHANGED machineLog
        BY <1>4, <1>6, <2>2 DEF ClearClaimRef
    <2>3. CASE /\ PatchClaimRefAway(worker.target)
               /\ worker' = [worker EXCEPT !.pc = "removeFinalizer", !.target = None]
               /\ UNCHANGED queue
        <3>1. worker' \in Worker /\ worker'.pc = "removeFinalizer" /\ worker'.c = worker.c
            BY <1>1, <2>3, Zenon DEF Worker, Step
        <3>2. UNCHANGED <<claimLog, restarts>>
            BY <1>6 DEF ClearClaimRef
        <3> QED
            BY <1>1, <1>3, <2>1, <2>3, <3>1, <3>2 DEF TypeOK, WorkerInv
    <2> QED
        BY <1>6, <2>2, <2>3 DEF ClearClaimRef
<1>7. CASE tryBind
    <2> DEFINE m == First(worker.todo)
    <2>1. m \in worker.todo /\ m \in Machines /\ worker.pc = "tryBind"
          /\ UNCHANGED <<claimLog, restarts>>
        BY <1>2, <1>7 DEF tryBind
    <2>2. CASE Requeue /\ UNCHANGED machineLog
        BY <1>4, <1>7, <2>2 DEF tryBind
    <2>3. CASE /\ MayWriteMachine(m)
               /\ WriteMachine(m, [machine(m) EXCEPT
                                     !.claimRef = [name |-> worker.c, uid |-> worker.uid]])
               /\ worker' = [worker EXCEPT !.pc = "recordBound", !.target = m,
                                           !.uid = 0, !.todo = {}, !.fresh = {}]
               /\ UNCHANGED queue
        <3>1. [machine(m) EXCEPT !.claimRef = [name |-> worker.c, uid |-> worker.uid]] \in Machine
            BY <1>1, <2>1, ObjectTypes DEF Machine, ClaimRef, Worker
        <3>2. worker' \in Worker /\ worker'.pc = "recordBound" /\ worker'.c = worker.c
              /\ worker'.target = m
            BY <1>1, <2>1, <2>3, ZeroFacts, Zenon DEF Worker, Step
        <3>3. /\ machineLog' \in [Machines -> Seq(Machine)]
              /\ \A n \in Machines : Len(machineLog'[n]) \in 1..(MaxLag + 1)
            BY <2>1, <2>3, <3>1, MachineWrite
        <3> QED
            BY <1>1, <2>1, <2>3, <3>2, <3>3 DEF TypeOK, WorkerInv
    <2>4. CASE /\ worker' = IF worker.todo = {m}
                            THEN [worker EXCEPT !.pc = "markNoCandidate", !.uid = 0, !.todo = {}]
                            ELSE [worker EXCEPT !.todo = @ \ {m}]
               /\ UNCHANGED <<machineLog, queue>>
        <3>1. CASE worker.todo = {m}
            <4>1. worker' \in Worker /\ worker'.pc = "markNoCandidate" /\ worker'.c = worker.c
                BY <1>1, <2>4, <3>1, ZeroFacts, Zenon DEF Worker, Step
            <4> QED
                BY <1>1, <2>1, <2>4, <4>1 DEF TypeOK, WorkerInv
        <3>2. CASE worker.todo # {m}
            <4>1. worker' \in Worker /\ worker'.pc = "tryBind" /\ worker'.c = worker.c
                  /\ worker'.todo = worker.todo \ {m} /\ worker'.fresh = worker.fresh
                BY <1>1, <2>1, <2>4, <3>2 DEF Worker
            <4>2. \A n \in Machines : machine(n)' = machine(n)
                BY <2>4 DEF machine
            <4>3. worker'.todo # {}
                BY <2>1, <3>2, <4>1
            <4>4. WorkerInv'
                BY <1>1, <2>1, <4>1, <4>2, <4>3 DEF WorkerInv, Worker, machineIsFreeAndAvailable
            <4> QED
                BY <2>1, <2>4, <4>1, <4>4 DEF TypeOK
        <3> QED
            BY <3>1, <3>2
    <2> QED
        BY <1>7, <2>2, <2>3, <2>4 DEF tryBind
<1> QED
    BY <1>5, <1>6, <1>7

\* Watch events and a restart move the caches, not the stored objects.
LEMMA CacheStepFacts ==
    ASSUME TypeOK,
           \/ \E m \in Machines : DeliverMachine(m)
           \/ \E c \in Claims : DeliverClaim(c)
           \/ Restart
    PROVE  /\ machineLog' \in [Machines -> Seq(Machine)]
           /\ \A n \in Machines : Len(machineLog'[n]) \in 1..(MaxLag + 1)
           /\ claimLog' \in [Claims -> Seq(Claim)]
           /\ \A d \in Claims : Len(claimLog'[d]) \in 1..(MaxLag + 1)
           /\ queue' \subseteq Claims
           /\ restarts' \in 0..MaxRestarts
           /\ worker' \in {worker, Idle}
           /\ \A n \in Machines : machine(n)' = machine(n)
<1>1. /\ \A m \in Machines : Len(machineLog[m]) >= 1 /\ machineLog[m] \in Seq(Machine)
      /\ \A c \in Claims : Len(claimLog[c]) >= 1 /\ claimLog[c] \in Seq(Claim)
    BY BoundsAssumption DEF TypeOK
<1>2. \A obj \in Machine : mapMachineToClaims(obj) \subseteq Claims
    BY DEF mapMachineToClaims, Machine, ClaimRef
<1>3. ASSUME NEW m \in Machines, DeliverMachine(m)
      PROVE  /\ machineLog' \in [Machines -> Seq(Machine)]
             /\ \A n \in Machines : Len(machineLog'[n]) \in 1..(MaxLag + 1)
             /\ queue' \subseteq Claims
             /\ \A n \in Machines : machine(n)' = machine(n)
    <2>1. machineLog' = [machineLog EXCEPT ![m] = Deliver(machineLog[m])]
          /\ Len(machineLog[m]) > 1
        BY <1>3 DEF DeliverMachine
    <2>2. /\ Deliver(machineLog[m]) \in Seq(Machine)
          /\ Len(Deliver(machineLog[m])) = Len(machineLog[m]) - 1
          /\ Current(Deliver(machineLog[m])) = Current(machineLog[m])
        BY <1>1, <2>1, DeliverFacts
    <2>3. machineLog[m][1] \in Machine /\ machineLog[m][2] \in Machine
        BY <1>1, <2>1
    <2>4. queue' \subseteq Claims
        BY <1>2, <1>3, <2>3 DEF DeliverMachine, TypeOK
    <2> QED
        BY <1>1, <2>1, <2>2, <2>4, BoundsAssumption DEF TypeOK, machine
<1>4. ASSUME NEW c \in Claims, DeliverClaim(c)
      PROVE  /\ claimLog' \in [Claims -> Seq(Claim)]
             /\ \A d \in Claims : Len(claimLog'[d]) \in 1..(MaxLag + 1)
             /\ queue' \subseteq Claims
    <2>1. claimLog' = [claimLog EXCEPT ![c] = Deliver(claimLog[c])] /\ Len(claimLog[c]) > 1
        BY <1>4 DEF DeliverClaim
    <2>2. /\ Deliver(claimLog[c]) \in Seq(Claim)
          /\ Len(Deliver(claimLog[c])) = Len(claimLog[c]) - 1
        BY <1>1, <2>1, DeliverFacts
    <2>3. queue' \subseteq Claims
        BY <1>4 DEF DeliverClaim, TypeOK
    <2> QED
        BY <1>1, <2>1, <2>2, <2>3, BoundsAssumption DEF TypeOK
<1>5. CASE \E m \in Machines : DeliverMachine(m)
    BY <1>3, <1>5, Zenon DEF DeliverMachine, TypeOK
<1>6. CASE \E c \in Claims : DeliverClaim(c)
    BY <1>4, <1>6, ZenonT(40) DEF DeliverClaim, TypeOK, machine
<1>7. CASE Restart
    <2>1. /\ \A m \in Machines : /\ Relist(machineLog[m]) \in Seq(Machine)
                                 /\ Len(Relist(machineLog[m])) = 1
                                 /\ Current(Relist(machineLog[m])) = Current(machineLog[m])
          /\ \A c \in Claims : /\ Relist(claimLog[c]) \in Seq(Claim)
                               /\ Len(Relist(claimLog[c])) = 1
        BY <1>1, VersionFacts
    <2>2. /\ machineLog' = [m \in Machines |-> Relist(machineLog[m])]
          /\ claimLog' = [c \in Claims |-> Relist(claimLog[c])]
          /\ worker' = Idle
        BY <1>7 DEF Restart
    <2>3. \A n \in Machines : machine(n)' = machine(n)
        BY <2>1, <2>2 DEF machine
    <2>4. restarts' \in 0..MaxRestarts
        BY <1>7, BoundsAssumption DEF Restart, TypeOK
    <2>5. \A m \in Machines : machine(m).claimRef # None => machine(m).claimRef.name \in Claims
        BY ObjectTypes DEF Machine, ClaimRef
    <2>6. queue' \subseteq Claims
        BY <1>7, <2>5 DEF Restart
    <2>7. 1 \in 1..(MaxLag + 1)
        BY BoundsAssumption
    <2>8. /\ machineLog' \in [Machines -> Seq(Machine)]
          /\ \A n \in Machines : Len(machineLog'[n]) \in 1..(MaxLag + 1)
        BY <2>1, <2>2, <2>7, Zenon
    <2>9. /\ claimLog' \in [Claims -> Seq(Claim)]
          /\ \A d \in Claims : Len(claimLog'[d]) \in 1..(MaxLag + 1)
        BY <2>1, <2>2, <2>7, Zenon
    <2> QED
        BY <2>2, <2>3, <2>4, <2>6, <2>8, <2>9
<1> QED
    BY <1>5, <1>6, <1>7

\* The steps of the Machine controller and of the users on a Machine.
MachineEnvironment(m) ==
    MachineStep(m) \/ MachineGone(m) \/ ReInspect(m) \/ CreateMachine(m) \/ DeleteMachine(m)

\* They write one Machine, and leave its claimRef alone unless they remove or
\* create the Machine.
LEMMA MachineEnvironmentFacts ==
    ASSUME TypeOK, NEW m \in Machines, MachineEnvironment(m)
    PROVE  \E obj \in Machine :
              /\ ChangeMachine(m, obj)
              /\ obj.claimRef \in {None, machine(m).claimRef}
              /\ obj.claimRef # None => obj.exists
              /\ machine(m).exists /\ obj.exists => obj.claimRef = machine(m).claimRef
<1>1. machine(m) \in Machine
    BY ObjectTypes
<1>2. CASE MachineStep(m)
    <2>1. PICK s \in State : ChangeMachine(m, [machine(m) EXCEPT !.state = s])
        BY <1>2 DEF MachineStep, NextState, State
    <2>2. machine(m).exists
        BY <1>2 DEF MachineStep
    <2>3. LET obj == [machine(m) EXCEPT !.state = s]
          IN  obj \in Machine /\ obj.claimRef = machine(m).claimRef /\ obj.exists = machine(m).exists
        BY <1>1 DEF Machine
    <2> QED
        BY <2>1, <2>2, <2>3, Zenon
<1>3. CASE MachineGone(m)
    <2>1. LET obj == NoMachine(machine(m).uid) IN obj \in Machine /\ obj.claimRef = None /\ ~obj.exists
        BY <1>1, Zenon DEF NoMachine, NewMachine, Machine, State
    <2> QED
        BY <1>3, <2>1 DEF MachineGone
<1>4. CASE ReInspect(m)
    <2>1. LET obj == [machine(m) EXCEPT !.state = "Inspecting"]
          IN  obj \in Machine /\ obj.claimRef = machine(m).claimRef /\ obj.exists = machine(m).exists
        BY <1>1 DEF Machine, State
    <2> QED
        BY <1>4, <2>1, Zenon DEF ReInspect
<1>5. CASE CreateMachine(m)
    <2>1. machine(m).uid + 1 \in 0..MaxBirths
        BY <1>1, <1>5, BoundsAssumption DEF CreateMachine, Machine
    <2>2. LET obj == NewMachine(machine(m).uid + 1) IN obj \in Machine /\ obj.claimRef = None
        BY <2>1 DEF NewMachine, Machine, State
    <2> QED
        BY <1>5, <2>2 DEF CreateMachine
<1>6. CASE DeleteMachine(m)
    <2>1. LET obj == [machine(m) EXCEPT !.deleting = TRUE]
          IN  obj \in Machine /\ obj.claimRef = machine(m).claimRef /\ obj.exists = machine(m).exists
        BY <1>1, Zenon DEF Machine
    <2> QED
        BY <1>6, <2>1, Zenon DEF DeleteMachine
<1> QED
    BY <1>2, <1>3, <1>4, <1>5, <1>6 DEF MachineEnvironment

\* The Machine controller and the users who edit Machines keep the invariant:
\* each of their writes makes the worker's copy stale.
LEMMA MachineEnvironmentKeepsInv ==
    ASSUME BindInv, NEW m \in Machines, MachineEnvironment(m)
    PROVE  BindInv'
<1> USE DEF BindInv
<1>1. PICK obj \in Machine : ChangeMachine(m, obj)
    BY MachineEnvironmentFacts
<1>2. /\ machineLog' \in [Machines -> Seq(Machine)]
      /\ \A n \in Machines : Len(machineLog'[n]) \in 1..(MaxLag + 1)
      /\ \A n \in Machines \ {m} : machine(n)' = machine(n)
    BY <1>1, MachineWrite DEF ChangeMachine
<1>3. worker \in Worker /\ UNCHANGED <<claimLog, queue, restarts>>
      /\ worker' = [worker EXCEPT !.fresh = worker.fresh \ {m}]
    BY <1>1 DEF ChangeMachine, MachineWritten, TypeOK
<1>4. /\ worker' \in Worker /\ worker'.pc = worker.pc /\ worker'.c = worker.c
      /\ worker'.todo = worker.todo /\ worker'.target = worker.target
      /\ worker'.fresh = worker.fresh \ {m}
    BY <1>3 DEF Worker
<1>5. WorkerInv'
    BY <1>2, <1>3, <1>4 DEF WorkerInv, Worker, machineIsFreeAndAvailable
<1> QED
    BY <1>2, <1>3, <1>4, <1>5 DEF TypeOK

\* What the users do to claims.
ClaimEnvironment(c) == CreateClaim(c) \/ EditClaim(c) \/ DeleteClaim(c)

\* They write a later version of the claim.
LEMMA ClaimEnvironmentFacts ==
    ASSUME BindInv, NEW c \in Claims, ClaimEnvironment(c)
    PROVE  \E obj \in Claim : ChangeClaim(c, obj) /\ Later(claim(c), obj)
<1>1. claim(c) \in Claim /\ claim(c).uid \in Nat
    BY ObjectTypes, BoundsAssumption DEF BindInv, Claim
<1>2. CASE CreateClaim(c)
    <2>1. claim(c).uid + 1 \in 0..MaxUid
        BY <1>1, <1>2, BoundsAssumption DEF CreateClaim, Claim
    <2>2. ASSUME NEW named \in NamedMachine[c]
          PROVE  LET obj == NewClaim(claim(c).uid + 1, named)
                 IN  obj \in Claim /\ Later(claim(c), obj)
        <3>1. named \in Machines \cup {None}
            BY <2>2, ClaimSpecAssumption
        <3>2. NewClaim(claim(c).uid + 1, named) \in Claim
            BY <2>1, <3>1, ZeroFacts DEF NewClaim, Claim, Phase
        <3>3. NewClaim(claim(c).uid + 1, named).uid = claim(c).uid + 1
            BY DEF NewClaim
        <3> QED
            BY <1>1, <3>2, <3>3 DEF Later
    <2> QED
        BY <1>2, <2>2 DEF CreateClaim
<1>3. CASE EditClaim(c)
    <2>1. claim(c).gen + 1 \in 0..MaxGen
        <3>1. claim(c).gen < MaxGen
            BY <1>3 DEF EditClaim
        <3> QED
            BY <1>1, <3>1, BoundsAssumption DEF Claim
    <2>2. ASSUME NEW named \in NamedMachine[c]
          PROVE  LET obj == [claim(c) EXCEPT !.gen = @ + 1, !.named = named]
                 IN  obj \in Claim /\ Later(claim(c), obj)
        <3> DEFINE obj == [claim(c) EXCEPT !.gen = @ + 1, !.named = named]
        <3>1. named \in Machines \cup {None}
            BY <2>2, ClaimSpecAssumption
        <3>2. obj \in Claim /\ obj.uid = claim(c).uid
              /\ obj.exists = claim(c).exists /\ obj.deleting = claim(c).deleting
            BY <1>1, <2>1, <3>1, Zenon DEF Claim
        <3> QED
            BY <1>1, <3>2 DEF Later, Over
    <2> QED
        BY <1>3, <2>2, Zenon DEF EditClaim
<1>4. CASE DeleteClaim(c)
    <2>1. LET obj == [claim(c) EXCEPT !.deleting = TRUE]
          IN  obj \in Claim /\ obj.uid = claim(c).uid /\ obj.deleting
        BY <1>1, Zenon DEF Claim
    <2>2. LET obj == NoClaim(claim(c).uid)
          IN  obj \in Claim /\ obj.uid = claim(c).uid /\ ~obj.exists
        BY <1>1, ZeroFacts, Zenon DEF Claim, NoClaim, NewClaim, Phase
    <2>3. /\ Later(claim(c), [claim(c) EXCEPT !.deleting = TRUE])
          /\ Later(claim(c), NoClaim(claim(c).uid))
        BY <1>1, <2>1, <2>2 DEF Later, Over
    <2> QED
        BY <1>4, <2>1, <2>2, <2>3 DEF DeleteClaim
<1> QED
    BY <1>2, <1>3, <1>4 DEF ClaimEnvironment

\* The users who edit claims keep the invariant.
LEMMA ClaimEnvironmentKeepsInv ==
    ASSUME BindInv, NEW c \in Claims, ClaimEnvironment(c)
    PROVE  BindInv'
<1> USE DEF BindInv
<1>3. PICK obj \in Claim : ChangeClaim(c, obj)
    BY ClaimEnvironmentFacts
<1>4. /\ claimLog' \in [Claims -> Seq(Claim)]
      /\ \A d \in Claims : Len(claimLog'[d]) \in 1..(MaxLag + 1)
    BY <1>3, ClaimWrite DEF ChangeClaim
<1>5. PICK b \in BOOLEAN : worker' = [worker EXCEPT !.claimFresh = b]
    BY <1>3, Zenon DEF ChangeClaim, ClaimWritten
<1>6. worker \in Worker /\ UNCHANGED <<machineLog, queue, restarts>>
    BY <1>3 DEF ChangeClaim, TypeOK
<1>7. /\ worker' \in Worker /\ worker'.pc = worker.pc /\ worker'.c = worker.c
      /\ worker'.todo = worker.todo /\ worker'.target = worker.target
      /\ worker'.fresh = worker.fresh
    BY <1>5, <1>6 DEF Worker
<1>8. \A n \in Machines : machine(n)' = machine(n)
    BY <1>6 DEF machine
<1>9. WorkerInv'
    BY <1>6, <1>7, <1>8 DEF WorkerInv, Worker, machineIsFreeAndAvailable
<1> QED
    BY <1>4, <1>6, <1>7, <1>9 DEF TypeOK

\* Watch events and a restart keep the invariant.
LEMMA CacheStepKeepsInv ==
    ASSUME BindInv,
           \/ \E m \in Machines : DeliverMachine(m)
           \/ \E c \in Claims : DeliverClaim(c)
           \/ Restart
    PROVE  BindInv'
<1> USE DEF BindInv
<1>1. worker \in Worker /\ worker' \in {worker, Idle}
      /\ \A n \in Machines : machine(n)' = machine(n)
    BY CacheStepFacts DEF TypeOK
<1>2. worker' \in Worker
    BY <1>1, IdleIsWorker
<1>3. CASE worker' = worker
    <2>1. WorkerInv'
        BY <1>1, <1>3 DEF WorkerInv, Worker, machineIsFreeAndAvailable
    <2> QED
        BY <1>2, <2>1, CacheStepFacts DEF TypeOK
<1>4. CASE worker' = Idle
    <2>1. WorkerInv'
        BY <1>4 DEF WorkerInv, Idle
    <2> QED
        BY <1>2, <2>1, CacheStepFacts DEF TypeOK
<1> QED
    BY <1>1, <1>3, <1>4

-----------------------------------------------------------------------------
\* The invariant holds at the start.
LEMMA InitEstablishesInv == Init => BindInv
<1> SUFFICES ASSUME Init PROVE BindInv
    OBVIOUS
<1>1. NoMachine(0) \in Machine /\ NoClaim(0) \in Claim
    BY ZeroFacts, Zenon DEF NoMachine, NewMachine, Machine, State, NoClaim, NewClaim, Claim, Phase
<1>2. /\ machineLog \in [Machines -> Seq(Machine)]
      /\ \A n \in Machines : Len(machineLog[n]) \in 1..(MaxLag + 1)
    BY <1>1, BoundsAssumption DEF Init
<1>3. /\ claimLog \in [Claims -> Seq(Claim)]
      /\ \A d \in Claims : Len(claimLog[d]) \in 1..(MaxLag + 1)
    BY <1>1, BoundsAssumption DEF Init
<1>4. WorkerInv
    BY DEF Init, WorkerInv, Idle
<1> QED
    BY <1>2, <1>3, <1>4, IdleIsWorker, BoundsAssumption DEF Init, BindInv, TypeOK

\* Every step keeps the invariant.
LEMMA NextKeepsInv == BindInv /\ [Next]_vars => BindInv'
<1> SUFFICES ASSUME BindInv, [Next]_vars PROVE BindInv'
    OBVIOUS
<1>1. CASE \E c \in Claims : Reconcile(c)
    BY <1>1, ReconcileKeepsInv
<1>2. CASE WorkerCall
    BY <1>2, ClaimCallKeepsInv, MachineCallKeepsInv DEF WorkerCall, ClaimCall
<1>3. CASE (\E m \in Machines : DeliverMachine(m)) \/ (\E c \in Claims : DeliverClaim(c)) \/ Restart
    BY <1>3, CacheStepKeepsInv
<1>4. CASE \E m \in Machines : MachineEnvironment(m)
    BY <1>4, MachineEnvironmentKeepsInv
<1>5. CASE \E c \in Claims : ClaimEnvironment(c)
    BY <1>5, ClaimEnvironmentKeepsInv
<1>6. CASE UNCHANGED vars
    BY <1>6 DEF vars, BindInv, TypeOK, WorkerInv, machine, machineIsFreeAndAvailable
<1> QED
    BY <1>1, <1>2, <1>3, <1>4, <1>5, <1>6
    DEF Next, Users, MachineController, MachineEnvironment, ClaimEnvironment

\* Every variable keeps its type, whatever the interleaving of the worker,
\* the watches, the restarts and the environment.
THEOREM TypeCorrect == Spec => []TypeOK
<1>1. Spec => []BindInv
    BY InitEstablishesInv, NextKeepsInv, PTL DEF Spec
<1>2. BindInv => TypeOK
    BY DEF BindInv
<1> QED
    BY <1>1, <1>2, PTL

-----------------------------------------------------------------------------
\* What one step may do to a claimRef: bind a free, Available Machine, or
\* leave the claimRef alone, or remove it.
LEMMA StepBindsOnlyFree ==
    ASSUME BindInv, [Next]_vars, NEW m \in Machines,
           machine(m)'.claimRef \notin {None, machine(m).claimRef}
    PROVE  machineIsFreeAndAvailable(machine(m))
<1> USE DEF BindInv
<1>1. machine(m) \in Machine /\ worker \in Worker
    BY ObjectTypes DEF TypeOK
<1>2. CASE UNCHANGED machineLog
    BY <1>2 DEF machine
<1>3. ASSUME NEW n \in Machines, PatchClaimRefAway(n)
      PROVE  FALSE
    <2>1. machine(n) \in Machine
        BY ObjectTypes
    <2>2. LET obj == [machine(n) EXCEPT !.claimRef = None] IN obj \in Machine /\ obj.claimRef = None
        BY <2>1 DEF Machine
    <2>3. machine(n)'.claimRef = None /\ \A x \in Machines \ {n} : machine(x)' = machine(x)
        BY <1>3, <2>2, MachineWrite, Zenon DEF PatchClaimRefAway
    <2> QED
        BY <2>3
<1>4. CASE \E n \in Machines : MachineEnvironment(n)
    <2>1. PICK n \in Machines : MachineEnvironment(n)
        BY <1>4
    <2>2. PICK obj \in Machine : /\ ChangeMachine(n, obj)
                                 /\ obj.claimRef \in {None, machine(n).claimRef}
        BY <2>1, MachineEnvironmentFacts
    <2>3. machine(n)' = obj /\ \A x \in Machines \ {n} : machine(x)' = machine(x)
        BY <2>2, MachineWrite DEF ChangeMachine
    <2> QED
        BY <2>2, <2>3
<1>5. CASE tryBind /\ ~UNCHANGED machineLog
    <2> DEFINE n == First(worker.todo)
    <2>1. worker.pc = "tryBind" /\ worker.todo # {} /\ worker.todo \in SUBSET Machines
        BY <1>1, <1>5 DEF tryBind, WorkerInv, Worker
    <2>2. n \in worker.todo /\ n \in Machines
        BY <2>1, FirstFacts
    <2>3. /\ n \in worker.fresh
          /\ MayWriteMachine(n)
          /\ WriteMachine(n, [machine(n) EXCEPT
                                !.claimRef = [name |-> worker.c, uid |-> worker.uid]])
        BY <1>5 DEF tryBind
    <2>4. machineIsFreeAndAvailable(machine(n))
        BY <2>1, <2>2, <2>3 DEF WorkerInv
    <2>5. [machine(n) EXCEPT !.claimRef = [name |-> worker.c, uid |-> worker.uid]] \in Machine
        BY <1>1, <2>1, <2>2, ObjectTypes DEF Machine, ClaimRef, Worker, WorkerInv
    <2>6. \A x \in Machines \ {n} : machine(x)' = machine(x)
        BY <2>2, <2>3, <2>5, MachineWrite
    <2>7. m = n
        BY <2>6
    <2> QED
        BY <2>4, <2>7
<1>6. CASE ClearOrphan
    <2>1. First(worker.todo) \in Machines
        BY <1>1, <1>6, FirstFacts DEF ClearOrphan, WorkerInv, Worker
    <2> QED
        BY <1>2, <1>3, <1>6, <2>1 DEF ClearOrphan
<1>7. CASE ClearClaimRef
    <2>1. worker.target \in Machines
        BY <1>7 DEF ClearClaimRef, WorkerInv
    <2> QED
        BY <1>2, <1>3, <1>7, <2>1 DEF ClearClaimRef
<1>8. CASE \/ \E n \in Machines : DeliverMachine(n)
           \/ \E c \in Claims : DeliverClaim(c)
           \/ Restart
    BY <1>8, CacheStepFacts
<1>9. CASE \E c \in Claims : Reconcile(c)
    BY <1>2, <1>9 DEF Reconcile, ReconcileGone, ReconcileDeleting, ReconcileNew,
                      ReconcileBound, ReconcilePending
<1>10. CASE \E c \in Claims : ClaimEnvironment(c)
    BY <1>2, <1>10, Zenon DEF ClaimEnvironment, CreateClaim, EditClaim, DeleteClaim, ChangeClaim
<1>11. CASE ClaimCall
    BY <1>2, <1>11, ClaimCallFacts
<1>12. CASE UNCHANGED vars
    BY <1>2, <1>12 DEF vars
<1> QED
    BY <1>2, <1>4, <1>5, <1>6, <1>7, <1>8, <1>9, <1>10, <1>11, <1>12
    DEF Next, Users, MachineController, MachineEnvironment, ClaimEnvironment, WorkerCall,
        ClaimCall

\* No claim ever takes a Machine that another claim holds, or that is not
\* Available, however stale the caches it decides on.
THEOREM BindingIsSafe == Spec => BindsOnlyFree
<1>1. Spec => []BindInv
    BY InitEstablishesInv, NextKeepsInv, PTL DEF Spec
<1>2. BindInv /\ [Next]_vars =>
        [\A m \in Machines :
            machine(m)'.claimRef \notin {None, machine(m).claimRef}
              => /\ machine(m).exists
                 /\ machine(m).claimRef = None
                 /\ machine(m).state = "Available"]_vars
    BY StepBindsOnlyFree DEF machineIsFreeAndAvailable
<1> QED
    BY <1>1, <1>2, PTL DEF Spec, BindsOnlyFree
-----------------------------------------------------------------------------
(* Unbinding.  clearClaimRef is a patch, so nothing but the history of the *)
(* objects keeps it from a Machine that a live claim holds.                *)

Ordered(log) == \A i, j \in 1..Len(log) : i <= j => Later(log[i], log[j])

\* A claimRef that the cache may still show is the stored one, or was removed.
RefLasts(log) ==
    \A i \in 1..Len(log) :
        log[i].claimRef # None => Current(log).claimRef \in {None, log[i].claimRef}

Ref(c, u) == [name |-> c, uid |-> u]

\* No live claim c has the uid u now, nor will one.
Dying(c, u) == u <= claim(c).uid /\ (claim(c).uid = u => Over(claim(c)))

\* The claim that the stored Machine names, if any, is not live.
Doomed(m) ==
    machine(m).claimRef # None =>
        \A c \in Claims, u \in Nat : machine(m).claimRef = Ref(c, u) => Dying(c, u)

\* No claimRef is ahead of the cache: tryBind wrote the uid that the cache showed.
RefIsSeen(m) ==
    machine(m).claimRef # None =>
        /\ machine(m).exists
        /\ \A c \in Claims, u \in Nat : machine(m).claimRef = Ref(c, u) => u <= seenClaim(c).uid

\* What the reconcile in progress relies on: the uid it binds was seen, a copy it
\* still holds as fresh is the stored object, and no Machine it is about to
\* release is a live claim's.
CallInv ==
    /\ worker.pc = "tryBind" =>
          /\ worker.uid <= seenClaim(worker.c).uid
          /\ \A m \in worker.todo \cap worker.fresh : UpToDate(machineLog[m])
    /\ worker.pc = "clearOrphans" => \A m \in worker.todo : Doomed(m)
    /\ worker.pc = "clearClaimRef" => Doomed(worker.target)

UnbindInv ==
    /\ \A c \in Claims : Ordered(claimLog[c])
    /\ \A m \in Machines : RefLasts(machineLog[m]) /\ RefIsSeen(m)
    /\ CallInv

\* The order of versions is one.
LEMMA LaterFacts ==
    /\ \A x \in Claim : Later(x, x)
    /\ \A x, y, z \in Claim : Later(x, y) /\ Later(y, z) => Later(x, z)
<1>1. \A x \in Claim : x.uid \in Nat
    BY BoundsAssumption DEF Claim
<1> QED
    BY <1>1 DEF Later

\* What the operations on histories do to the order of a claim's versions.
LEMMA OrderedFacts ==
    ASSUME NEW log \in Seq(Claim), Len(log) >= 1, Ordered(log)
    PROVE  /\ \A v \in Claim : Later(Current(log), v) =>
                 /\ Ordered(Write(log, v))
                 /\ Cached(Write(log, v)) = Cached(log)
           /\ Len(log) > 1 =>
                 /\ Ordered(Deliver(log))
                 /\ Later(Cached(log), Cached(Deliver(log)))
           /\ Ordered(Relist(log))
           /\ Later(Cached(log), Current(log))
           /\ Cached(Relist(log)) = Current(log)
<1>1. ASSUME NEW v \in Claim, Later(Current(log), v)
      PROVE  Ordered(Write(log, v)) /\ Cached(Write(log, v)) = Cached(log)
    <2>1. CASE v = Current(log)
        BY <2>1 DEF Write
    <2>2. CASE v # Current(log)
        <3>1. Write(log, v) = Append(log, v)
            BY <2>2 DEF Write
        <3>2. /\ Len(Append(log, v)) = Len(log) + 1
              /\ \A i \in 1..Len(log) : Append(log, v)[i] = log[i] /\ log[i] \in Claim
              /\ Append(log, v)[Len(log) + 1] = v
            OBVIOUS
        <3>3. \A i \in 1..Len(log) : Later(log[i], v)
            <4>1. \A i \in 1..Len(log) : Later(log[i], log[Len(log)]) /\ log[i] \in Claim
                BY DEF Ordered
            <4>2. log[Len(log)] \in Claim
                OBVIOUS
            <4> QED
                BY <1>1, <4>1, <4>2, LaterFacts DEF Current
        <3>4. ASSUME NEW i \in 1..(Len(log) + 1), NEW j \in 1..(Len(log) + 1), i <= j
              PROVE  Later(Append(log, v)[i], Append(log, v)[j])
            <4>1. CASE j \in 1..Len(log)
                BY <3>2, <3>4, <4>1 DEF Ordered
            <4>2. CASE j = Len(log) + 1 /\ i \in 1..Len(log)
                BY <3>2, <3>3, <4>2
            <4>3. CASE j = Len(log) + 1 /\ i = Len(log) + 1
                BY <1>1, <3>2, <4>3, LaterFacts
            <4> QED
                BY <4>1, <4>2, <4>3
        <3>5. Ordered(Append(log, v))
            BY <3>2, <3>4 DEF Ordered
        <3>6. Head(Append(log, v)) = Head(log)
            OBVIOUS
        <3> QED
            BY <3>1, <3>5, <3>6 DEF Cached
    <2> QED
        BY <2>1, <2>2
<1>2. ASSUME Len(log) > 1
      PROVE  Ordered(Deliver(log)) /\ Later(Cached(log), Cached(Deliver(log)))
    <2>1. /\ Len(Tail(log)) = Len(log) - 1
          /\ \A i \in 1..(Len(log) - 1) : Tail(log)[i] = log[i + 1]
          /\ Head(log) = log[1] /\ Head(Tail(log)) = log[2]
        BY <1>2
    <2>2. Ordered(Tail(log))
        BY <2>1 DEF Ordered
    <2>3. Later(log[1], log[2])
        BY <1>2 DEF Ordered
    <2> QED
        BY <2>1, <2>2, <2>3, Zenon DEF Deliver, Cached
<1>3. /\ Ordered(Relist(log)) /\ Cached(Relist(log)) = Current(log)
    <2>1. log[Len(log)] \in Claim
        OBVIOUS
    <2>2. Later(log[Len(log)], log[Len(log)])
        BY <2>1, LaterFacts
    <2> QED
        BY <2>2 DEF Relist, Current, Cached, Ordered
<1>4. Later(Cached(log), Current(log))
    BY DEF Ordered, Cached, Current
<1> QED
    BY <1>1, <1>2, <1>3, <1>4

\* The same of a Machine's claimRef.
LEMMA RefLastsFacts ==
    ASSUME NEW log \in Seq(Machine), Len(log) >= 1, RefLasts(log)
    PROVE  /\ \A v \in Machine :
                 (v.claimRef \in {None, Current(log).claimRef}
                    \/ (UpToDate(log) /\ Current(log).claimRef = None))
                  => RefLasts(Write(log, v))
           /\ Len(log) > 1 => RefLasts(Deliver(log))
           /\ RefLasts(Relist(log))
           /\ Cached(log).claimRef # None => Current(log).claimRef \in {None, Cached(log).claimRef}
<1>1. ASSUME NEW v \in Machine,
             \/ v.claimRef \in {None, Current(log).claimRef}
             \/ UpToDate(log) /\ Current(log).claimRef = None
      PROVE  RefLasts(Write(log, v))
    <2>1. CASE v = Current(log)
        BY <2>1 DEF Write
    <2>2. CASE v # Current(log)
        <3>1. Write(log, v) = Append(log, v)
            BY <2>2 DEF Write
        <3>2. /\ Len(Append(log, v)) = Len(log) + 1
              /\ \A i \in 1..Len(log) : Append(log, v)[i] = log[i]
              /\ Append(log, v)[Len(log) + 1] = v
            OBVIOUS
        <3>3. \A i \in 1..Len(log) : log[i].claimRef # None => v.claimRef \in {None, log[i].claimRef}
            BY <1>1 DEF RefLasts, Current, UpToDate
        <3>4. PICK l, k : l = Append(log, v) /\ k = Len(log)
            BY Zenon
        <3>5. k \in Nat
            BY <3>4
        <3>6. Len(l) = k + 1 /\ Current(l) = v /\ l[k + 1] = v
            BY <3>2, <3>4 DEF Current
        <3>7. ASSUME NEW i \in 1..Len(l), l[i].claimRef # None
              PROVE  v.claimRef \in {None, l[i].claimRef}
            <4>1. i \in 1..k \/ i = k + 1
                BY <3>5, <3>6
            <4>2. CASE i \in 1..k
                <5>1. l[i] = log[i] /\ i \in 1..Len(log)
                    BY <3>2, <3>4, <4>2, Zenon
                <5> QED
                    BY <3>3, <3>7, <5>1, Zenon
            <4>3. CASE i = k + 1
                BY <3>6, <4>3, Zenon
            <4> QED
                BY <4>1, <4>2, <4>3, Zenon
        <3> QED
            BY <3>1, <3>4, <3>6, <3>7, Zenon DEF RefLasts
    <2> QED
        BY <2>1, <2>2
<1>2. ASSUME Len(log) > 1
      PROVE  RefLasts(Deliver(log))
    <2>1. /\ Len(Tail(log)) = Len(log) - 1
          /\ \A i \in 1..(Len(log) - 1) : Tail(log)[i] = log[i + 1]
        BY <1>2
    <2>2. Current(Tail(log)) = Current(log)
        BY <1>2, <2>1 DEF Current
    <2> QED
        BY <2>1, <2>2 DEF RefLasts, Deliver
<1>3. RefLasts(Relist(log))
    BY DEF RefLasts, Relist, Current
<1>4. Cached(log).claimRef # None => Current(log).claimRef \in {None, Cached(log).claimRef}
    BY DEF RefLasts, Cached
<1> QED
    BY <1>1, <1>2, <1>3, <1>4

\* What is stored of every claim, and what the cache shows of it, only gets later.
ClaimsAdvance ==
    \A c \in Claims : /\ Ordered(claimLog[c])'
                      /\ Later(claim(c), claim(c)')
                      /\ seenClaim(c).uid <= seenClaim(c)'.uid

\* So does every step.
LEMMA StepAdvancesClaims ==
    ASSUME BindInv, [Next]_vars, \A c \in Claims : Ordered(claimLog[c])
    PROVE  ClaimsAdvance
<1>1. \A c \in Claims : /\ Len(claimLog[c]) >= 1 /\ claimLog[c] \in Seq(Claim)
                        /\ claim(c) \in Claim /\ seenClaim(c) \in Claim
                        /\ seenClaim(c).uid <= seenClaim(c).uid
                        /\ Later(claim(c), claim(c))
    <2>1. \A c \in Claims : Len(claimLog[c]) >= 1 /\ claimLog[c] \in Seq(Claim)
        BY BoundsAssumption DEF BindInv, TypeOK
    <2>2. \A c \in Claims : claim(c) \in Claim /\ seenClaim(c) \in Claim
        BY ObjectTypes DEF BindInv
    <2>3. \A x \in Claim : x.uid \in Nat
        BY BoundsAssumption DEF Claim
    <2> QED
        BY <2>1, <2>2, <2>3, LaterFacts
<1>2. CASE UNCHANGED claimLog
    BY <1>1, <1>2 DEF ClaimsAdvance, claim, seenClaim
<1>3. ASSUME NEW c \in Claims, claimLog' = [claimLog EXCEPT ![c] = claimLog'[c]],
             Ordered(claimLog'[c]), Later(claim(c), Current(claimLog'[c])),
             seenClaim(c).uid <= Cached(claimLog'[c]).uid
      PROVE  ClaimsAdvance
    <2>1. \A d \in Claims \ {c} : claimLog'[d] = claimLog[d]
        BY <1>3 DEF BindInv, TypeOK
    <2> QED
        BY <1>1, <1>3, <2>1 DEF ClaimsAdvance, claim, seenClaim
<1>4. ASSUME NEW c \in Claims, NEW obj \in Claim, WriteClaim(c, obj), Later(claim(c), obj)
      PROVE  ClaimsAdvance
    <2>1. claimLog' = [claimLog EXCEPT ![c] = Write(claimLog[c], obj)]
          /\ claimLog'[c] = Write(claimLog[c], obj)
        BY <1>4 DEF WriteClaim, BindInv, TypeOK
    <2>2. /\ Current(Write(claimLog[c], obj)) = obj
          /\ Ordered(Write(claimLog[c], obj))
          /\ Cached(Write(claimLog[c], obj)) = Cached(claimLog[c])
        BY <1>1, <1>4, WriteFacts, OrderedFacts DEF claim
    <2> QED
        BY <1>1, <1>3, <1>4, <2>1, <2>2, Zenon DEF seenClaim
<1>5. CASE \E c \in Claims : DeliverClaim(c)
    <2>1. PICK c \in Claims : DeliverClaim(c)
        BY <1>5
    <2>2. claimLog' = [claimLog EXCEPT ![c] = Deliver(claimLog[c])] /\ Len(claimLog[c]) > 1
          /\ claimLog'[c] = Deliver(claimLog[c])
        BY <2>1 DEF DeliverClaim, BindInv, TypeOK
    <2>3. /\ Current(Deliver(claimLog[c])) = Current(claimLog[c])
          /\ Ordered(Deliver(claimLog[c]))
          /\ Later(Cached(claimLog[c]), Cached(Deliver(claimLog[c])))
        BY <1>1, <2>2, DeliverFacts, OrderedFacts
    <2> QED
        BY <1>1, <1>3, <2>2, <2>3, ZenonT(40) DEF Later, claim, seenClaim
<1>6. CASE Restart
    <2>1. \A c \in Claims : claimLog'[c] = Relist(claimLog[c])
        BY <1>6 DEF Restart
    <2>2. \A c \in Claims : /\ Current(Relist(claimLog[c])) = Current(claimLog[c])
                            /\ Ordered(Relist(claimLog[c]))
                            /\ Later(Cached(claimLog[c]), Cached(Relist(claimLog[c])))
        BY <1>1, VersionFacts, OrderedFacts
    <2> QED
        BY <1>1, <2>1, <2>2 DEF ClaimsAdvance, Later, claim, seenClaim
<1>7. CASE ClaimCall
    BY <1>2, <1>4, <1>7, ClaimCallFacts DEF UpdateClaim
<1>8. CASE \E c \in Claims : ClaimEnvironment(c)
    BY <1>4, <1>8, ClaimEnvironmentFacts DEF ChangeClaim
<1>9. CASE \E c \in Claims : Reconcile(c)
    BY <1>2, <1>9 DEF Reconcile, ReconcileGone, ReconcileDeleting, ReconcileNew,
                      ReconcileBound, ReconcilePending
<1>10. CASE ClearOrphan \/ ClearClaimRef \/ tryBind
    BY <1>2, <1>10 DEF ClearOrphan, ClearClaimRef, tryBind
<1>11. CASE \E m \in Machines : MachineEnvironment(m) \/ DeliverMachine(m)
    <2>1. PICK m \in Machines : MachineEnvironment(m) \/ DeliverMachine(m)
        BY <1>11
    <2>2. CASE MachineEnvironment(m)
        BY <1>2, <2>2, MachineEnvironmentFacts DEF ChangeMachine, BindInv
    <2>3. CASE DeliverMachine(m)
        BY <1>2, <2>3 DEF DeliverMachine
    <2> QED
        BY <2>1, <2>2, <2>3
<1>12. CASE UNCHANGED vars
    BY <1>2, <1>12 DEF vars
<1> QED
    BY <1>5, <1>6, <1>7, <1>8, <1>9, <1>10, <1>11, <1>12
    DEF Next, Users, MachineController, MachineEnvironment, ClaimEnvironment, WorkerCall,
        ClaimCall

\* What a step may do to the claimRef of m: leave it, or remove it with the
\* Machine or from a Machine whose claim is not live, or set it in tryBind.
RefFollows(m) ==
    \/ machine(m)'.claimRef = machine(m).claimRef
    \/ machine(m)'.claimRef = None /\ (~machine(m)'.exists \/ Doomed(m))
    \/ /\ worker.pc = "tryBind" /\ worker'.pc = "recordBound"
       /\ machine(m).claimRef = None
       /\ machine(m)'.claimRef = Ref(worker.c, worker.uid)

\* What a step does to every Machine.
MachinesFollow ==
    \A m \in Machines : /\ RefLasts(machineLog[m])'
                        /\ machine(m)'.claimRef # None => machine(m)'.exists
                        /\ RefFollows(m)

\* So every step does.
LEMMA StepFollowsMachines ==
    ASSUME BindInv, UnbindInv, [Next]_vars
    PROVE  MachinesFollow
<1>1. \A m \in Machines : /\ Len(machineLog[m]) >= 1 /\ machineLog[m] \in Seq(Machine)
                          /\ machine(m) \in Machine
                          /\ RefLasts(machineLog[m])
                          /\ machine(m).claimRef # None => machine(m).exists
    BY ObjectTypes, BoundsAssumption DEF BindInv, TypeOK, UnbindInv, RefIsSeen
<1>2. CASE UNCHANGED machineLog
    BY <1>1, <1>2 DEF MachinesFollow, RefFollows, machine
<1>3. ASSUME NEW m \in Machines, machineLog' = [machineLog EXCEPT ![m] = machineLog'[m]],
             RefLasts(machineLog'[m]),
             machine(m)'.claimRef # None => machine(m)'.exists,
             RefFollows(m)
      PROVE  MachinesFollow
    <2>1. \A n \in Machines \ {m} : machineLog'[n] = machineLog[n]
        BY <1>3 DEF BindInv, TypeOK
    <2>2. \A n \in Machines \ {m} : machine(n)' = machine(n) /\ RefLasts(machineLog'[n])
        BY <1>1, <2>1 DEF machine
    <2> QED
        BY <1>1, <1>3, <2>2 DEF MachinesFollow, RefFollows
<1>4. ASSUME NEW m \in Machines, NEW obj \in Machine, MayWriteMachine(m), WriteMachine(m, obj),
             \/ obj.claimRef \in {None, machine(m).claimRef}
             \/ UpToDate(machineLog[m]) /\ machine(m).claimRef = None,
             obj.claimRef # None => obj.exists,
             machine(m)' = obj => RefFollows(m)
      PROVE  MachinesFollow
    <2>1. machineLog' = [machineLog EXCEPT ![m] = Write(machineLog[m], obj)]
          /\ machineLog'[m] = Write(machineLog[m], obj)
        BY <1>4 DEF WriteMachine, BindInv, TypeOK
    <2>2. machine(m)' = obj
        BY <1>4, MachineWrite DEF BindInv
    <2>3. RefLasts(Write(machineLog[m], obj))
        BY <1>1, <1>4, RefLastsFacts DEF machine
    <2> QED
        BY <1>3, <1>4, <2>1, <2>2, <2>3, Zenon
<1>5. ASSUME NEW m \in Machines, PatchClaimRefAway(m), Doomed(m)
      PROVE  MachinesFollow
    <2> DEFINE obj == [machine(m) EXCEPT !.claimRef = None]
    <2>1. obj \in Machine /\ obj.claimRef = None
        BY <1>1 DEF Machine
    <2>2. MayWriteMachine(m) /\ WriteMachine(m, obj)
        BY <1>5 DEF PatchClaimRefAway
    <2>3. machine(m)' = obj => RefFollows(m)
        BY <1>5, <2>1 DEF RefFollows
    <2> HIDE DEF obj
    <2> QED
        BY <1>4, <2>1, <2>2, <2>3
<1>6. CASE ClearOrphan
    <2>1. First(worker.todo) \in Machines /\ First(worker.todo) \in worker.todo
          /\ worker.pc = "clearOrphans"
        BY <1>6, FirstFacts DEF ClearOrphan, BindInv, TypeOK, WorkerInv, Worker
    <2>2. Doomed(First(worker.todo))
        BY <2>1 DEF UnbindInv, CallInv
    <2> QED
        BY <1>2, <1>5, <1>6, <2>1, <2>2 DEF ClearOrphan
<1>7. CASE ClearClaimRef
    <2>1. worker.target \in Machines /\ Doomed(worker.target)
        BY <1>7 DEF ClearClaimRef, BindInv, WorkerInv, UnbindInv, CallInv
    <2> QED
        BY <1>2, <1>5, <1>7, <2>1 DEF ClearClaimRef
<1>8. CASE tryBind /\ ~UNCHANGED machineLog
    <2>1. worker.pc = "tryBind" /\ worker \in Worker /\ worker.c \in Claims
          /\ First(worker.todo) \in worker.todo /\ First(worker.todo) \in Machines
        BY <1>8, FirstFacts, Zenon DEF tryBind, BindInv, TypeOK, WorkerInv, Worker
    <2>2. PICK m \in Machines : m = First(worker.todo)
        BY <2>1
    <2> DEFINE obj == [machine(m) EXCEPT !.claimRef = Ref(worker.c, worker.uid)]
    <2>3. /\ m \in worker.fresh
          /\ MayWriteMachine(m)
          /\ WriteMachine(m, obj)
          /\ worker' = [worker EXCEPT !.pc = "recordBound", !.target = m,
                                      !.uid = 0, !.todo = {}, !.fresh = {}]
        BY <1>8, <2>2 DEF tryBind, Ref
    <2>4. worker'.pc = "recordBound"
        BY <2>1, <2>3 DEF Worker
    <2>5. UpToDate(machineLog[m]) /\ machineIsFreeAndAvailable(machine(m))
        BY <2>1, <2>2, <2>3 DEF UnbindInv, CallInv, BindInv, WorkerInv
    <2>6. Ref(worker.c, worker.uid) \in ClaimRef
        BY <2>1 DEF Ref, ClaimRef, Worker
    <2>7. obj \in Machine /\ obj.claimRef = Ref(worker.c, worker.uid)
          /\ obj.exists = machine(m).exists
        BY <1>1, <2>6 DEF Machine
    <2>8. machine(m)' = obj => RefFollows(m)
        BY <2>1, <2>4, <2>5, <2>7 DEF RefFollows, machineIsFreeAndAvailable
    <2>9. MayWriteMachine(m) /\ WriteMachine(m, obj) /\ machine(m).claimRef = None /\ obj.exists
        BY <2>3, <2>5, <2>7 DEF machineIsFreeAndAvailable
    <2> HIDE DEF obj
    <2> QED
        BY <1>4, <2>5, <2>7, <2>8, <2>9
<1>9. CASE \E m \in Machines : MachineEnvironment(m)
    <2>1. PICK m \in Machines : MachineEnvironment(m)
        BY <1>9
    <2>2. PICK obj \in Machine :
              /\ ChangeMachine(m, obj)
              /\ obj.claimRef \in {None, machine(m).claimRef}
              /\ obj.claimRef # None => obj.exists
              /\ machine(m).exists /\ obj.exists => obj.claimRef = machine(m).claimRef
        BY <2>1, MachineEnvironmentFacts DEF BindInv
    <2>3. machine(m)' = obj => RefFollows(m)
        BY <1>1, <2>2 DEF RefFollows
    <2> QED
        BY <1>4, <2>2, <2>3 DEF ChangeMachine
<1>10. CASE \E m \in Machines : DeliverMachine(m)
    <2>1. PICK m \in Machines : DeliverMachine(m)
        BY <1>10
    <2>2. machineLog' = [machineLog EXCEPT ![m] = Deliver(machineLog[m])] /\ Len(machineLog[m]) > 1
          /\ machineLog'[m] = Deliver(machineLog[m])
        BY <2>1 DEF DeliverMachine, BindInv, TypeOK
    <2>3. /\ Current(Deliver(machineLog[m])) = Current(machineLog[m])
          /\ RefLasts(Deliver(machineLog[m]))
        BY <1>1, <2>2, DeliverFacts, RefLastsFacts
    <2>4. machine(m)' = machine(m)
        BY <2>2, <2>3 DEF machine
    <2> QED
        BY <1>1, <1>3, <2>2, <2>3, <2>4, Zenon DEF RefFollows
<1>11. CASE Restart
    <2>1. \A m \in Machines : machineLog'[m] = Relist(machineLog[m])
        BY <1>11 DEF Restart
    <2>2. \A m \in Machines : /\ Current(Relist(machineLog[m])) = Current(machineLog[m])
                              /\ RefLasts(Relist(machineLog[m]))
        BY <1>1, VersionFacts, RefLastsFacts
    <2>3. \A m \in Machines : machine(m)' = machine(m)
        BY <2>1, <2>2 DEF machine
    <2> QED
        BY <1>1, <2>1, <2>2, <2>3 DEF MachinesFollow, RefFollows
<1>12. CASE ClaimCall
    BY <1>2, <1>12, ClaimCallFacts
<1>13. CASE \E c \in Claims : ClaimEnvironment(c) \/ DeliverClaim(c) \/ Reconcile(c)
    BY <1>2, <1>13, Zenon DEF ClaimEnvironment, CreateClaim, EditClaim, DeleteClaim, ChangeClaim,
                       DeliverClaim, Reconcile, ReconcileGone, ReconcileDeleting,
                       ReconcileNew, ReconcileBound, ReconcilePending
<1>14. CASE UNCHANGED vars
    BY <1>2, <1>14 DEF vars
<1> QED
    BY <1>2, <1>6, <1>7, <1>8, <1>9, <1>10, <1>11, <1>12, <1>13, <1>14
    DEF Next, Users, MachineController, MachineEnvironment, ClaimEnvironment, WorkerCall,
        ClaimCall

\* A Machine whose claim is not live stays one, unless tryBind takes it.
LEMMA DoomedStays ==
    ASSUME BindInv, BindInv', ClaimsAdvance, NEW m \in Machines, RefFollows(m), Doomed(m),
           worker.pc # "tryBind"
    PROVE  Doomed(m)'
<1>1. machine(m)'.claimRef \in {None, machine(m).claimRef}
    BY DEF RefFollows
<1>2. ASSUME NEW c \in Claims, NEW u \in Nat, Dying(c, u)
      PROVE  Dying(c, u)'
    <2>1. claim(c).uid \in Nat
        BY ObjectTypes, BoundsAssumption DEF BindInv, Claim
    <2>2. claim(c)'.uid \in Nat
        <3>1. Len(claimLog'[c]) >= 1 /\ claimLog'[c] \in Seq(Claim)
            BY BoundsAssumption DEF BindInv, TypeOK
        <3>2. Current(claimLog'[c]) \in Claim
            BY <3>1, VersionFacts
        <3> QED
            BY <3>2, BoundsAssumption DEF claim, Claim
    <2> QED
        BY <1>2, <2>1, <2>2 DEF Dying, ClaimsAdvance, Later
<1> QED
    BY <1>1, <1>2 DEF Doomed

\* The cached claim that a reconcile found gone or going decides for every uid
\* that the cache has not outrun.
LEMMA SeenOverIsDying ==
    ASSUME BindInv, UnbindInv, NEW c \in Claims, Over(seenClaim(c)),
           NEW u \in Nat, u <= seenClaim(c).uid
    PROVE  Dying(c, u)
<1>1. claim(c).uid \in Nat /\ seenClaim(c).uid \in Nat
    BY ObjectTypes, BoundsAssumption DEF BindInv, Claim
<1>2. Len(claimLog[c]) >= 1 /\ claimLog[c] \in Seq(Claim) /\ Ordered(claimLog[c])
    BY BoundsAssumption DEF BindInv, TypeOK, UnbindInv
<1>3. Later(seenClaim(c), claim(c))
    BY <1>2, OrderedFacts DEF seenClaim, claim
<1> QED
    BY <1>1, <1>3 DEF Later, Dying

\* A Machine that the cache shows bound to such a claim is doomed.
LEMMA SeenRefIsDoomed ==
    ASSUME BindInv, UnbindInv, NEW c \in Claims, Over(seenClaim(c)),
           NEW m \in Machines, seenMachine(m).claimRef # None, seenMachine(m).claimRef.name = c
    PROVE  Doomed(m)
<1>1. Len(machineLog[m]) >= 1 /\ machineLog[m] \in Seq(Machine) /\ RefLasts(machineLog[m])
    BY BoundsAssumption DEF BindInv, TypeOK, UnbindInv
<1>2. machine(m).claimRef \in {None, seenMachine(m).claimRef}
    BY <1>1, RefLastsFacts DEF machine, seenMachine
<1>3. ASSUME NEW d \in Claims, NEW u \in Nat, machine(m).claimRef # None,
             machine(m).claimRef = Ref(d, u)
      PROVE  Dying(d, u)
    <2>1. d = c
        <3>1. seenMachine(m).claimRef = Ref(d, u)
            BY <1>2, <1>3, Zenon
        <3>2. Ref(d, u).name = d
            BY Zenon DEF Ref
        <3> QED
            BY <3>1, <3>2, Zenon
    <2>2. u <= seenClaim(c).uid
        BY <1>3, <2>1 DEF UnbindInv, RefIsSeen
    <2> QED
        BY <2>1, <2>2, SeenOverIsDying
<1> QED
    BY <1>3 DEF Doomed

\* The reads of a reconcile establish what its calls rely on.
LEMMA ReconcileEstablishesCall ==
    ASSUME BindInv, UnbindInv, NEW c \in Claims, Reconcile(c)
    PROVE  CallInv'
<1>1. UNCHANGED <<machineLog, claimLog, restarts>>
    BY DEF Reconcile, ReconcileGone, ReconcileDeleting, ReconcileNew, ReconcileBound,
           ReconcilePending
<1>2. \A m \in Machines : Doomed(m) => Doomed(m)'
    BY <1>1 DEF Doomed, Dying, machine, claim
<1>3. ASSUME worker'.pc \notin {"tryBind", "clearOrphans", "clearClaimRef"}
      PROVE  CallInv'
    BY <1>3 DEF CallInv
<1>4. ASSUME NEW pc \in Step \ {"tryBind", "clearOrphans", "clearClaimRef"},
             worker' = Reads(c, pc)
      PROVE  CallInv'
    BY <1>3, <1>4, ReadsFacts DEF BindInv
<1>5. CASE worker' = Idle
    BY <1>3, <1>5 DEF Idle
<1>6. CASE ReconcileGone(c)
    <2> DEFINE orphans == {m \in Machines : /\ seenMachine(m).exists
                                            /\ seenMachine(m).claimRef # None
                                            /\ seenMachine(m).claimRef.name = c}
    <2>1. Over(seenClaim(c))
        BY <1>6 DEF ReconcileGone, Over
    <2>2. CASE worker' = [Reads(c, "clearOrphans") EXCEPT !.todo = orphans]
        <3>1. Reads(c, "clearOrphans") \in Worker
              /\ Reads(c, "clearOrphans").pc = "clearOrphans"
            BY ReadsFacts DEF Step, BindInv
        <3>2. worker'.pc = "clearOrphans" /\ worker'.todo = orphans
            BY <2>2, <3>1 DEF Worker
        <3>3. \A m \in orphans : m \in Machines /\ Doomed(m)
            BY <2>1, SeenRefIsDoomed
        <3> QED
            BY <1>2, <3>2, <3>3 DEF CallInv
    <2> QED
        BY <1>5, <1>6, <2>2 DEF ReconcileGone
<1>7. CASE ReconcileDeleting(c)
    <2>1. Over(seenClaim(c))
        BY <1>7 DEF ReconcileDeleting, Over
    <2>2. ASSUME NEW m \in findBoundMachine(c),
                 worker' = [Reads(c, "clearClaimRef") EXCEPT !.target = m]
          PROVE  CallInv'
        <3>1. Reads(c, "clearClaimRef") \in Worker
              /\ Reads(c, "clearClaimRef").pc = "clearClaimRef"
            BY ReadsFacts DEF Step, BindInv
        <3>2. worker'.pc = "clearClaimRef" /\ worker'.target = m
            BY <2>2, <3>1 DEF Worker
        <3>3. m \in Machines /\ seenMachine(m).claimRef # None /\ seenMachine(m).claimRef.name = c
            BY <2>2 DEF findBoundMachine, claimRefMatches
        <3>4. Doomed(m)
            BY <2>1, <3>3, SeenRefIsDoomed
        <3> QED
            BY <1>2, <3>2, <3>3, <3>4 DEF CallInv
    <2> QED
        BY <1>4, <1>5, <1>7, <2>2 DEF ReconcileDeleting, Step
<1>8. CASE ReconcileNew(c)
    BY <1>4, <1>8 DEF ReconcileNew, Step
<1>9. CASE ReconcileBound(c)
    <2>1. ASSUME NEW ready, worker' = [Reads(c, "mirror") EXCEPT !.ready = ready]
          PROVE  CallInv'
        <3>1. Reads(c, "mirror") \in Worker /\ Reads(c, "mirror").pc = "mirror"
            BY ReadsFacts DEF Step, BindInv
        <3>2. worker'.pc = "mirror"
            BY <2>1, <3>1 DEF Worker
        <3> QED
            BY <1>3, <3>2
    <2> QED
        BY <1>4, <1>5, <1>9, <2>1 DEF ReconcileBound, Step
<1>10. CASE ReconcilePending(c)
    <2>1. ASSUME NEW cands, worker' = ReadsToBind(c, cands)
          PROVE  CallInv'
        <3>1. Reads(c, "tryBind") \in Worker /\ Reads(c, "tryBind").pc = "tryBind"
              /\ Reads(c, "tryBind").c = c
            BY ReadsFacts DEF Step, BindInv
        <3>2. worker'.pc = "tryBind" /\ worker'.c = c /\ worker'.uid = seenClaim(c).uid
              /\ worker'.fresh = {m \in cands : UpToDate(machineLog[m])}
            BY <2>1, <3>1 DEF ReadsToBind, Worker
        <3>3. seenClaim(c)' = seenClaim(c) /\ seenClaim(c).uid \in Nat
            BY <1>1, ObjectTypes, BoundsAssumption DEF seenClaim, BindInv, Claim
        <3>4. worker'.uid <= seenClaim(worker.c)'.uid
            BY <3>2, <3>3 DEF seenClaim
        <3> QED
            BY <1>1, <3>2, <3>4 DEF CallInv
    <2>2. ASSUME NEW m, worker' = [Reads(c, "recordBound") EXCEPT !.target = m]
          PROVE  CallInv'
        <3>1. Reads(c, "recordBound") \in Worker /\ Reads(c, "recordBound").pc = "recordBound"
            BY ReadsFacts DEF Step, BindInv
        <3>2. worker'.pc = "recordBound"
            BY <2>2, <3>1 DEF Worker
        <3> QED
            BY <1>3, <3>2
    <2> QED
        BY <1>4, <1>10, <2>1, <2>2 DEF ReconcilePending, Step
<1> QED
    BY <1>6, <1>7, <1>8, <1>9, <1>10 DEF Reconcile

\* The calls, the caches and the environment keep what the reconcile in
\* progress relies on: writes and deletions only make its decision right.
LEMMA StepKeepsCall ==
    ASSUME BindInv, BindInv', UnbindInv, [Next]_vars, ClaimsAdvance, MachinesFollow
    PROVE  CallInv'
<1>1. worker \in Worker /\ CallInv /\ WorkerInv
    BY DEF BindInv, TypeOK, UnbindInv
<1>2. ASSUME worker'.pc \notin {"tryBind", "clearOrphans", "clearClaimRef"}
      PROVE  CallInv'
    BY <1>2 DEF CallInv
<1>3. CASE worker' = Idle
    BY <1>2, <1>3 DEF Idle
<1>4. ASSUME NEW m \in Machines, Doomed(m), worker.pc # "tryBind"
      PROVE  Doomed(m)'
    BY <1>4, DoomedStays DEF MachinesFollow
\* The reconcile waits for its next call while others move.
<1>5. ASSUME worker'.pc = worker.pc, worker'.c = worker.c, worker'.uid = worker.uid,
             worker'.target = worker.target, worker'.todo \subseteq worker.todo,
             \A m \in worker'.todo \cap worker'.fresh :
                m \in worker.fresh /\ (UpToDate(machineLog[m]) => UpToDate(machineLog'[m]))
      PROVE  CallInv'
    <2>1. CASE worker.pc = "tryBind"
        <3>1. worker.c \in Claims /\ worker.uid <= seenClaim(worker.c).uid
              /\ worker.uid \in Nat
            BY <1>1, <2>1, BoundsAssumption DEF CallInv, WorkerInv, Worker
        <3>2. PICK c \in Claims : c = worker.c
            BY <3>1
        <3>3. seenClaim(c).uid <= seenClaim(c)'.uid /\ seenClaim(c).uid \in Nat
            BY ObjectTypes, BoundsAssumption DEF ClaimsAdvance, BindInv, Claim
        <3>4. seenClaim(c)'.uid \in Nat
            <4>1. Len(claimLog'[c]) >= 1 /\ claimLog'[c] \in Seq(Claim)
                BY BoundsAssumption DEF BindInv, TypeOK
            <4>2. Cached(claimLog'[c]) \in Claim
                BY <4>1, VersionFacts
            <4> QED
                BY <4>2, BoundsAssumption DEF seenClaim, Claim
        <3>5. worker.uid <= seenClaim(c)'.uid
            BY <3>1, <3>2, <3>3, <3>4
        <3>6. worker'.uid <= seenClaim(worker.c)'.uid
            BY <1>5, <3>2, <3>5 DEF seenClaim
        <3>7. \A m \in worker'.todo \cap worker'.fresh : UpToDate(machineLog'[m])
            BY <1>1, <1>5, <2>1 DEF CallInv
        <3> QED
            BY <1>5, <2>1, <3>6, <3>7 DEF CallInv
    <2>2. CASE worker.pc = "clearOrphans"
        <3>1. \A m \in worker'.todo : m \in Machines /\ Doomed(m)
            BY <1>1, <1>5, <2>2 DEF CallInv, Worker
        <3>2. \A m \in worker'.todo : Doomed(m)'
            BY <1>4, <2>2, <3>1
        <3> QED
            BY <1>5, <2>2, <3>2 DEF CallInv
    <2>3. CASE worker.pc = "clearClaimRef"
        <3>1. worker.target \in Machines /\ Doomed(worker.target)
            BY <1>1, <2>3 DEF CallInv, WorkerInv
        <3>2. PICK m \in Machines : m = worker.target
            BY <3>1
        <3>3. Doomed(m)'
            BY <1>4, <2>3, <3>1, <3>2
        <3>4. Doomed(worker.target)'
            BY <1>5, <3>2, <3>3
        <3> QED
            BY <1>5, <2>3, <3>4 DEF CallInv
    <2> QED
        BY <1>2, <1>5, <2>1, <2>2, <2>3
<1>6. CASE UNCHANGED <<worker, machineLog>>
    BY <1>5, <1>6
<1>7. CASE \E c \in Claims : Reconcile(c)
    BY <1>7, ReconcileEstablishesCall
<1>8. CASE ClaimCall
    BY <1>3, <1>8, ClaimCallFacts
<1>9. CASE \E c \in Claims : ClaimEnvironment(c)
    <2>1. PICK c \in Claims : ClaimEnvironment(c)
        BY <1>9
    <2>2. PICK obj \in Claim : ChangeClaim(c, obj)
        BY <2>1, ClaimEnvironmentFacts
    <2>3. PICK b : worker' = [worker EXCEPT !.claimFresh = b]
        BY <2>2, ZenonT(40) DEF ChangeClaim, ClaimWritten
    <2>4. /\ worker'.pc = worker.pc /\ worker'.c = worker.c /\ worker'.uid = worker.uid
          /\ worker'.todo = worker.todo /\ worker'.target = worker.target
          /\ worker'.fresh = worker.fresh
        BY <1>1, <2>3 DEF Worker
    <2>5. UNCHANGED machineLog
        BY <2>2 DEF ChangeClaim
    <2> QED
        BY <1>5, <2>4, <2>5
<1>10. CASE \E m \in Machines : MachineEnvironment(m)
    <2>1. PICK m \in Machines : MachineEnvironment(m)
        BY <1>10
    <2>2. PICK obj \in Machine : ChangeMachine(m, obj)
        BY <2>1, MachineEnvironmentFacts DEF BindInv
    <2>3. worker' = [worker EXCEPT !.fresh = worker.fresh \ {m}]
        BY <2>2 DEF ChangeMachine, MachineWritten
    <2>4. /\ worker'.pc = worker.pc /\ worker'.c = worker.c /\ worker'.uid = worker.uid
          /\ worker'.todo = worker.todo /\ worker'.target = worker.target
          /\ worker'.fresh = worker.fresh \ {m} /\ worker.todo \in SUBSET Machines
        BY <1>1, <2>3 DEF Worker
    <2>5. \A n \in Machines \ {m} : machineLog'[n] = machineLog[n]
        BY <2>2 DEF ChangeMachine, WriteMachine, BindInv, TypeOK
    <2>6. \A n \in worker'.todo \cap worker'.fresh : n \in worker.fresh /\ n \in Machines \ {m}
        BY <2>4
    <2> QED
        BY <1>5, <2>4, <2>5, <2>6
<1>11. CASE \E m \in Machines : DeliverMachine(m)
    <2>1. PICK m \in Machines : DeliverMachine(m)
        BY <1>11
    <2>2. /\ UNCHANGED worker /\ Len(machineLog[m]) > 1
          /\ machineLog' = [machineLog EXCEPT ![m] = Deliver(machineLog[m])]
        BY <2>1 DEF DeliverMachine
    <2>3. \A n \in Machines \ {m} : machineLog'[n] = machineLog[n]
        BY <2>2 DEF BindInv, TypeOK
    <2>4. ~UpToDate(machineLog[m])
        <3>1. Len(machineLog[m]) \in Nat
            BY DEF BindInv, TypeOK
        <3>2. Len(machineLog[m]) # 1
            BY <2>2, <3>1
        <3> QED
            BY <3>2 DEF UpToDate
    <2>5. worker.todo \in SUBSET Machines
        BY <1>1 DEF Worker
    <2> QED
        BY <1>5, <2>2, <2>3, <2>4, <2>5
<1>12. CASE \E c \in Claims : DeliverClaim(c)
    BY <1>6, <1>12 DEF DeliverClaim
<1>13. CASE Restart
    BY <1>3, <1>13 DEF Restart
<1>14. CASE ClearOrphan
    <2>1. CASE worker' = [worker EXCEPT !.todo = @ \ {First(worker.todo)}]
        <3>1. /\ worker'.pc = worker.pc /\ worker'.c = worker.c /\ worker'.uid = worker.uid
              /\ worker'.target = worker.target /\ worker'.todo \subseteq worker.todo
              /\ worker.pc = "clearOrphans" /\ worker.todo \in SUBSET Machines
            BY <1>1, <1>14, <2>1 DEF Worker, ClearOrphan
        <3>2. \A m \in worker'.todo : m \in Machines /\ Doomed(m)
            BY <1>1, <3>1 DEF CallInv
        <3>3. \A m \in worker'.todo : Doomed(m)'
            BY <1>4, <3>1, <3>2
        <3> QED
            BY <3>1, <3>3 DEF CallInv
    <2> QED
        BY <1>3, <1>14, <2>1 DEF ClearOrphan, Requeue
<1>15. CASE ClearClaimRef
    <2>1. CASE worker' = [worker EXCEPT !.pc = "removeFinalizer", !.target = None]
        <3>1. worker'.pc = "removeFinalizer"
            BY <1>1, <2>1 DEF Worker
        <3> QED
            BY <1>2, <3>1
    <2> QED
        BY <1>3, <1>15, <2>1 DEF ClearClaimRef, Requeue
<1>16. CASE tryBind
    <2>1. ASSUME NEW m, worker' = [worker EXCEPT !.pc = "recordBound", !.target = m,
                                                 !.uid = 0, !.todo = {}, !.fresh = {}]
          PROVE  CallInv'
        <3>1. worker'.pc = "recordBound"
            BY <1>1, <2>1 DEF Worker
        <3> QED
            BY <1>2, <3>1
    <2>2. CASE worker' = [worker EXCEPT !.pc = "markNoCandidate", !.uid = 0, !.todo = {}]
        <3>1. worker'.pc = "markNoCandidate"
            BY <1>1, <2>2 DEF Worker
        <3> QED
            BY <1>2, <3>1
    <2>3. CASE worker' = [worker EXCEPT !.todo = @ \ {First(worker.todo)}] /\ UNCHANGED machineLog
        <3>1. /\ worker'.pc = worker.pc /\ worker'.c = worker.c /\ worker'.uid = worker.uid
              /\ worker'.target = worker.target /\ worker'.todo \subseteq worker.todo
              /\ worker'.fresh = worker.fresh
            BY <1>1, <2>3 DEF Worker
        <3> QED
            BY <1>5, <2>3, <3>1
    <2> QED
        BY <1>3, <1>16, <2>1, <2>2, <2>3, Zenon DEF tryBind, Requeue
<1>17. CASE UNCHANGED vars
    BY <1>6, <1>17 DEF vars
<1> QED
    BY <1>7, <1>8, <1>9, <1>10, <1>11, <1>12, <1>13, <1>14, <1>15, <1>16, <1>17
    DEF Next, Users, MachineController, MachineEnvironment, ClaimEnvironment, WorkerCall,
        ClaimCall

\* No step takes a claimRef ahead of the cache.
LEMMA StepKeepsRefSeen ==
    ASSUME BindInv, BindInv', UnbindInv, ClaimsAdvance, MachinesFollow, NEW m \in Machines
    PROVE  RefIsSeen(m)'
<1>1. SUFFICES ASSUME machine(m)'.claimRef # None,
                      NEW c \in Claims, NEW u \in Nat, machine(m)'.claimRef = Ref(c, u)
               PROVE  u <= seenClaim(c)'.uid
    BY DEF RefIsSeen, MachinesFollow
<1>2. seenClaim(c).uid \in Nat /\ seenClaim(c).uid <= seenClaim(c)'.uid
    BY ObjectTypes, BoundsAssumption DEF BindInv, Claim, ClaimsAdvance
<1>3. seenClaim(c)'.uid \in Nat
    <2>1. Len(claimLog'[c]) >= 1 /\ claimLog'[c] \in Seq(Claim)
        BY BoundsAssumption DEF BindInv, TypeOK
    <2>2. Cached(claimLog'[c]) \in Claim
        BY <2>1, VersionFacts
    <2> QED
        BY <2>2, BoundsAssumption DEF seenClaim, Claim
<1>4. CASE machine(m)'.claimRef = machine(m).claimRef
    <2>1. u <= seenClaim(c).uid
        BY <1>1, <1>4, Zenon DEF UnbindInv, RefIsSeen
    <2> QED
        BY <1>2, <1>3, <2>1
<1>5. CASE worker.pc = "tryBind" /\ machine(m)'.claimRef = Ref(worker.c, worker.uid)
    <2>1. c = worker.c /\ u = worker.uid
        BY <1>1, <1>5 DEF Ref
    <2>2. u <= seenClaim(c).uid
        BY <1>5, <2>1 DEF UnbindInv, CallInv
    <2> QED
        BY <1>2, <1>3, <2>2
<1> QED
    BY <1>1, <1>4, <1>5 DEF MachinesFollow, RefFollows

\* Every step keeps the invariant.
LEMMA NextKeepsUnbindInv == BindInv /\ UnbindInv /\ [Next]_vars => UnbindInv'
<1> SUFFICES ASSUME BindInv, UnbindInv, [Next]_vars PROVE UnbindInv'
    OBVIOUS
<1>1. BindInv'
    BY NextKeepsInv
<1>2. ClaimsAdvance
    BY StepAdvancesClaims DEF UnbindInv
<1>3. MachinesFollow
    BY StepFollowsMachines
<1>4. \A m \in Machines : RefIsSeen(m)'
    BY <1>1, <1>2, <1>3, StepKeepsRefSeen
<1>5. CallInv'
    BY <1>1, <1>2, <1>3, StepKeepsCall
<1> QED
    BY <1>2, <1>3, <1>4, <1>5 DEF UnbindInv, ClaimsAdvance, MachinesFollow

\* The invariant holds at the start: nothing exists and nothing is bound.
LEMMA InitEstablishesUnbindInv == Init => UnbindInv
<1> SUFFICES ASSUME Init PROVE UnbindInv
    OBVIOUS
<1>1. \A c \in Claims : Ordered(claimLog[c])
    <2>1. NoClaim(0) \in Claim
        BY ZeroFacts, Zenon DEF NoClaim, NewClaim, Claim, Phase
    <2>2. Later(NoClaim(0), NoClaim(0))
        BY <2>1, LaterFacts
    <2> QED
        BY <2>2 DEF Init, Ordered
<1>2. \A m \in Machines : machineLog[m] = <<NoMachine(0)>> /\ NoMachine(0).claimRef = None
    BY Zenon DEF Init, NoMachine, NewMachine
<1>3. \A m \in Machines : RefLasts(machineLog[m]) /\ RefIsSeen(m)
    <2>1. ASSUME NEW m \in Machines PROVE RefLasts(machineLog[m]) /\ RefIsSeen(m)
        <3>1. PICK l : l = machineLog[m]
            OBVIOUS
        <3>2. Len(l) = 1 /\ l[1].claimRef = None
            BY <1>2, <3>1
        <3>3. RefLasts(l)
            BY <3>2 DEF RefLasts
        <3>4. machine(m).claimRef = None
            BY <3>1, <3>2 DEF machine, Current
        <3> QED
            BY <3>1, <3>3, <3>4, Zenon DEF RefIsSeen
    <2> QED
        BY <2>1, Zenon
<1>4. CallInv
    BY DEF Init, CallInv, Idle
<1> QED
    BY <1>1, <1>3, <1>4 DEF UnbindInv

\* A live claim never loses a Machine that goes on existing, for any number of
\* Machines and claims, however stale the caches that onDelete and
\* clearOrphanedClaimRefs decide on, and whatever is created again in between.
THEOREM LiveClaimsKeepTheirMachine == Spec => NeverUnbindsLive
<1> DEFINE Inv == BindInv /\ UnbindInv
<1>1. Init => Inv
    BY InitEstablishesInv, InitEstablishesUnbindInv
<1>2. Inv /\ [Next]_vars => Inv'
    BY NextKeepsInv, NextKeepsUnbindInv
<1>3. Inv /\ [Next]_vars =>
        [\A m \in Machines, c \in Claims, u \in 1..MaxUid :
            (RefChanges(m, [name |-> c, uid |-> u]) /\ machine(m)'.exists)
              => ~(claim(c).exists /\ ~claim(c).deleting /\ claim(c).uid = u)]_vars
    <2> SUFFICES ASSUME BindInv, UnbindInv, [Next]_vars,
                        NEW m \in Machines, NEW c \in Claims, NEW u \in 1..MaxUid,
                        RefChanges(m, [name |-> c, uid |-> u]), machine(m)'.exists
                 PROVE  ~(claim(c).exists /\ ~claim(c).deleting /\ claim(c).uid = u)
        OBVIOUS
    <2>1. RefFollows(m)
        BY StepFollowsMachines DEF MachinesFollow
    <2>2. u \in Nat /\ machine(m).claimRef = Ref(c, u) /\ machine(m)'.claimRef # Ref(c, u)
        <3>1. u \in Nat
            BY BoundsAssumption
        <3> QED
            BY <3>1, Zenon DEF RefChanges, Ref
    <2>3. machine(m).claimRef # None
        BY <2>2, NoneAssumption DEF Ref
    <2>4. Doomed(m)
        BY <2>1, <2>2, <2>3 DEF RefFollows
    <2> QED
        BY <2>2, <2>3, <2>4 DEF Doomed, Dying, Over
<1> QED
    BY <1>1, <1>2, <1>3, PTL DEF Spec, NeverUnbindsLive
=============================================================================
