------------------------------ MODULE Redeploy -------------------------------
(***************************************************************************)
(* When a bound Machine is deployed again.  The Machine reconciler         *)
(* resolves the claim's plan and starts a DeployRun when the intent        *)
(* differs from the last successful run's record; the DeployRun reconciler *)
(* collects old runs; registrations, claim edits and the cluster change    *)
(* what the plan resolves to.  A run that is collected while the Machine   *)
(* names it, or a plan that resolves otherwise without a change of intent, *)
(* wipes the disk again.                                                   *)
(*                                                                         *)
(* Sources: internal/controller/machine_controller.go (reconcileIdle,      *)
(* reconcileProvisioning), internal/controller/deployrun_controller.go and *)
(* internal/agentserver/server.go (ensureMachineHardware).                 *)
(***************************************************************************)
EXTENDS PlanBuild

CONSTANTS
    Worlds,      \* the clusters to start in, as PlanBuild describes them
    Claims,      \* the specs the claim may be edited to
    Inventories, \* the disks a registration may report
    Retain,      \* retainedRunsPerMachine
    MaxRuns, MaxMoves, MaxMishaps, MaxTime

Slots == [number : Nat, role : STRING, content : BOOLEAN]
Steps == [kind : STRING, family : STRING, source : STRING, needs : SUBSET STRING, part : BOOLEAN]

\* A cluster in which every Image and PostHook that is named exists.
IsCluster(w) ==
    /\ w \in [claim : Claims, hardware : Inventories,
              images : [DOMAIN w.images -> [state : {"pending", "ready"}, slots : Seq(Slots),
                                            hooks : Seq(DOMAIN w.hooks), family : STRING,
                                            params : {None} \cup SUBSET STRING]],
              hooks : [DOMAIN w.hooks -> [state : {"invalid", "valid"}, steps : Seq(Steps),
                                          defaults : SUBSET STRING]],
              content : {"pending", "unhashed", "ready"},
              site : {"broken", "unseeded", "starting", "serving"}]
    /\ DefaultHook \in DOMAIN w.hooks
    /\ \A c \in Claims : /\ c.os \in {None} \cup DOMAIN w.images
                         /\ c.data \in Seq(Range(c.data))
                         /\ \A s \in Range(c.data) : s.image \in DOMAIN w.images
                         /\ c.hooks \in Seq(DOMAIN w.hooks)

ASSUME WorldsAreClusters == \A w \in Worlds : IsCluster(w)
\* The kernel gives no two disks one name.
ASSUME DisksHaveNames ==
    \A hw \in Inventories \ {None} : IsInjective([i \in DOMAIN hw |-> hw[i].dev])
ASSUME NoneIsNoRun == None \notin 1..MaxRuns

VARIABLES
    world,    \* the cluster the plan is resolved in
    runs,     \* DeployRun name -> [at, os, data, hash, disks, made]; made is the cluster then
    machine,  \* [state, current, last, attempted] of the Machine's status
    starting, \* the run created whose name is not in the status yet
    cache,    \* the Machine's status as the DeployRun reconciler reads it
    now,      \* in units of minRunAgeBeforeGC
    spent

vars == <<world, runs, machine, starting, cache, now, spent>>

Names == 1..MaxRuns
Idle == machine.state = "Idle" /\ starting = None
LastRun == {runs[n] : n \in {machine.last} \cap DOMAIN runs}
Spend(f) == spent' = [spent EXCEPT ![f] = @ + 1]

(***************************************************************************)
(* Machine reconciler.                                                     *)
(***************************************************************************)
\* createDeployRun.  Names are generated, so their order tells nothing of the runs' age.
CreateRun ==
    LET b == Build(world)
    IN /\ b.err = "none"
       /\ \E name \in Names \ spent.names :
            /\ runs' = [n \in DOMAIN runs \cup {name} |->
                          IF n # name THEN runs[n]
                          ELSE [at |-> now, os |-> world.claim.os, data |-> world.claim.data,
                                hash |-> b.snapshot.hash, disks |-> b.snapshot.disks,
                                made |-> world]]
            /\ starting' = name
            /\ spent' = [spent EXCEPT !.names = @ \cup {name}]
       /\ UNCHANGED <<world, machine, cache, now>>

\* reconcileIdle: lastSuccessfulRun, imageReadyForProvisioning, currentHooksHash, the trigger
Trigger ==
    LET s == BuildSnapshot(world)
    IN /\ Idle /\ s.err = "none"
       /\ shouldProvision(world.claim, LastRun, s.snapshot.hash)
       /\ CreateRun

\* reconcileProvisioning without a currentRunRef
StartOver == machine.state = "Provisioning" /\ machine.current = None /\ starting = None /\ CreateRun

\* startProvisioningRun, the status write
RecordRun ==
    /\ starting # None
    /\ machine' = [machine EXCEPT !.state = "Provisioning", !.current = starting]
    /\ starting' = None
    /\ UNCHANGED <<world, runs, cache, now, spent>>

\* The status write fails, or the manager stops before it: nothing names the run.
RecordFails ==
    /\ starting # None /\ spent.mishaps < MaxMishaps
    /\ starting' = None
    /\ Spend("mishaps")
    /\ UNCHANGED <<world, runs, machine, cache, now>>

Provisions == machine.state = "Provisioning" /\ machine.current \in DOMAIN runs

\* reconcileProvisioning: Provision is Complete, or Failed and retried in place
Completes ==
    /\ Provisions
    /\ machine' = [machine EXCEPT !.state = "Idle", !.last = machine.current,
                                 !.attempted = machine.current]
    /\ UNCHANGED <<world, runs, starting, cache, now, spent>>
Fails ==
    /\ Provisions /\ machine.attempted # machine.current
    /\ machine' = [machine EXCEPT !.attempted = machine.current]
    /\ UNCHANGED <<world, runs, starting, cache, now, spent>>

\* recordCurrentRunDeleted
RunIsGone ==
    /\ machine.state = "Provisioning" /\ machine.current \notin DOMAIN runs \cup {None}
    /\ machine' = [machine EXCEPT !.current = None]
    /\ UNCHANGED <<world, runs, starting, cache, now, spent>>

(***************************************************************************)
(* DeployRun reconciler.                                                   *)
(***************************************************************************)
protectedRunNames(m) == {m.current, m.last, m.attempted} \ {None}

Newer(a, b) == runs[a].at > runs[b].at \/ (runs[a].at = runs[b].at /\ a > b)

\* Mutant: a run of any age is collected.
collectAnyAge(m) ==
    {n \in DOMAIN runs : /\ Cardinality({o \in DOMAIN runs : Newer(o, n)}) >= Retain
                         /\ n \notin protectedRunNames(m)}
runsToGC(m) ==
    {n \in DOMAIN runs : /\ Cardinality({o \in DOMAIN runs : Newer(o, n)}) >= Retain
                         /\ n \notin protectedRunNames(m)
                         /\ now - runs[n].at >= 1}

\* Reconcile.  The Machine is read from the cache; a run the cached list does not hold yet is
\* not collected either way.
Collect ==
    /\ DOMAIN runs # {} /\ runsToGC(cache) # {}
    /\ runs' = Restrict(runs, DOMAIN runs \ runsToGC(cache))
    /\ UNCHANGED <<world, machine, starting, cache, now, spent>>

(***************************************************************************)
(* Agent, cluster and users.                                               *)
(***************************************************************************)
Moves == spent.moves < MaxMoves /\ Spend("moves")
Becomes(w) == w # world /\ world' = w /\ UNCHANGED <<runs, machine, starting, cache, now>>

\* ensureMachineHardware: every registration replaces the inventory.
Register == Moves /\ \E hw \in Inventories : Becomes([world EXCEPT !.hardware = hw])

EditClaim == Moves /\ \E c \in Claims : Becomes([world EXCEPT !.claim = c])

\* Contents, seeders, Images and PostHooks become ready, or stop to be.
ClusterMoves ==
    /\ Moves
    /\ \/ \E c \in {"unhashed", "ready"} : Becomes([world EXCEPT !.content = c])
       \/ \E s \in {"starting", "serving"} : Becomes([world EXCEPT !.site = s])
       \/ \E i \in DOMAIN world.images, s \in {"pending", "ready"} :
            Becomes([world EXCEPT !.images[i].state = s])
       \/ \E h \in DOMAIN world.hooks, s \in {"invalid", "valid"} :
            Becomes([world EXCEPT !.hooks[h].state = s])

OperatorDeletes ==
    /\ spent.mishaps < MaxMishaps
    /\ \E n \in DOMAIN runs : /\ runs' = Restrict(runs, DOMAIN runs \ {n})
                              /\ spent' = [spent EXCEPT !.mishaps = @ + 1, !.deleted = @ \cup {n}]
    /\ UNCHANGED <<world, machine, starting, cache, now>>

Deliver ==
    /\ cache # machine /\ cache' = machine
    /\ UNCHANGED <<world, runs, machine, starting, now, spent>>

\* The bound outlasts "one status write plus cache propagation": neither takes all of it.
Tick ==
    /\ now < MaxTime /\ starting = None /\ cache = machine
    /\ now' = now + 1
    /\ UNCHANGED <<world, runs, machine, starting, cache, spent>>

Init ==
    /\ world \in Worlds
    /\ runs = <<>> /\ starting = None /\ now = 0
    /\ machine = [state |-> "Idle", current |-> None, last |-> None, attempted |-> None]
    /\ cache = machine
    /\ spent = [names |-> {}, deleted |-> {}, moves |-> 0, mishaps |-> 0]
Next ==
    \/ Trigger \/ StartOver \/ RecordRun \/ RecordFails \/ Completes \/ Fails \/ RunIsGone
    \/ Collect
    \/ Register \/ EditClaim \/ ClusterMoves \/ OperatorDeletes \/ Deliver \/ Tick
Spec == Init /\ [][Next]_vars

(***************************************************************************)
(* Properties.                                                             *)
(***************************************************************************)
\* Collecting old runs never takes one the Machine's status names, or one whose name is about
\* to be written there, though the Machine is read from a cache (deployrun_controller.go: "a
\* live run briefly has nothing naming it").
ReferencedRunStays ==
    ({machine.current, machine.last, machine.attempted, starting} \ {None})
      \subseteq DOMAIN runs \cup spent.deleted

\* What users asked for, and the disks it is for.
Asked(w) ==
    [claim |-> w.claim, hardware |-> w.hardware,
     images |-> [i \in DOMAIN w.images |-> [w.images[i] EXCEPT !.state = "ready"]],
     hooks |-> [h \in DOMAIN w.hooks |-> [w.hooks[h] EXCEPT !.state = "valid"]]]

\* An idle Machine that was deployed is deployed again only when the claim, an Image, a
\* PostHook or the disks changed since, or an operator deleted its last run; what the seeder,
\* the contents or the collection of old runs do never wipes the disk (shouldProvision,
\* intentSubsetEqual).
RedeployHasACause ==
    [][\A n \in DOMAIN runs' \ DOMAIN runs :
         machine.state = "Idle" /\ machine.last # None =>
           \/ machine.last \in spent.deleted
           \/ \E run \in LastRun : Asked(run.made) # Asked(world)]_vars

\* While nothing asked for has changed and its Images and PostHooks are ready, the snapshot of
\* a deployed Machine resolves, to the hash its last run recorded, whether or not a seeder is
\* up: it neither flaps to delayed nor redeploys (BuildSnapshot, resolveImage's withSlots).
IdleIsQuiet ==
    \A run \in LastRun :
      /\ Idle /\ Asked(run.made) = Asked(world)
      /\ \A i \in DOMAIN world.images : world.images[i].state = "ready"
      /\ \A h \in DOMAIN world.hooks : world.hooks[h].state = "valid"
      => BuildSnapshot(world) =
           [err |-> "none", snapshot |-> [disks |-> run.disks, hash |-> run.hash]]

Physical(w, dev) == {<<d.serial, IF d.serial = "" THEN d.dev ELSE "">> :
                       d \in {e \in Range(w.hardware) : e.dev = dev}}

\* The images of a run go to as many different disks, even when one disk is reported under two
\* names (checkDistinctDisks: "two or more selections resolved to the same physical disk").
ImagesGetTheirOwnDisk ==
    \A n \in DOMAIN runs : \A i, j \in DOMAIN runs[n].disks :
      i # j => Physical(runs[n].made, runs[n].disks[i]) # Physical(runs[n].made, runs[n].disks[j])

\* The cluster when all that is waited for has come.
Ripe(w) ==
    [claim |-> w.claim, images |-> Asked(w).images, hooks |-> Asked(w).hooks,
     hardware |-> IF w.hardware = None THEN CHOOSE hw \in Inventories : hw # None ELSE w.hardware,
     content |-> "ready", site |-> IF w.site = "broken" THEN "broken" ELSE "serving"]

\* A plan error that fails the deploy is not one that waiting would cure: a plan refused for
\* its disks or its contents is refused still when every object it waited for is there
\* (errors.go: NotReadyError against DiskSelectionError and ValidationError).
PermanentErrorsStay ==
    Build(world).err \in {"Validation", "DiskSelection"} => Build(Ripe(world)).err # "none"

\* The claim's hardware selector accepts the disks exactly when each of its entries can be
\* given a disk of its own (disksSatisfy: "every entry in reqs matches a distinct disk").
SelectorFindsDisks ==
    world.hardware # None =>
      LET reqs == world.claim.selector
          disks == world.hardware
      IN disksSatisfy(disks, reqs) =
           \E f \in [DOMAIN reqs -> DOMAIN disks] :
             IsInjective(f) /\ \A i \in DOMAIN reqs : diskMatchesRequirement(disks[f[i]], reqs[i])

(***************************************************************************)
(* What the code does not keep.                                            *)
(***************************************************************************)
Unnamed(w) == [Asked(w) EXCEPT !.hardware =
                 IF @ = None THEN {} ELSE {[d EXCEPT !.dev = ""] : d \in Range(@)}]

\* machine_controller.go: "device names are not stable across boots, and a re-resolution must
\* never diff into a disk-wiping redeploy".  The hash of the resolved hooks holds the name.
RenameIsNoTrigger ==
    [][\A n \in DOMAIN runs' \ DOMAIN runs :
         machine.state = "Idle" /\ machine.last # None =>
           \/ machine.last \in spent.deleted
           \/ \E run \in LastRun : Unnamed(run.made) # Unnamed(world)]_vars
==============================================================================
