------------------------------- MODULE Seeding -------------------------------
(***************************************************************************)
(* Seeders on demand.  For every Site at which a Machine is about to       *)
(* deploy a Ready Image, the Image controller runs one seeder Deployment;  *)
(* when the demand ends it waits out a grace period and deletes it.  The   *)
(* controller is driven by events: its work queue, its requeue timer and   *)
(* the caches it reads are modelled, and so are the objects other          *)
(* controllers write (claims, Machines, DeployRuns, Sites, pods).  Status  *)
(* conditions that no controller reads are operators of the state.         *)
(*                                                                         *)
(* A reconcile reads only caches.  Delivering an event late is the same as *)
(* reading the cache early, so one reconcile of the Image is one step.     *)
(*                                                                         *)
(* Sources: internal/controller/{image_seeder*,seeder_demand,image_status, *)
(* partitioncontent_seeder,partitioncontent_demand,site_controller}.go,    *)
(* internal/sitederive/sitederive.go and cmd/seeder/main.go.               *)
(***************************************************************************)
EXTENDS Integers, FiniteSets, FiniteSetsExt

CONSTANTS
    Machines, Sites,
    SiteOf,       \* Machine -> the Site of its Subnet
    Grace,        \* the seeder grace period, in ticks longer than the second its stamp is rounded to
    MaxClaims,    \* bound: claims that name the Image
    MaxEdits,     \* bound: what operators change
    MaxMishaps,   \* bound: failed API calls, manager restarts
    MaxLag,       \* bound: Machines of which the cache has not seen the latest write
    SeederImage,  \* whether the manager has a seeder image
    None

ASSUME SiteAssumption == SiteOf \in [Machines -> Sites]
ASSUME BoundsAssumption ==
    Grace \in Nat \ {0} /\ MaxClaims \in Nat /\ MaxEdits \in Nat /\ MaxMishaps \in Nat
    /\ MaxLag \in Nat \ {0}

VARIABLES
    obj,        \* Machine -> its claim, the Machine itself, its DeployRun
    seen,       \* the manager's cache of those, and of the Deployments
    site,       \* Site -> its seeding Subnet and tracker, as the cache shows them
    dep,        \* Site -> the Deployment under the seeder's name, or None
    queued,     \* a request to reconcile the Image waits
    timer,      \* seconds until the Image is requeued, or None
    broken,     \* Sites where a reconcile saw demand during the present countdown
    spent       \* bounds used, and what has happened

vars == <<obj, seen, site, dep, queued, timer, broken, spent>>

Owner == {"image", "survivor", "stranger"}
Deployment == [owner : Owner, deleting : BOOLEAN, up : {"starting", "available", "stalled"},
               url : 0..2, empty : -1..Grace]
ASSUME NoneAssumption == None \notin Deployment

\* A Machine: the intent its claim states (0: no claim), whether the claim is being deleted,
\* whether the Machine is bound to it, its state and last successful run's intent, and its
\* latest DeployRun.
Target == [claim : 0..2, leaving : BOOLEAN, bound : BOOLEAN, last : 0..2,
           state : {"idle", "provisioning", "provisioned"}, run : 0..2, active : BOOLEAN]

TypeOK ==
    /\ obj \in [Machines -> Target]
    /\ seen.obj \in [Machines -> Target]
    /\ seen.dep \in [Sites -> Deployment \cup {None}]
    /\ site \in [Sites -> [seeds : BOOLEAN, ip : 0..2, url : 0..2]]
    /\ dep \in [Sites -> Deployment \cup {None}]
    /\ queued \in BOOLEAN /\ timer \in 0..Grace \cup {None} /\ broken \in SUBSET Sites
    /\ spent \in [claims : 0..MaxClaims, edits : 0..MaxEdits, mishaps : 0..MaxMishaps,
                  edited : SUBSET Sites, stale : BOOLEAN]

NoTarget == [claim |-> 0, leaving |-> FALSE, bound |-> FALSE, last |-> 0, state |-> "idle",
             run |-> 0, active |-> FALSE]

Init ==
    /\ obj = [m \in Machines |-> NoTarget]
    /\ \E seeds \in [Sites -> BOOLEAN] :
         site = [s \in Sites |->
                   [seeds |-> seeds[s], ip |-> IF seeds[s] THEN 1 ELSE 0, url |-> 0]]
    /\ \E old \in [Sites -> {"survivor", "stranger", None}] :
         dep = [s \in Sites |-> IF old[s] = None THEN None
                                ELSE [owner |-> old[s], deleting |-> FALSE, up |-> "starting",
                                      url |-> 1, empty |-> -1]]
    /\ seen = [obj |-> obj, dep |-> dep]
    /\ queued = TRUE /\ timer = None /\ broken = {}
    /\ spent = [claims |-> 0, edits |-> 0, mishaps |-> 0, edited |-> {}, stale |-> FALSE]

Mishap == spent.mishaps < MaxMishaps /\ spent' = [spent EXCEPT !.mishaps = @ + 1]
Edit(S) == /\ spent.edits < MaxEdits
           /\ spent' = [spent EXCEPT !.edits = @ + 1, !.edited = @ \cup S]

(***************************************************************************)
(* What other controllers and users write: a claim is created, bound,      *)
(* deployed by runs, edited, and released.                                 *)
(***************************************************************************)
Behind == {m \in Machines : seen.obj[m] # [obj[m] EXCEPT !.leaving = FALSE]}

Write(m, o) ==
    /\ Cardinality(Behind) < MaxLag
    /\ obj' = [obj EXCEPT ![m] = o]
    /\ UNCHANGED <<seen, site, dep, queued, timer, broken>>

CreateClaim(m) ==
    /\ obj[m].claim = 0 /\ ~obj[m].bound
    /\ spent.claims < MaxClaims /\ spent' = [spent EXCEPT !.claims = @ + 1]
    /\ Write(m, [obj[m] EXCEPT !.claim = 1])

Bind(m) ==
    /\ obj[m].claim # 0 /\ ~obj[m].bound /\ ~obj[m].leaving
    /\ Write(m, [obj[m] EXCEPT !.bound = TRUE]) /\ UNCHANGED spent

\* shouldProvision
StartRun(m) ==
    /\ obj[m].bound /\ obj[m].claim # 0 /\ ~obj[m].active
    /\ obj[m].state = "idle" \/ (obj[m].state = "provisioned" /\ obj[m].last # obj[m].claim)
    /\ Write(m, [obj[m] EXCEPT !.state = "provisioning", !.run = obj[m].claim, !.active = TRUE])
    /\ UNCHANGED spent

EndRun(m) ==
    /\ obj[m].active
    /\ Write(m, [obj[m] EXCEPT !.active = FALSE]) /\ UNCHANGED spent

RecordRun(m) ==
    /\ obj[m].state = "provisioning" /\ ~obj[m].active
    /\ Write(m, [obj[m] EXCEPT !.state = "provisioned", !.last = obj[m].run])
    /\ UNCHANGED spent

FailRun(m) ==
    /\ obj[m].state = "provisioning" /\ ~obj[m].active /\ Mishap
    /\ Write(m, [obj[m] EXCEPT !.state = "idle"])

EditClaim(m) ==
    /\ obj[m].claim = 1 /\ Edit({})
    /\ Write(m, [obj[m] EXCEPT !.claim = 2])

DeleteClaim(m) ==
    /\ obj[m].claim # 0 /\ ~obj[m].leaving
    /\ Write(m, [obj[m] EXCEPT !.leaving = TRUE]) /\ UNCHANGED spent

Unbind(m) ==
    /\ obj[m].leaving /\ obj[m].bound
    /\ Write(m, [obj[m] EXCEPT !.bound = FALSE, !.state = "idle", !.last = 0])
    /\ UNCHANGED spent

RemoveClaim(m) ==
    /\ obj[m].leaving /\ ~obj[m].bound
    /\ Write(m, [obj[m] EXCEPT !.claim = 0, !.leaving = FALSE]) /\ UNCHANGED spent

(***************************************************************************)
(* Watches.  An event updates the cache and enqueues what it maps to.      *)
(***************************************************************************)
Deliver(cache, woken) ==
    /\ UNCHANGED <<obj, site, dep, timer, broken, spent>>
    /\ seen' = cache /\ queued' = (queued \/ woken)

\* claimDemandPredicate: a new claim, a spec change, a deletion timestamp, a removal.
ClaimEvent(m) ==
    LET o == obj[m] IN
    /\ seen.obj[m].claim # o.claim
    /\ Deliver([seen EXCEPT !.obj[m].claim = o.claim], TRUE)

\* machineImageDemandPredicate
DemandMayChange(old, new) ==
    old.bound # new.bound \/ (old.state = "provisioned") # (new.state = "provisioned")

\* mapMachineToImages maps the old and the new Machine through the cached claim.
MachineEvent(m) ==
    LET o == obj[m]  c == seen.obj[m]  mapped == c.claim # 0 /\ (c.bound \/ o.bound) IN
    /\ <<c.bound, c.state, c.last>> # <<o.bound, o.state, o.last>>
    /\ Deliver([seen EXCEPT !.obj[m].bound = o.bound, !.obj[m].state = o.state,
                            !.obj[m].last = o.last],
               mapped /\ DemandMayChange(c, o))

\* deployRunDemandPredicate
RunEvent(m) ==
    LET o == obj[m] IN
    /\ <<seen.obj[m].run, seen.obj[m].active>> # <<o.run, o.active>>
    /\ Deliver([seen EXCEPT !.obj[m].run = o.run, !.obj[m].active = o.active],
               TRUE)

\* Owns(Deployment) goes by the name of the owning Image, which a survivor of a deleted
\* Image of the same name shares.
Woken(d) == d # None /\ d.owner # "stranger"
DeploymentEvent(s) ==
    /\ seen.dep[s] # dep[s]
    /\ Deliver([seen EXCEPT !.dep[s] = dep[s]], Woken(seen.dep[s]) \/ Woken(dep[s]))

(***************************************************************************)
(* The Image controller: reconcileImageSeeder.                             *)
(***************************************************************************)
\* machineDeployPending
Pending(o) == o.last # o.claim
\* machinesReferencingImage, and the Machines of active DeployRuns
Demands(o) ==
    \/ o.bound /\ o.claim # 0 /\ (o.state = "provisioned" => Pending(o))
    \/ o.active
DemandAt(s) == {m \in Machines : SiteOf[m] = s /\ Demands(seen.obj[m])}

\* seederDemandBySite, with sitederive.Resolve
Wanted == {s \in Sites : DemandAt(s) # {} /\ site[s].seeds}
NoSeederSites == {s \in Sites : DemandAt(s) # {} /\ ~site[s].seeds}

\* listImageSeederDeployments: the ones this Image controls.
Listed(s) == IF seen.dep[s] # None /\ seen.dep[s].owner = "image" THEN seen.dep[s] ELSE None

NewDeployment(s) == [owner |-> "image", deleting |-> FALSE, up |-> "starting", url |-> site[s].url,
                     empty |-> -1]

\* Mutant: a Deployment keeps the placement it was created with.
KeptPlacement(s, d) == d
\* ensureImageSeederPlacement: a changed TRACKER_URL rolls the pod.
Placed(s, d) == IF Listed(s).url = site[s].url THEN d
                ELSE [d EXCEPT !.url = site[s].url, !.up = "starting"]
\* Mutant: a countdown that has begun is not cancelled.
Uncancelled(s, d) == d
\* cancelSeederShutdown
Cancelled(s, d) == IF Listed(s).empty = -1 THEN d ELSE [d EXCEPT !.empty = -1]
Step(d, after, problem, err) == [dep |-> d, after |-> after, problem |-> problem, err |-> err]

\* createImageSeederDeployment.  After AlreadyExists the cached object tells whose it is.
Create(s) ==
    IF dep[s] = None THEN Step(NewDeployment(s), None, "none", FALSE)
    ELSE Step(dep[s], None,
              IF seen.dep[s] # None /\ seen.dep[s].owner # "image"
              THEN "SeederDeploymentForeignOwner" ELSE "none",
              seen.dep[s] = None)

\* A patch of a Deployment that is gone fails.  checkSeederUnready: the unready-since stamp
\* is read by nobody, only what it reports is kept.
Serve(s) ==
    IF dep[s] = None THEN Step(None, None, "none", TRUE)
    ELSE Step(Cancelled(s, Placed(s, dep[s])), None,
              IF Listed(s).up = "available" THEN "none" ELSE "SeederPodUnready", FALSE)

\* shutdownImageSeederDeployment
Shutdown(s) ==
    IF Listed(s).empty = -1
    THEN IF dep[s] = None THEN Step(None, None, "none", TRUE)
         ELSE Step([dep[s] EXCEPT !.empty = 0], Grace, "none", FALSE)
    ELSE IF Listed(s).empty < Grace THEN Step(dep[s], Grace - Listed(s).empty, "none", FALSE)
    ELSE Step(None, None, "none", FALSE)

\* reconcileImageSeederSite
SiteStep(s) ==
    IF Listed(s) = None
    THEN IF s \in Wanted /\ SeederImage THEN Create(s) ELSE Step(dep[s], None, "none", FALSE)
    ELSE IF Listed(s).deleting THEN Step(dep[s], None, "none", FALSE)
    ELSE IF s \in Wanted THEN Serve(s) ELSE Shutdown(s)

\* Mutant: the requeue of the last Site is lost.
NoRequeue(afters) == None
\* minRequeue, and the work queue's earliest deadline
MinRequeue(afters) == IF afters \ {None} = {} THEN None ELSE Min(afters \ {None})

ReconcileImage(fails) ==
    LET step == [s \in Sites |-> IF s \in fails THEN Step(dep[s], None, "none", TRUE)
                                 ELSE SiteStep(s)]
        ok == \A s \in Sites : ~step[s].err
        marked(s) == step[s].dep # None /\ step[s].dep.empty # -1
    IN /\ queued /\ UNCHANGED <<obj, seen, site>>
       /\ queued' = ~ok
       /\ dep' = [s \in Sites |-> step[s].dep]
       /\ timer' = IF ok THEN MinRequeue({timer} \cup {step[s].after : s \in Sites}) ELSE timer
       /\ broken' = {s \in Sites : /\ marked(s)
                                   /\ s \in broken \/ (s \in Wanted /\ ~step[s].err)}
       /\ fails # {} => spent.mishaps < MaxMishaps
       /\ spent' = [spent EXCEPT
                      !.mishaps = IF fails = {} THEN @ ELSE @ + 1,
                      !.stale = @ \/ \E s \in Wanted : /\ Listed(s) # None /\ dep[s] # None
                                                       /\ Listed(s).empty # dep[s].empty]

\* updateImageSeederCondition: the causes a reconcile records now.
Problems ==
    ({SiteStep(s).problem : s \in Sites} \ {"none"})
      \cup (IF NoSeederSites = {} THEN {} ELSE {"SeederSubnetRefUnset"})

\* What the PartitionContent controller records now: collectSeederSites, resolveSeedDemand
\* (a claim that is not being deleted, or an active run) and recordSeederStatus.
SeederSites == {s \in Sites : Listed(s) # None /\ ~Listed(s).deleting /\ Listed(s).up = "available"}
ContentDemand == \E m \in Machines : \/ seen.obj[m].claim # 0 /\ ~obj[m].leaving
                                     \/ seen.obj[m].active
ContentDegraded == ContentDemand /\ SeederSites = {}

(***************************************************************************)
(* Sites, pods, operators and time.                                        *)
(***************************************************************************)
ChangeDep(s, d) ==
    /\ UNCHANGED <<obj, seen, site, queued, timer, broken>>
    /\ seen.dep[s] = dep[s]
    /\ dep' = [dep EXCEPT ![s] = d]
ChangeSite(s, r) ==
    /\ UNCHANGED <<obj, seen, dep, queued, timer, broken>>
    /\ site' = [site EXCEPT ![s] = r]

\* The Site controller writes status.trackerURL; no watch brings it to the Image.
RecordTracker(s) ==
    /\ site[s].url # site[s].ip
    /\ ChangeSite(s, [site[s] EXCEPT !.url = site[s].ip]) /\ UNCHANGED spent

\* validateTrackerMatchesSeeding: a Site that seeds has a tracker, another has none.
EditSite(s, ip) ==
    /\ ip # site[s].ip /\ Edit({s})
    /\ ChangeSite(s, [site[s] EXCEPT !.seeds = ip # 0, !.ip = ip])

\* The seeder process needs its TRACKER_URL; its readiness probe needs the HTTP server.
PodReady(s) ==
    /\ dep[s] # None /\ dep[s].owner = "image" /\ ~dep[s].deleting /\ dep[s].up # "available"
    /\ dep[s].url # 0
    /\ ChangeDep(s, [dep[s] EXCEPT !.up = "available"]) /\ UNCHANGED spent

\* Without it the pods crash, and the Deployment controller reports ProgressDeadlineExceeded.
\* The deadline is minutes, a Site reconcile is not.
PodStalls(s) ==
    /\ dep[s] # None /\ dep[s].owner = "image" /\ ~dep[s].deleting /\ dep[s].up = "starting"
    /\ dep[s].url = 0 /\ site[s].url # 0
    /\ ChangeDep(s, [dep[s] EXCEPT !.up = "stalled"]) /\ UNCHANGED spent

PodDies(s) ==
    /\ dep[s] # None /\ dep[s].up = "available" /\ Mishap
    /\ ChangeDep(s, [dep[s] EXCEPT !.up = "starting"])

\* An operator deletes a seeder in the foreground, or takes a foreign object away; the
\* garbage collector ends a deletion, and removes the survivor of a deleted Image.
DeleteDeployment(s) ==
    /\ dep[s] # None /\ dep[s].owner = "image" /\ ~dep[s].deleting /\ Edit({})
    /\ ChangeDep(s, [dep[s] EXCEPT !.deleting = TRUE, !.up = "starting"])
RemoveStranger(s) ==
    /\ dep[s] # None /\ dep[s].owner = "stranger" /\ Edit({s})
    /\ ChangeDep(s, None)
Collect(s) ==
    /\ dep[s] # None /\ (dep[s].deleting \/ dep[s].owner = "survivor")
    /\ ChangeDep(s, None) /\ UNCHANGED spent

\* A manager starts: its caches are filled and everything is enqueued, its timer is gone.
Restart ==
    /\ Mishap
    /\ queued' = TRUE /\ timer' = None /\ seen' = [obj |-> obj, dep |-> dep]
    /\ UNCHANGED <<obj, site, dep, broken>>

Older(d) == IF d # None /\ d.empty \in 0..(Grace - 1) THEN [d EXCEPT !.empty = @ + 1] ELSE d

Tick ==
    /\ UNCHANGED <<obj, site, queued, broken, spent>>
    /\ dep' = [s \in Sites |-> Older(dep[s])]
    /\ seen' = [seen EXCEPT !.dep = [s \in Sites |-> Older(seen.dep[s])]]
    /\ timer' = IF timer \in {None, 0} THEN timer ELSE timer - 1
    /\ <<dep', timer'>> # <<dep, timer>>

TimerFires ==
    /\ timer = 0 /\ timer' = None /\ queued' = TRUE
    /\ UNCHANGED <<obj, seen, site, dep, broken, spent>>

-----------------------------------------------------------------------------
World ==
    \E m \in Machines :
      \/ CreateClaim(m) \/ Bind(m) \/ StartRun(m) \/ EndRun(m) \/ RecordRun(m) \/ FailRun(m)
      \/ EditClaim(m) \/ DeleteClaim(m) \/ Unbind(m) \/ RemoveClaim(m)

Watches ==
    \/ \E m \in Machines : ClaimEvent(m) \/ MachineEvent(m) \/ RunEvent(m)
    \/ \E s \in Sites : DeploymentEvent(s)

Controllers ==
    \/ ReconcileImage({})
    \/ TimerFires
    \/ \E s \in Sites : RecordTracker(s)

Cluster == Tick \/ \E s \in Sites : PodReady(s) \/ PodStalls(s) \/ Collect(s)

Accidents ==
    \/ \E fails \in (SUBSET Sites) \ {{}} : ReconcileImage(fails)
    \/ Restart
    \/ \E s \in Sites : PodDies(s)

Operators ==
    \E s \in Sites : \/ DeleteDeployment(s) \/ RemoveStranger(s)
                     \/ \E ip \in 0..2 : EditSite(s, ip)

Next == World \/ Watches \/ Controllers \/ Cluster \/ Accidents \/ Operators

Spec == Init /\ [][Next]_vars

\* Events arrive, requests are processed, pods start and time passes; users need do nothing.
FairSpec == Spec /\ WF_vars(Watches) /\ WF_vars(Controllers \/ Cluster)

(***************************************************************************)
(* Properties.                                                             *)
(***************************************************************************)
Demanded(s) == \E m \in Machines : SiteOf[m] = s /\ Demands(obj[m])
Served(s) == /\ dep[s] # None /\ dep[s].owner = "image"
             /\ dep[s].up = "available" /\ dep[s].url = site[s].url

\* A Site that seeds and at which a deploy is pending gets a seeder that is up and announces
\* to the Site's tracker, whatever pods die and calls fail, unless the Site was edited or
\* a foreign object holds the name.
DemandIsServed ==
    \A s \in Sites :
      Demanded(s) /\ site[s].seeds ~>
        \/ Served(s) \/ ~Demanded(s) \/ s \in spent.edited
        \/ dep[s] # None /\ dep[s].owner = "stranger"

\* A seeder nobody waits for is deleted in the end, through the timer alone.
IdleSeederGoes ==
    \A s \in Sites : dep[s] # None /\ dep[s].owner = "image" /\ ~Demanded(s)
                       ~> dep[s] = None \/ Demanded(s)

\* A countdown that a reconcile broke off by serving demand is never taken up again: what is
\* deleted has been without demand, in every reconcile, since the stamp it carries, as long
\* as no reconcile read an old stamp.
GraceIsGiven ==
    [][\A s \in Sites :
         dep[s] # None /\ dep[s].owner = "image" /\ ~dep[s].deleting /\ dep'[s] = None
           => s \notin broken \/ spent.stale]_vars

\* The comment on seederSiteFindings: the Image and its contents judge seeding by "one source
\* of truth".  When all events are handled, a content reports SeederDegraded only if its
\* Image reports a cause, or the Image was asked to serve something.  Violated: a claim counts
\* as demand for the content for as long as it lives, for the Image until the deploy succeeds.
AlarmsAgree ==
    /\ ~queued /\ seen.dep = dep /\ Behind = {} /\ ContentDegraded
    => Problems # {} \/ Wanted # {}
==============================================================================
