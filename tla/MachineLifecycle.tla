-------------------------- MODULE MachineLifecycle --------------------------
(***************************************************************************)
(* The Machine controller (internal/controller/machine_controller.go) and  *)
(* one Machine: the state walk from Enrolling to Provisioned, the error    *)
(* and delay axis beside it, the two holds, the annotations operators set, *)
(* the release of the Machine when its claim goes, and the delete walk.    *)
(*                                                                         *)
(* One reconcile is one step.  Where a handler makes two API writes, the   *)
(* manager may also stop between them.  The deployer answers any of the    *)
(* results its code can return.  Status writes do not queue the Machine,   *)
(* so whether a reconcile asks to run again is part of its result: the     *)
(* variable queued is the key in the work queue or its requeue timer.      *)
(***************************************************************************)
EXTENDS Naturals, FiniteSets

CONSTANTS
    Secrets,          \* names of BMC credentials Secrets
    Intents,          \* what a claim asks to deploy; 0 is an empty payload
    Annotations,      \* the annotations operators may set
    PowerOffOutcomes, \* what Deployer.PowerOff may answer
    Lagging,          \* whether the cached status may trail the stored one
    EarlyEdits,       \* whether a bound claim may change before it says so
    MaxUid,           \* bound: how often the claim can be created
    MaxRuns,          \* bound: DeployRuns ever created
    MaxEdits,         \* bound: actions of users
    MaxCrashes,       \* bound: handlers cut off between two writes
    MaxLosses         \* bound: statuses or claims lost

Outcome == {"Complete", "Continuing", "Delayed", "Transient", "Restart"}

ASSUME SecretsAssumption == Secrets # {}
ASSUME IntentsAssumption == Intents \subseteq Nat
ASSUME OutcomesAssumption == PowerOffOutcomes \subseteq Outcome
ASSUME LimitsAssumption ==
    /\ Lagging \in BOOLEAN /\ EarlyEdits \in BOOLEAN
    /\ MaxUid \in Nat /\ MaxRuns \in Nat /\ MaxEdits \in Nat
    /\ MaxCrashes \in Nat /\ MaxLosses \in Nat

VARIABLES
    machine,  \* metadata and spec: life, finalizer, annotations, references
    status,   \* Machine.status as stored
    cached,   \* Machine.status as the controller's cache shows it
    claim,    \* the MachineClaim object of the one claim name
    runs,     \* the DeployRuns that exist
    lastRun,  \* the number of the newest DeployRun ever created
    secrets,  \* per name: absent, free, or claimed with kezio's finalizer
    plan,     \* what building the deploy plan gives at present
    queued,   \* the Machine is in the work queue, or its timer runs
    call,     \* the deployer call the last step made, if any
    spent     \* how much of each bound is used

vars == <<machine, status, cached, claim, runs, lastRun, secrets, plan, queued,
          call, spent>>

-----------------------------------------------------------------------------
(* The objects.  Run 0 and claim uid 0 stand for a nil reference.          *)

deleteStageMaxErrorCount == 3
maxRestartFailures == 3

\* Counters are only compared with the two limits, so they may stop above them.
CountCeiling == deleteStageMaxErrorCount + 1

DeleteStage == {"Deprovisioning", "PoweringOff"}
State == {"", "Enrolling", "Inspecting", "Available", "Provisioning",
          "Provisioned", "Released"} \cup DeleteStage

Status == [state : State,
           op : {"", "OK", "error", "delayed", "detached"},
           errorType : {"", "Transient", "Restart", "Other"},
           errorCount : 0..CountCeiling, restartCount : 0..CountCeiling,
           statusLossHold : BOOLEAN, retryHeld : BOOLEAN,
           updated : BOOLEAN,
           currentRun : 0..MaxRuns, lastSuccessfulRun : 0..MaxRuns,
           lastAttemptedRun : 0..MaxRuns]

EmptyStatus ==
    [state |-> "", op |-> "", errorType |-> "", errorCount |-> 0,
     restartCount |-> 0, statusLossHold |-> FALSE, retryHeld |-> FALSE,
     updated |-> FALSE, currentRun |-> 0, lastSuccessfulRun |-> 0,
     lastAttemptedRun |-> 0]

Machine == [life : {"live", "deleting", "gone"}, finalizer : BOOLEAN,
            annotations : SUBSET Annotations, claimRef : 0..MaxUid,
            secretRef : Secrets]

\* recorded: the claim's status.machineName names the Machine.
Claim == [uid : 0..MaxUid, exists : BOOLEAN, deleting : BOOLEAN,
          intent : Intents \cup {0}, recorded : BOOLEAN]

Run == [id : 1..MaxRuns, claim : 1..MaxUid, intent : Intents, done : BOOLEAN]

Call == [op : {"", "Inspect", "Provision", "Reboot", "Deprovision", "PowerOff"},
         restart : BOOLEAN]
NoCall == [op |-> "", restart |-> FALSE]

\* seeding: the snapshot builds, the full plan waits for a seeder.
Plan == {"ready", "seeding", "notReady", "invalid"}

has(a) == a \in machine.annotations

-----------------------------------------------------------------------------
(* The updates of Machine.status.                                          *)

Bump(n) == IF n = CountCeiling THEN n ELSE n + 1

markOperational(s) == [s EXCEPT !.op = "OK", !.errorType = ""]

setState(s, state) ==
    [markOperational(s) EXCEPT
        !.state = state, !.errorCount = 0, !.restartCount = 0,
        !.statusLossHold = FALSE, !.retryHeld = FALSE, !.updated = TRUE]

applyFailure(s, type) ==
    [s EXCEPT !.op = "error", !.errorType = type, !.errorCount = Bump(@),
              !.restartCount = IF type = "Restart" THEN Bump(@) ELSE @]

\* With holdForRetry.
recordFailure(s, type) ==
    LET f == applyFailure(s, type)
    IN  [f EXCEPT !.updated = TRUE,
                  !.retryHeld = \/ @
                                \/ /\ type = "Restart"
                                   /\ f.restartCount >= maxRestartFailures]

markDelayed(s) == [s EXCEPT !.op = "delayed", !.updated = TRUE]

clearRetryStatus(s, restarting) ==
    IF s.op = "delayed" \/ (restarting /\ s.op = "error")
    THEN [markOperational(s) EXCEPT !.updated = TRUE]
    ELSE s

\* Busy is treated as Continuing.
applyNonCompleteOutcome(s, outcome, restarting) ==
    IF outcome = "Continuing" THEN clearRetryStatus(s, restarting)
    ELSE IF outcome = "Delayed" THEN markDelayed(s)
    ELSE recordFailure(s, outcome)

advanceDeleteStage(s, state) ==
    [markOperational(s) EXCEPT !.state = state, !.errorCount = 0, !.updated = TRUE]

restartOnFailure(s) == s.op = "error" /\ s.errorType = "Restart"

hasUnknownErrorType(s) == s.op = "error" /\ s.errorType = "Other"

releaseEligible(state) == state \in {"Provisioning", "Provisioned"}

-----------------------------------------------------------------------------
(* What a reconcile reads besides the Machine.                             *)

\* resolveClaimIntent finds a claim.
Resolves == claim.exists /\ claim.uid = machine.claimRef /\ claim.uid # 0

claimUnresolved == machine.claimRef # 0 /\ ~Resolves

\* The intent of the bound claim; 0 when isEmptyDeployPayload.
Payload == IF Resolves THEN claim.intent ELSE 0

RunNamed(id) == {r \in runs : r.id = id}

\* The intent differs from the last successful run's, or no such run is known.
shouldProvision(s) ==
    /\ Payload # 0
    /\ \A r \in RunNamed(s.lastSuccessfulRun) : r.intent # Payload

\* A step that is asked to restart arms the net boot; only one that polls an
\* armed attempt can find it finished, expired, failed or stalled.
StepOutcomes(restart) ==
    {"Continuing", "Delayed", "Transient"}
        \cup (IF restart THEN {} ELSE {"Complete", "Restart"})

\* classifyBMCError: the BMC is unreachable, or refuses.
RebootOutcomes == {"Complete", "Delayed", "Transient"}

DeprovisionOutcomes == {"Complete"}

-----------------------------------------------------------------------------
(* Writes, and the guards that onChange goes through in order.             *)

Save(s) ==
    /\ status' = s
    /\ cached' = IF Lagging THEN cached ELSE s

SameStatus == UNCHANGED <<status, cached>>

Again == queued' = TRUE
Rest == queued' = FALSE

Cut == /\ spent.crashes < MaxCrashes
       /\ spent' = [spent EXCEPT !.crashes = @ + 1]

Active == queued /\ machine.life # "gone" /\ ~has("paused")

Owned == Active /\ machine.life = "live" /\ machine.finalizer

Attached == Owned /\ ~has("detached") /\ cached.op # "detached"

RebootRequested == has("reboot") \/ has("reboot-x")

NotAsked == /\ Attached
            /\ ~RebootRequested /\ ~has("re-inspect") /\ ~has("clear-error")

Walks(state) ==
    /\ NotAsked
    /\ ~cached.retryHeld
    /\ ~hasUnknownErrorType(cached)
    /\ ~(machine.claimRef = 0 /\ releaseEligible(cached.state))
    /\ cached.state = state

-----------------------------------------------------------------------------
(* Reconcile before the state walk.                                        *)

\* Paused, or held: no write, no deployer call, no requeue.
ReconcilePaused ==
    /\ queued /\ machine.life # "gone" /\ has("paused")
    /\ Rest /\ call' = NoCall
    /\ UNCHANGED <<machine, status, cached, claim, runs, lastRun, secrets, plan, spent>>

ReconcileHeld ==
    /\ NotAsked /\ cached.retryHeld
    /\ Rest /\ call' = NoCall
    /\ UNCHANGED <<machine, status, cached, claim, runs, lastRun, secrets, plan, spent>>

AddFinalizer ==
    /\ Active /\ machine.life = "live" /\ ~machine.finalizer
    /\ machine' = [machine EXCEPT !.finalizer = TRUE]
    /\ Again /\ call' = NoCall
    /\ UNCHANGED <<status, cached, claim, runs, lastRun, secrets, plan, spent>>

\* The status writes that neither touch other objects nor call the deployer.
StatusOnly(s) ==
    /\ Save(s) /\ call' = NoCall
    /\ UNCHANGED <<machine, claim, runs, lastRun, secrets, plan, spent>>

reconcileDetached ==
    /\ Owned /\ has("detached")
    /\ Rest
    /\ StatusOnly(IF cached.op = "detached" THEN status
                  ELSE [cached EXCEPT !.op = "detached", !.updated = TRUE])

clearDetached ==
    /\ Owned /\ ~has("detached") /\ cached.op = "detached"
    /\ Again
    /\ StatusOnly([markOperational(cached) EXCEPT !.updated = TRUE])

\* A suffixed annotation is its client's to remove: nothing clears it here.
reconcileReboot(outcome) ==
    /\ Attached /\ RebootRequested
    /\ outcome \in RebootOutcomes
    /\ call' = [op |-> "Reboot", restart |-> FALSE]
    /\ IF outcome = "Complete"
       THEN /\ machine' = [machine EXCEPT !.annotations = @ \ {"reboot"}]
            /\ queued' = has("reboot")
            /\ SameStatus
       ELSE /\ Save(applyNonCompleteOutcome(cached, outcome, FALSE))
            /\ Again
            /\ UNCHANGED machine
    /\ UNCHANGED <<claim, runs, lastRun, secrets, plan, spent>>

\* The annotation goes first, which queues the Machine; then the status is
\* written, unless the manager stops in between.
Consume(a, s) ==
    /\ machine' = [machine EXCEPT !.annotations = @ \ {a}]
    /\ Again /\ call' = NoCall
    /\ \/ Save(s) /\ UNCHANGED spent
       \/ s # status /\ Cut /\ SameStatus
    /\ UNCHANGED <<claim, runs, lastRun, secrets, plan>>

\* Mutant: re-inspect is accepted while an inspection goes on.
ReInspectAnyTime == cached.state \in {"Inspecting", "Available", "Released"}

reInspectAcceptable ==
    \/ cached.state \in {"Available", "Released"}
    \/ cached.state = "Provisioned" /\ Payload = 0

reconcileReInspect ==
    /\ Attached /\ ~RebootRequested /\ has("re-inspect")
    /\ Consume("re-inspect", IF reInspectAcceptable
                             THEN setState(status, "Inspecting") ELSE status)

\* Mutant: the hold is released and its count is kept.
ClearErrorKeepsCount ==
    /\ Attached /\ ~RebootRequested /\ ~has("re-inspect") /\ has("clear-error")
    /\ Consume("clear-error",
               [markOperational(status) EXCEPT
                   !.errorCount = 0, !.retryHeld = FALSE, !.updated = TRUE])

reconcileClearError ==
    /\ Attached /\ ~RebootRequested /\ ~has("re-inspect") /\ has("clear-error")
    /\ Consume("clear-error",
               [markOperational(status) EXCEPT
                   !.errorCount = 0, !.restartCount = 0,
                   !.retryHeld = FALSE, !.updated = TRUE])

\* An error class of another release starts the walk over.
RestartWalk ==
    /\ NotAsked /\ ~cached.retryHeld /\ hasUnknownErrorType(cached)
    /\ Again
    /\ StatusOnly(setState([cached EXCEPT !.currentRun = 0], "Enrolling"))

\* The claim is gone from under a deployment, finished or not.
ReleaseToOperator ==
    /\ NotAsked /\ ~cached.retryHeld /\ ~hasUnknownErrorType(cached)
    /\ machine.claimRef = 0 /\ releaseEligible(cached.state)
    /\ Again
    /\ StatusOnly(setState([cached EXCEPT !.currentRun = 0], "Released"))

-----------------------------------------------------------------------------
(* The state walk.  A Released Machine falls through to an error, which    *)
(* changes nothing and is retried.                                         *)

\* Mutant: the status itself is asked for prior runs.
LossSeenInStatus == ~cached.updated /\ Payload # 0 /\ cached.currentRun # 0

\* No status was ever recorded, the claim has intent, and runs exist.
StatusLossSuspected == ~cached.updated /\ Payload # 0 /\ runs # {}

reconcileEmptyStatus ==
    /\ Walks("") /\ ~cached.statusLossHold
    /\ IF StatusLossSuspected
       THEN Rest /\ StatusOnly([cached EXCEPT !.statusLossHold = TRUE, !.updated = TRUE])
       ELSE Again /\ StatusOnly(setState(cached, "Enrolling"))

reconcileStatusLossHold ==
    /\ Walks("") /\ cached.statusLossHold
    /\ IF has("confirm-status-loss")
       THEN Consume("confirm-status-loss", setState(status, "Enrolling"))
       ELSE Rest /\ StatusOnly(status)

FinishEnrolling ==
    /\ Walks("Enrolling") /\ Again
    /\ StatusOnly(setState(cached, "Inspecting"))

SkipInspection ==
    /\ Walks("Inspecting") /\ has("inspect-disable") /\ Again
    /\ StatusOnly(setState(cached, "Available"))

\* resolveCredentialsSecret, for a step that needs the Secret.
NeedsSecret ==
    \/ Walks("Inspecting") /\ ~has("inspect-disable")
    \/ Walks("Provisioning") /\ RunNamed(cached.currentRun) # {}

AwaitSecret ==
    /\ NeedsSecret /\ secrets[machine.secretRef] = "absent"
    /\ Again
    /\ StatusOnly(markDelayed(cached))

\* A deployer step with the Secret in hand; s is the status it leads to.
DeployerStep(op, s) ==
    /\ NeedsSecret /\ secrets[machine.secretRef] # "absent"
    /\ secrets' = [secrets EXCEPT ![machine.secretRef] = "claimed"]
    /\ call' = [op |-> op, restart |-> restartOnFailure(cached)]
    /\ Save(s)
    /\ queued' = ~s.retryHeld
    /\ UNCHANGED <<machine, claim, lastRun, plan, spent>>

reconcileInspecting(outcome) ==
    /\ Walks("Inspecting")
    /\ outcome \in StepOutcomes(restartOnFailure(cached))
    /\ DeployerStep("Inspect",
           IF outcome = "Complete" THEN setState(cached, "Available")
           ELSE applyNonCompleteOutcome(cached, outcome, restartOnFailure(cached)))
    /\ UNCHANGED runs

\* reconcileIdle, short of starting a run.  An unresolved claim and a plan that
\* cannot build yet delay the Machine, a plan that never will is an error; with
\* nothing to deploy the Machine rests.
Idle == Walks("Available") \/ Walks("Provisioned")

\* Mutant: waits for a watch event that nothing sends.
IdleWaitsForEvent ==
    /\ Idle
    /\ claimUnresolved \/ (Payload # 0 /\ plan = "notReady")
    /\ Rest
    /\ StatusOnly(markDelayed(cached))

IdleWaits ==
    /\ Idle
    /\ \/ claimUnresolved
       \/ Payload # 0 /\ plan = "notReady"
    /\ Again
    /\ StatusOnly(markDelayed(cached))

IdleInvalid ==
    /\ Idle /\ Payload # 0 /\ plan = "invalid"
    /\ Again
    /\ StatusOnly(recordFailure(cached, "Transient"))

IdleRests ==
    /\ Idle /\ ~claimUnresolved
    /\ \/ Payload = 0
       \/ plan \in {"ready", "seeding"} /\ ~shouldProvision(cached)
    /\ Rest
    /\ StatusOnly(status)

\* The walk comes to startProvisioningRun, from an idle state or because the
\* run it was provisioning has gone.
StartsRun ==
    \/ Idle /\ plan \in {"ready", "seeding"} /\ shouldProvision(cached)
    \/ Walks("Provisioning") /\ cached.currentRun = 0 /\ ~claimUnresolved

RunAwaitsClaim ==
    /\ Walks("Provisioning") /\ cached.currentRun = 0 /\ claimUnresolved
    /\ Again
    /\ StatusOnly(markDelayed(cached))

StartRunWaits ==
    /\ StartsRun /\ Payload # 0 /\ plan \in {"seeding", "notReady"}
    /\ Again
    /\ StatusOnly(markDelayed(cached))

\* Builder.Build refuses an empty payload.
StartRunFails ==
    /\ StartsRun /\ (Payload = 0 \/ plan = "invalid")
    /\ Again
    /\ StatusOnly(recordFailure(cached, "Transient"))

\* Mutant: a run that was never finished is taken up again.
ReusesRun ==
    LET old == {r \in runs : r.intent = Payload /\ ~r.done}
    IN  /\ StartsRun /\ Payload # 0 /\ plan = "ready"
        /\ lastRun < MaxRuns
        /\ lastRun' = IF old = {} THEN lastRun + 1 ELSE lastRun
        /\ runs' = IF old # {} THEN runs
                   ELSE runs \cup {[id |-> lastRun', claim |-> machine.claimRef,
                                    intent |-> Payload, done |-> FALSE]}
        /\ \E r \in {q \in runs' : q.intent = Payload /\ ~q.done} :
              Save([markOperational(cached) EXCEPT
                       !.state = "Provisioning", !.currentRun = r.id,
                       !.errorCount = 0, !.restartCount = 0, !.updated = TRUE])
        /\ Again /\ call' = NoCall
        /\ UNCHANGED <<machine, claim, secrets, plan, spent>>

\* The DeployRun is created first; then the status names it, unless the
\* manager stops in between.
startProvisioningRun ==
    /\ StartsRun /\ Payload # 0 /\ plan = "ready"
    /\ lastRun < MaxRuns
    /\ lastRun' = lastRun + 1
    /\ runs' = runs \cup {[id |-> lastRun', claim |-> machine.claimRef,
                           intent |-> Payload, done |-> FALSE]}
    /\ Again /\ call' = NoCall
    /\ \/ /\ Save([markOperational(cached) EXCEPT
                      !.state = "Provisioning", !.currentRun = lastRun',
                      !.errorCount = 0, !.restartCount = 0, !.updated = TRUE])
          /\ UNCHANGED spent
       \/ Cut /\ SameStatus
    /\ UNCHANGED <<machine, claim, secrets, plan>>

recordCurrentRunDeleted ==
    /\ Walks("Provisioning")
    /\ cached.currentRun # 0 /\ RunNamed(cached.currentRun) = {}
    /\ LET s == recordFailure([cached EXCEPT !.currentRun = 0], "Restart")
       IN  StatusOnly(s) /\ queued' = ~s.retryHeld

reconcileProvisioning(outcome) ==
    LET restart == restartOnFailure(cached)
        attempted == [cached EXCEPT !.lastAttemptedRun =
                         IF outcome \in {"Complete", "Transient", "Restart"}
                         THEN cached.currentRun ELSE @]
    IN  /\ Walks("Provisioning")
        /\ outcome \in StepOutcomes(restart)
        /\ DeployerStep("Provision",
               IF outcome = "Complete"
               THEN [markOperational(attempted) EXCEPT
                        !.state = "Provisioned",
                        !.lastSuccessfulRun = cached.currentRun,
                        !.errorCount = 0, !.restartCount = 0, !.updated = TRUE]
               ELSE applyNonCompleteOutcome(attempted, outcome, restart))
        /\ runs' = {[r EXCEPT !.done = @ \/ (outcome = "Complete"
                                             /\ r.id = cached.currentRun)] : r \in runs}

-----------------------------------------------------------------------------
(* The delete walk.                                                        *)

Deleting == Active /\ machine.life = "deleting"

\* Mutant: the status write is taken to queue the Machine.
EnterDeleteWalkRests ==
    /\ Deleting /\ cached.state \notin DeleteStage
    /\ Rest
    /\ StatusOnly(advanceDeleteStage(cached, "Deprovisioning"))

EnterDeleteWalk ==
    /\ Deleting /\ cached.state \notin DeleteStage
    /\ Again
    /\ StatusOnly(advanceDeleteStage(cached, "Deprovisioning"))

\* advanceDeleteStage from the stage at hand: on to PoweringOff, or, with
\* releaseMachine, the Secret's finalizer goes and then the Machine's.
LeaveDeleteStage(s) ==
    IF cached.state = "Deprovisioning"
    THEN /\ Save(advanceDeleteStage(s, "PoweringOff"))
         /\ Again
         /\ UNCHANGED <<machine, secrets>>
    ELSE /\ secrets' = [secrets EXCEPT ![machine.secretRef] =
                           IF @ = "claimed" THEN "free" ELSE @]
         /\ machine' = [machine EXCEPT !.life = "gone", !.finalizer = FALSE]
         /\ Save(s)
         /\ Rest

\* A detached Machine skips the stage.
SkipDeleteStage ==
    /\ Deleting /\ cached.state \in DeleteStage /\ has("detached")
    /\ LeaveDeleteStage(cached)
    /\ call' = NoCall
    /\ UNCHANGED <<claim, runs, lastRun, plan, spent>>

\* recordDeleteStageFailure gives the stage up after its limit.
runDeleteStage(outcome) ==
    LET failed == applyFailure(cached, outcome)
        stay(s) == Save(s) /\ Again /\ UNCHANGED <<machine, secrets>>
    IN  /\ Deleting /\ cached.state \in DeleteStage /\ ~has("detached")
        /\ outcome \in IF cached.state = "Deprovisioning"
                       THEN DeprovisionOutcomes ELSE PowerOffOutcomes
        /\ call' = IF cached.state = "Deprovisioning"
                   THEN [op |-> "Deprovision", restart |-> restartOnFailure(cached)]
                   ELSE [op |-> "PowerOff", restart |-> FALSE]
        /\ IF outcome = "Complete" THEN LeaveDeleteStage(cached)
           ELSE IF outcome = "Continuing" THEN stay(clearRetryStatus(cached, FALSE))
           ELSE IF outcome = "Delayed" THEN stay(markDelayed(cached))
           ELSE IF failed.errorCount > deleteStageMaxErrorCount THEN LeaveDeleteStage(failed)
           ELSE stay([failed EXCEPT !.updated = TRUE])
        /\ UNCHANGED <<claim, runs, lastRun, plan, spent>>

-----------------------------------------------------------------------------
(* The claim controller, as ClaimBinding specifies it.  A change of        *)
(* claimRef is a change of the Machine's generation and queues it; a       *)
(* change of the claim's status is filtered out by the claim watch.        *)

ClaimStep ==
    /\ call' = NoCall
    /\ UNCHANGED <<status, cached, runs, lastRun, secrets, plan>>

tryBind ==
    /\ claim.exists /\ ~claim.deleting
    /\ machine.life # "gone"
    /\ machine.claimRef = 0 /\ status.state = "Available"
    /\ machine' = [machine EXCEPT !.claimRef = claim.uid]
    /\ Again /\ ClaimStep
    /\ UNCHANGED <<claim, spent>>

RecordBound ==
    /\ Resolves /\ ~claim.recorded
    /\ claim' = [claim EXCEPT !.recorded = TRUE]
    /\ ClaimStep
    /\ UNCHANGED <<machine, queued, spent>>

NoClaim == [claim EXCEPT !.exists = FALSE, !.deleting = FALSE,
                         !.intent = 0, !.recorded = FALSE]

\* onDelete: the claimRef is cleared, then the claim's finalizer.
ReleaseClaim ==
    /\ claim.exists /\ claim.deleting
    /\ claim' = NoClaim
    /\ IF Resolves
       THEN machine' = [machine EXCEPT !.claimRef = 0] /\ Again
       ELSE UNCHANGED <<machine, queued>>
    /\ ClaimStep
    /\ UNCHANGED spent

\* clearOrphanedClaimRefs.
ClearOrphan ==
    /\ machine.claimRef # 0 /\ ~claim.exists
    /\ machine' = [machine EXCEPT !.claimRef = 0]
    /\ Again /\ ClaimStep
    /\ UNCHANGED <<claim, spent>>

ClaimController == tryBind \/ RecordBound \/ ReleaseClaim \/ ClearOrphan

-----------------------------------------------------------------------------
(* Users.                                                                  *)

Edit ==
    /\ spent.edits < MaxEdits /\ spent' = [spent EXCEPT !.edits = @ + 1]
    /\ call' = NoCall
    /\ UNCHANGED <<status, cached, lastRun>>

\* Generation and annotation changes pass machineUpdatePredicate.
EditMachine(m) ==
    /\ Edit /\ machine.life # "gone"
    /\ machine' = m
    /\ Again
    /\ UNCHANGED <<claim, runs, secrets, plan>>

Annotate ==
    \E a \in Annotations :
        LET old == machine.annotations
        IN  EditMachine([machine EXCEPT !.annotations =
                            IF a \in old THEN old \ {a} ELSE old \cup {a}])

EditSecretRef ==
    \E n \in Secrets \ {machine.secretRef} :
        EditMachine([machine EXCEPT !.secretRef = n])

DeleteMachine ==
    /\ machine.life = "live"
    /\ EditMachine([machine EXCEPT !.life = IF machine.finalizer THEN "deleting" ELSE "gone"])

\* mapClaimToMachine finds the Machine through the claim's status.machineName.
EditClaim(c) ==
    /\ Edit
    /\ claim' = c
    /\ queued' = (queued \/ claim.recorded)
    /\ UNCHANGED <<machine, runs, secrets, plan>>

CreateClaim ==
    /\ ~claim.exists /\ claim.uid < MaxUid
    /\ \E i \in Intents :
          EditClaim([uid |-> claim.uid + 1, exists |-> TRUE, deleting |-> FALSE,
                     intent |-> i, recorded |-> FALSE])

ChangeIntent ==
    /\ claim.exists /\ ~claim.deleting
    /\ EarlyEdits \/ claim.recorded \/ ~Resolves
    /\ \E i \in Intents \ {claim.intent} : EditClaim([claim EXCEPT !.intent = i])

DeleteClaim ==
    /\ claim.exists /\ ~claim.deleting
    /\ EditClaim([claim EXCEPT !.deleting = TRUE])

\* Images, hooks, hardware and seeders come and go; no watch reports them.
ChangePlan ==
    /\ Edit
    /\ plan' \in Plan \ {plan}
    /\ UNCHANGED <<machine, claim, runs, secrets, queued>>

\* deployRunDeletionOnly: the deletion queues the Machine that owns the run.
\* The bound on runs leaves the controller one more to create.
DeleteRun ==
    /\ Edit /\ lastRun < MaxRuns
    /\ \E r \in runs : runs' = runs \ {r}
    /\ Again
    /\ UNCHANGED <<machine, claim, secrets, plan>>

\* A claimed Secret stays until its finalizer is removed.
ChangeSecret ==
    /\ Edit
    /\ \E n \in Secrets :
          /\ secrets[n] # "claimed"
          /\ secrets' = [secrets EXCEPT ![n] = IF @ = "absent" THEN "free" ELSE "absent"]
    /\ UNCHANGED <<machine, claim, runs, plan, queued>>

User == \/ Annotate \/ EditSecretRef \/ DeleteMachine
        \/ CreateClaim \/ ChangeIntent \/ DeleteClaim
        \/ ChangePlan \/ DeleteRun \/ ChangeSecret

-----------------------------------------------------------------------------
(* Losses.                                                                 *)

Lose == /\ spent.losses < MaxLosses
        /\ spent' = [spent EXCEPT !.losses = @ + 1]
        /\ machine.life = "live"
        /\ call' = NoCall
        /\ UNCHANGED <<machine, runs, lastRun, secrets, plan>>

\* A restore brings the Machine back without its status.
LoseStatus == Lose /\ Save(EmptyStatus) /\ Again /\ UNCHANGED claim

\* The status carries an errorType of another release of the controller.
OtherRelease ==
    /\ status.op = "error"
    /\ Lose /\ Save([status EXCEPT !.errorType = "Other"])
    /\ Again /\ UNCHANGED claim

\* The claim goes and the claimRef stays (ClaimBinding shows how it can).
LoseClaim ==
    /\ claim.exists
    /\ Lose /\ claim' = NoClaim
    /\ SameStatus /\ UNCHANGED queued

\* The watch event of a status write reaches the cache, and queues nothing.
Deliver ==
    /\ cached # status
    /\ cached' = status
    /\ call' = NoCall
    /\ UNCHANGED <<machine, status, claim, runs, lastRun, secrets, plan, queued, spent>>

-----------------------------------------------------------------------------
Init ==
    /\ \E n \in Secrets :
          machine = [life |-> "live", finalizer |-> FALSE, annotations |-> {},
                     claimRef |-> 0, secretRef |-> n]
    /\ status = EmptyStatus /\ cached = EmptyStatus
    /\ claim = [uid |-> 0, exists |-> FALSE, deleting |-> FALSE, intent |-> 0,
                recorded |-> FALSE]
    /\ runs = {} /\ lastRun = 0
    /\ secrets = [n \in Secrets |-> "free"]
    /\ plan = "ready"
    /\ queued = TRUE
    /\ call = NoCall
    /\ spent = [edits |-> 0, crashes |-> 0, losses |-> 0]

DeployerAnswers(outcome) ==
    reconcileInspecting(outcome) \/ reconcileProvisioning(outcome)

DeleteWalk ==
    \/ EnterDeleteWalk \/ SkipDeleteStage
    \/ \E o \in Outcome : runDeleteStage(o)

Reconcile ==
    \/ ReconcilePaused \/ ReconcileHeld \/ AddFinalizer
    \/ reconcileDetached \/ clearDetached
    \/ reconcileReInspect \/ reconcileClearError
    \/ RestartWalk \/ ReleaseToOperator
    \/ reconcileEmptyStatus \/ reconcileStatusLossHold
    \/ FinishEnrolling \/ SkipInspection \/ AwaitSecret
    \/ IdleWaits \/ IdleInvalid \/ IdleRests
    \/ RunAwaitsClaim \/ StartRunWaits \/ StartRunFails
    \/ startProvisioningRun \/ recordCurrentRunDeleted
    \/ \E o \in Outcome : reconcileReboot(o) \/ DeployerAnswers(o)
    \/ DeleteWalk

Next ==
    \/ Reconcile \/ ClaimController \/ User
    \/ LoseStatus \/ OtherRelease \/ LoseClaim
    \/ Deliver

Spec == Init /\ [][Next]_vars

-----------------------------------------------------------------------------
(* Properties.                                                             *)

\* Every variable has its type.
TypeOK ==
    /\ machine \in Machine
    /\ status \in Status /\ cached \in Status
    /\ claim \in Claim
    /\ runs \subseteq Run
    /\ lastRun \in 0..MaxRuns
    /\ secrets \in [Secrets -> {"absent", "free", "claimed"}]
    /\ plan \in Plan
    /\ queued \in BOOLEAN
    /\ call \in Call
    /\ spent \in [edits : 0..MaxEdits, crashes : 0..MaxCrashes, losses : 0..MaxLosses]

\* Outside the delete walk a Machine is held exactly when its Restart failures
\* have used up the three attempts: no path resets the one without the other.
HeldExactlyWhenExhausted ==
    status.state \notin DeleteStage
        => (status.retryHeld <=> status.restartCount >= maxRestartFailures)

\* A hold ends only by an operator's clear-error annotation (or with the whole
\* status): not by a re-inspect, a reboot, a release, or a detour through the
\* detached annotation.
OnlyClearErrorEndsHold ==
    [][(status.retryHeld /\ ~status'.retryHeld)
            => has("clear-error") \/ status' = EmptyStatus]_vars

\* What is being written to the disks was asked for by the claim that holds the
\* Machine: a new tenant never inherits the run of an earlier one.
ProvisionsForItsClaim ==
    (status.state = "Provisioning" /\ machine.claimRef # 0)
        => \A r \in RunNamed(status.currentRun) : r.claim = machine.claimRef

\* "A non-empty payload triggers once": no second run is created for the same
\* claim and intent while the first is still to succeed.
TriggersOnce ==
    [][\A r \in runs' \ runs :
          (\A q \in runs : q.id # r.id)
            => ~\E q \in runs : q.claim = r.claim /\ q.intent = r.intent /\ ~q.done]_vars

\* A held Machine is left alone: until it is deleted, nothing but an operator's
\* reboot annotation makes the controller call the deployer for it.
HeldOnlyReboots ==
    [][(status.retryHeld /\ machine.life = "live") => call'.op \in {"", "Reboot"}]_vars

\* "The controller stops calling the deployer entirely" once a Machine is held.
HeldMakesNoCall ==
    [][(status.retryHeld /\ machine.life = "live") => call'.op = ""]_vars

\* A Machine whose status was lost while its claim has intent and runs exist is
\* held until "an operator editing the confirm annotation (or the spec)": once
\* the reconciler sees the loss, the Machine does not leave the empty state,
\* towards another deployment, by itself.
LossIsConfirmed ==
    [][(status.state = "" /\ cached.state = "" /\ status'.state \notin DeleteStage \cup {""}
        /\ Payload # 0 /\ runs # {})
            => has("confirm-status-loss")]_vars

\* restartOnFailure goes "into the deployer's next Inspect/Provision call": as
\* long as Restart is the recorded error class, no step resumes in place.
RestartIsHonoured ==
    [][(status.errorType = "Restart" /\ call'.op \in {"Inspect", "Provision"})
            => call'.restart]_vars

\* releaseMachine releases the Secret "before the Machine's own finalizer,
\* since once the Machine is actually removed nothing" could still clear it.
NoSecretStaysClaimed ==
    machine.life = "gone" => \A n \in Secrets : secrets[n] # "claimed"

-----------------------------------------------------------------------------
(* Liveness.  The work queue hands out every key it holds and every        *)
(* requeue timer fires; the claim controller does its part.  A step that   *)
(* is polled again and again ends: the boot token expires, and a run       *)
(* without progress is declared stalled, so an attempt succeeds or fails.  *)

Fairness ==
    /\ WF_vars(Reconcile)
    /\ SF_vars(\E o \in {"Complete", "Restart"} : DeployerAnswers(o))
    /\ WF_vars(ClaimController)
    /\ WF_vars(Deliver)

FairSpec == Spec /\ Fairness

\* "A dead stage must never block the machine's removal": a deleted Machine goes.
DeletedMachineGoes == (machine.life = "deleting") ~> (machine.life = "gone")

\* "Deleting a MachineClaim releases its Machine: ... the Machine moves to
\* Released".
ReleaseFollowsClaim ==
    (machine.claimRef = 0 /\ releaseEligible(status.state) /\ machine.life = "live")
        ~> (~releaseEligible(status.state) \/ machine.life # "live")

\* The claim asks for the intent i and nothing stands in the way.
Asks(i) ==
    /\ machine.life = "live" /\ machine.annotations = {}
    /\ Resolves /\ ~claim.deleting /\ claim.intent = i
    /\ plan = "ready" /\ secrets[machine.secretRef] # "absent"

\* A Machine comes to carry what its claim asks for, or is held: no edit of the
\* claim, deleted run, failure or delay on the way is forgotten.
ConvergesToIntent ==
    \A i \in Intents \ {0} :
        <>[]Asks(i) => <>[](\/ status.retryHeld
                            \/ /\ status.state = "Provisioned"
                               /\ \E r \in RunNamed(status.lastSuccessfulRun) : r.intent = i)

\* "Give it a Machine, and it deploys": a run for this claim succeeds.
ClaimIsDeployed ==
    \A i \in Intents \ {0} :
        <>[]Asks(i) => <>[](\/ status.retryHeld
                            \/ \E r \in runs : r.claim = claim.uid /\ r.done)

\* "Set clear-error to release the hold".
ClearErrorReleases ==
    (status.retryHeld /\ has("clear-error")) ~> (~status.retryHeld \/ machine.life # "live")
=============================================================================
