----------------------- MODULE MachineLifecycleProofs -----------------------
(***************************************************************************)
(* Theorems about a Machine, for every set of claims, intents, annotations *)
(* and Secrets and any number of edits, crashes and losses: the hold of a  *)
(* failing one agrees with the count of its failures and only an           *)
(* operator's clear-error ends it, a deployment is always the one of the   *)
(* claim that holds the Machine, and a lost status is not deployed over    *)
(* before an operator confirms.                                            *)
(***************************************************************************)
EXTENDS MachineLifecycle, TLAPS

OpType == {"", "OK", "error", "delayed", "detached"}

\* A status whose counters are any numbers.
Shape == [state : State, op : OpType, errorType : {"", "Transient", "Restart", "Other"},
          errorCount : Nat, restartCount : Nat, statusLossHold : BOOLEAN,
          retryHeld : BOOLEAN, updated : BOOLEAN, currentRun : Nat,
          lastSuccessfulRun : Nat, lastAttemptedRun : Nat]

\* The hold agrees with the count, and only a deployment or an inspection is ever held.
Sound(s) ==
    /\ s \in Shape
    /\ s.state \notin DeleteStage => (s.retryHeld <=> s.restartCount >= maxRestartFailures)
    /\ s.retryHeld => s.state \in {"Inspecting", "Provisioning"} \cup DeleteStage

\* A status as after the failure of a step that may be held.
Holdable(s) == s.state \in {"Inspecting", "Provisioning"}

-----------------------------------------------------------------------------
(* What the updates of the status do.                                      *)

\* Another state starts with a clean slate.
LEMMA SetStateSound ==
    ASSUME NEW s \in Shape, NEW st \in State
    PROVE  Sound(setState(s, st)) /\ ~setState(s, st).retryHeld
  <1>1. /\ setState(s, st) \in Shape /\ setState(s, st).restartCount = 0
        /\ setState(s, st).retryHeld = FALSE
    BY Zenon DEF setState, markOperational, Shape, OpType
  <1>2. ~(0 >= maxRestartFailures)
    BY DEF maxRestartFailures
  <1>3. QED
    BY <1>1, <1>2 DEF Sound

\* Delays and the op field leave the hold alone.
LEMMA QuietSound ==
    ASSUME NEW s, Sound(s)
    PROVE  /\ Sound(markDelayed(s)) /\ markDelayed(s).retryHeld = s.retryHeld
           /\ Sound(markOperational(s)) /\ markOperational(s).retryHeld = s.retryHeld
           /\ Sound([markOperational(s) EXCEPT !.updated = TRUE])
           /\ [markOperational(s) EXCEPT !.updated = TRUE].retryHeld = s.retryHeld
           /\ Sound([s EXCEPT !.currentRun = 0]) /\ [s EXCEPT !.currentRun = 0].retryHeld = s.retryHeld
           /\ [s EXCEPT !.currentRun = 0].state = s.state
           /\ Sound([s EXCEPT !.op = "detached", !.updated = TRUE])
           /\ [s EXCEPT !.op = "detached", !.updated = TRUE].retryHeld = s.retryHeld
           /\ Sound([s EXCEPT !.statusLossHold = TRUE, !.updated = TRUE])
           /\ [s EXCEPT !.statusLossHold = TRUE, !.updated = TRUE].retryHeld = s.retryHeld
  BY Zenon DEF markDelayed, markOperational, Sound, Shape, OpType

\* A counter at the limit stays there.
LEMMA BumpFacts ==
    \A n \in Nat : Bump(n) \in Nat /\ (n >= maxRestartFailures => Bump(n) >= maxRestartFailures)
  BY DEF Bump, CountCeiling, deleteStageMaxErrorCount, maxRestartFailures

\* What a failure changes.
LEMMA ApplyFailureFacts ==
    ASSUME NEW s \in Shape, NEW type \in {"Transient", "Restart"}
    PROVE  /\ applyFailure(s, type) \in Shape
           /\ applyFailure(s, type).state = s.state
           /\ applyFailure(s, type).retryHeld = s.retryHeld
           /\ applyFailure(s, type).restartCount =
                 IF type = "Restart" THEN Bump(s.restartCount) ELSE s.restartCount
  <1>1. Bump(s.errorCount) \in Nat /\ Bump(s.restartCount) \in Nat
    BY BumpFacts, Zenon DEF Shape
  <1>2. QED
    BY <1>1, Zenon DEF applyFailure, Shape, OpType

\* A failure that is recorded holds the Machine exactly when the attempts are used up.
LEMMA FailureSound ==
    ASSUME NEW s, Sound(s), NEW type \in {"Transient", "Restart"}, s.state \notin DeleteStage,
           type = "Restart" => Holdable(s)
    PROVE  /\ Sound(recordFailure(s, type))
           /\ s.retryHeld => recordFailure(s, type).retryHeld
  <1> DEFINE f == applyFailure(s, type)
             held == f.retryHeld \/ (type = "Restart" /\ f.restartCount >= maxRestartFailures)
             r == [f EXCEPT !.updated = TRUE, !.retryHeld = held]
  <1>1. /\ f \in Shape /\ f.state = s.state /\ f.retryHeld = s.retryHeld
        /\ f.restartCount = IF type = "Restart" THEN Bump(s.restartCount) ELSE s.restartCount
    BY ApplyFailureFacts DEF Sound
  <1>2. recordFailure(s, type) = r
    BY Zenon DEF recordFailure
  <1> HIDE DEF f
  <1>3. /\ r \in Shape /\ r.state = s.state /\ r.restartCount = f.restartCount
        /\ r.retryHeld = held
    BY <1>1, Zenon DEF Shape
  <1>4. s.retryHeld <=> s.restartCount >= maxRestartFailures
    BY DEF Sound
  <1>5. s.restartCount \in Nat
    BY Zenon DEF Sound, Shape
  <1>6. held <=> f.restartCount >= maxRestartFailures
    BY <1>1, <1>4, <1>5, BumpFacts
  <1>7. held => s.state \in {"Inspecting", "Provisioning"}
    <2>1. CASE type = "Restart"
      BY <2>1 DEF Holdable
    <2>2. CASE type # "Restart"
      BY <1>1, <2>2 DEF Sound
    <2>3. QED
      BY <2>1, <2>2
  <1>8. s.retryHeld => held
    BY <1>1
  <1> HIDE DEF r, held
  <1>9. QED
    BY <1>2, <1>3, <1>6, <1>7, <1>8 DEF Sound

\* A failed reboot never holds the Machine, in whatever state it is.
LEMMA RebootFailureSound ==
    ASSUME NEW s, Sound(s)
    PROVE  /\ Sound(recordFailure(s, "Transient"))
           /\ recordFailure(s, "Transient").retryHeld = s.retryHeld
  <1> DEFINE f == applyFailure(s, "Transient")
             r == [f EXCEPT !.updated = TRUE,
                            !.retryHeld = f.retryHeld \/ ("Transient" = "Restart"
                                             /\ f.restartCount >= maxRestartFailures)]
  <1>1. /\ f \in Shape /\ f.state = s.state /\ f.retryHeld = s.retryHeld
        /\ f.restartCount = s.restartCount
    BY ApplyFailureFacts DEF Sound
  <1>2. recordFailure(s, "Transient") = r
    BY Zenon DEF recordFailure
  <1> HIDE DEF f
  <1>3. r \in Shape /\ r.state = s.state /\ r.restartCount = s.restartCount /\ r.retryHeld = s.retryHeld
    BY <1>1, Zenon DEF Shape
  <1> HIDE DEF r
  <1>4. QED
    BY <1>2, <1>3 DEF Sound

\* So does every answer of the deployer short of success.
LEMMA OutcomeSound ==
    ASSUME NEW s, Sound(s), NEW o \in Outcome \ {"Complete"}, NEW restarting,
           s.state \notin DeleteStage, o = "Restart" => Holdable(s)
    PROVE  /\ Sound(applyNonCompleteOutcome(s, o, restarting))
           /\ s.retryHeld => applyNonCompleteOutcome(s, o, restarting).retryHeld
  <1>1. CASE o = "Continuing"
    <2>1. applyNonCompleteOutcome(s, o, restarting)
             \in {s, [markOperational(s) EXCEPT !.updated = TRUE]}
      BY <1>1 DEF applyNonCompleteOutcome, clearRetryStatus
    <2>2. QED
      BY <2>1, QuietSound, ZenonT(40)
  <1>2. CASE o = "Delayed"
    <2>1. applyNonCompleteOutcome(s, o, restarting) = markDelayed(s)
      BY <1>2 DEF applyNonCompleteOutcome
    <2>2. QED
      BY <2>1, QuietSound, Zenon
  <1>3. CASE o \in {"Transient", "Restart"}
    <2>1. applyNonCompleteOutcome(s, o, restarting) = recordFailure(s, o)
      BY <1>3 DEF applyNonCompleteOutcome
    <2>2. QED
      BY <1>3, <2>1, FailureSound
  <1>4. QED
    BY <1>1, <1>2, <1>3 DEF Outcome

\* The delete walk keeps the hold, whatever its own failures count.
LEMMA DeleteSound ==
    ASSUME NEW s, Sound(s)
    PROVE  /\ \A d \in DeleteStage : Sound(advanceDeleteStage(s, d))
           /\ \A d \in DeleteStage : advanceDeleteStage(s, d).retryHeld = s.retryHeld
           /\ \A type \in {"Transient", "Restart"} :
                 s.state \in DeleteStage =>
                   /\ Sound(applyFailure(s, type)) /\ applyFailure(s, type).retryHeld = s.retryHeld
                   /\ Sound([applyFailure(s, type) EXCEPT !.updated = TRUE])
                   /\ [applyFailure(s, type) EXCEPT !.updated = TRUE].retryHeld = s.retryHeld
  <1>1. ASSUME NEW d \in DeleteStage
        PROVE  Sound(advanceDeleteStage(s, d)) /\ advanceDeleteStage(s, d).retryHeld = s.retryHeld
    <2>1. /\ advanceDeleteStage(s, d) \in Shape /\ advanceDeleteStage(s, d).state = d
          /\ advanceDeleteStage(s, d).retryHeld = s.retryHeld
      BY Zenon DEF advanceDeleteStage, markOperational, Sound, Shape, OpType, State
    <2>2. QED
      BY <2>1 DEF Sound
  <1>2. ASSUME NEW type \in {"Transient", "Restart"}, s.state \in DeleteStage
        PROVE  /\ Sound(applyFailure(s, type)) /\ applyFailure(s, type).retryHeld = s.retryHeld
               /\ Sound([applyFailure(s, type) EXCEPT !.updated = TRUE])
               /\ [applyFailure(s, type) EXCEPT !.updated = TRUE].retryHeld = s.retryHeld
    <2> DEFINE f == applyFailure(s, type)
    <2>1. f \in Shape /\ f.state = s.state /\ f.retryHeld = s.retryHeld
      BY ApplyFailureFacts DEF Sound
    <2>2. /\ [f EXCEPT !.updated = TRUE] \in Shape /\ [f EXCEPT !.updated = TRUE].state = s.state
          /\ [f EXCEPT !.updated = TRUE].retryHeld = s.retryHeld
      BY <2>1, Zenon DEF Shape
    <2>3. QED
      BY <1>2, <2>1, <2>2 DEF Sound
  <1>3. QED
    BY <1>1, <1>2


-----------------------------------------------------------------------------
(* The invariant, and what one step may do to a hold.                      *)

HoldInv ==
    /\ Sound(status) /\ Sound(cached)
    /\ ~Lagging => cached = status
    /\ lastRun \in Nat

\* The body of OnlyClearErrorEndsHold.
KeepsHold ==
    (status.retryHeld /\ ~status'.retryHeld) => has("clear-error") \/ status' = EmptyStatus

Good == HoldInv' /\ (~Lagging => KeepsHold)

\* Writing a sound status that is held if the one it was computed from was.
LEMMA SaveIsGood ==
    ASSUME HoldInv, NEW s, Sound(s), Save(s), lastRun' \in Nat,
           ~Lagging => \/ cached.retryHeld => s.retryHeld
                       \/ has("clear-error")
                       \/ s = EmptyStatus
    PROVE  Good
  BY LimitsAssumption DEF HoldInv, Good, KeepsHold, Save

\* Steps that leave the status alone.
LEMMA SameIsGood ==
    ASSUME HoldInv, UNCHANGED <<status, cached, lastRun>>
    PROVE  Good
  BY DEF HoldInv, Good, KeepsHold

\* Steps that only write a status, computed from the cached or the stored one.
LEMMA StatusOnlyIsGood ==
    ASSUME HoldInv, NEW s, Sound(s), StatusOnly(s),
           ~Lagging => (cached.retryHeld => s.retryHeld)
    PROVE  Good
  <1>1. Save(s) /\ lastRun' \in Nat
    BY DEF StatusOnly, HoldInv
  <1>2. QED
    BY <1>1, SaveIsGood

\* Annotations are consumed, and the status written after that or not at all.
LEMMA ConsumeIsGood ==
    ASSUME HoldInv, NEW a, NEW s, Sound(s), Consume(a, s),
           ~Lagging => (cached.retryHeld => s.retryHeld) \/ has("clear-error")
    PROVE  Good
  <1>1. lastRun' = lastRun /\ (Save(s) \/ SameStatus)
    BY DEF Consume
  <1>2. CASE Save(s)
    BY <1>1, <1>2, SaveIsGood DEF HoldInv
  <1>3. CASE SameStatus
    BY <1>1, <1>3, SameIsGood DEF SameStatus
  <1>4. QED
    BY <1>1, <1>2, <1>3

\* Before the walk: annotations.
LEMMA AnnotationsAreGood ==
    ASSUME HoldInv,
           \/ ReconcilePaused \/ ReconcileHeld \/ AddFinalizer \/ reconcileDetached
           \/ clearDetached \/ reconcileReInspect \/ reconcileClearError
           \/ \E o \in Outcome : reconcileReboot(o)
    PROVE  Good
  <1>0. Sound(status) /\ Sound(cached) /\ status \in Shape
    BY DEF HoldInv, Sound
  <1>1. CASE ReconcilePaused \/ ReconcileHeld \/ AddFinalizer
    BY <1>1, SameIsGood DEF ReconcilePaused, ReconcileHeld, AddFinalizer
  <1>2. CASE reconcileDetached
    <2> DEFINE s == IF cached.op = "detached" THEN status
                    ELSE [cached EXCEPT !.op = "detached", !.updated = TRUE]
    <2>1. StatusOnly(s)
      BY <1>2 DEF reconcileDetached
    <2>2. Sound(s) /\ (~Lagging => (cached.retryHeld => s.retryHeld))
      BY <1>0, QuietSound, ZenonT(40) DEF HoldInv
    <2> HIDE DEF s
    <2>3. QED
      BY <2>1, <2>2, StatusOnlyIsGood
  <1>3. CASE clearDetached
    BY <1>0, <1>3, QuietSound, StatusOnlyIsGood, Zenon DEF clearDetached
  <1>4. CASE reconcileReInspect
    <2> DEFINE s == IF reInspectAcceptable THEN setState(status, "Inspecting") ELSE status
    <2>1. Consume("re-inspect", s)
      BY <1>4 DEF reconcileReInspect
    <2>2. Sound(s)
      BY <1>0, SetStateSound, Zenon DEF State
    <2>3. ~Lagging => (cached.retryHeld => s.retryHeld)
      <3>1. reInspectAcceptable => ~cached.retryHeld
        BY <1>0 DEF reInspectAcceptable, Sound, DeleteStage
      <3>2. QED
        BY <3>1 DEF HoldInv
    <2> HIDE DEF s
    <2>4. QED
      BY <2>1, <2>2, <2>3, ConsumeIsGood
  <1>5. CASE reconcileClearError
    <2> DEFINE s == [markOperational(status) EXCEPT
                        !.errorCount = 0, !.restartCount = 0, !.retryHeld = FALSE, !.updated = TRUE]
    <2>1. Consume("clear-error", s) /\ has("clear-error")
      BY <1>5 DEF reconcileClearError
    <2>2. s \in Shape /\ s.restartCount = 0 /\ s.retryHeld = FALSE
      BY <1>0, Zenon DEF markOperational, Shape, OpType
    <2> HIDE DEF s
    <2>3. Sound(s)
      BY <2>2 DEF Sound, maxRestartFailures
    <2>4. QED
      BY <2>1, <2>3, ConsumeIsGood
  <1>6. CASE \E o \in Outcome : reconcileReboot(o)
    <2>1. PICK o \in Outcome : reconcileReboot(o)
      BY <1>6
    <2>2. lastRun' = lastRun
      BY <2>1 DEF reconcileReboot
    <2>3. CASE o = "Complete"
      BY <2>1, <2>2, <2>3, SameIsGood DEF reconcileReboot, SameStatus
    <2>4. CASE o # "Complete"
      <3> DEFINE s == applyNonCompleteOutcome(cached, o, FALSE)
      <3>1. Save(s) /\ o \in {"Delayed", "Transient"}
        BY <2>1, <2>4, Zenon DEF reconcileReboot, RebootOutcomes
      <3>2. Sound(s) /\ (cached.retryHeld => s.retryHeld)
        <4>1. CASE o = "Delayed"
          BY <1>0, <4>1, QuietSound, Zenon DEF applyNonCompleteOutcome
        <4>2. CASE o = "Transient"
          BY <1>0, <4>2, RebootFailureSound DEF applyNonCompleteOutcome
        <4>3. QED
          BY <3>1, <4>1, <4>2, Zenon
      <3> HIDE DEF s
      <3>3. QED
        BY <2>2, <3>1, <3>2, SaveIsGood DEF HoldInv
    <2>5. QED
      BY <2>3, <2>4
  <1>7. QED
    BY <1>1, <1>2, <1>3, <1>4, <1>5, <1>6

\* The walk, short of the deployer: states are left with a clean slate.
LEMMA WalkIsGood ==
    ASSUME HoldInv,
           \/ RestartWalk \/ ReleaseToOperator \/ reconcileEmptyStatus
           \/ reconcileStatusLossHold \/ FinishEnrolling \/ SkipInspection
    PROVE  Good
  <1>0. /\ Sound(status) /\ Sound(cached) /\ status \in Shape /\ cached \in Shape
        /\ [cached EXCEPT !.currentRun = 0] \in Shape
    BY QuietSound, Zenon DEF HoldInv, Sound
  <1>1. \A s \in Shape, st \in State : Sound(setState(s, st))
    BY SetStateSound
  <1>2. CASE RestartWalk
    <2>1. StatusOnly(setState([cached EXCEPT !.currentRun = 0], "Enrolling")) /\ ~cached.retryHeld
      BY <1>2 DEF RestartWalk
    <2>2. QED
      BY <1>0, <1>1, <2>1, StatusOnlyIsGood, Zenon DEF State
  <1>3. CASE ReleaseToOperator
    <2>1. StatusOnly(setState([cached EXCEPT !.currentRun = 0], "Released")) /\ ~cached.retryHeld
      BY <1>3 DEF ReleaseToOperator
    <2>2. QED
      BY <1>0, <1>1, <2>1, StatusOnlyIsGood, Zenon DEF State
  <1>4. CASE reconcileEmptyStatus
    <2>1. ~cached.retryHeld
      BY <1>4, Zenon DEF reconcileEmptyStatus, Walks
    <2>2. \/ StatusOnly([cached EXCEPT !.statusLossHold = TRUE, !.updated = TRUE])
          \/ StatusOnly(setState(cached, "Enrolling"))
      BY <1>4, Zenon DEF reconcileEmptyStatus
    <2>3. QED
      BY <1>0, <1>1, <2>1, <2>2, QuietSound, StatusOnlyIsGood, Zenon DEF State
  <1>5. CASE reconcileStatusLossHold
    <2>1. ~cached.retryHeld
      BY <1>5, Zenon DEF reconcileStatusLossHold, Walks
    <2>2. \/ Consume("confirm-status-loss", setState(status, "Enrolling"))
          \/ StatusOnly(status)
      BY <1>5, Zenon DEF reconcileStatusLossHold
    <2>3. QED
      BY <1>0, <1>1, <2>1, <2>2, ConsumeIsGood, StatusOnlyIsGood, Zenon DEF State
  <1>6. CASE FinishEnrolling
    <2>1. StatusOnly(setState(cached, "Inspecting")) /\ ~cached.retryHeld
      BY <1>6 DEF FinishEnrolling, Walks
    <2>2. QED
      BY <1>0, <1>1, <2>1, StatusOnlyIsGood, Zenon DEF State
  <1>7. CASE SkipInspection
    <2>1. StatusOnly(setState(cached, "Available")) /\ ~cached.retryHeld
      BY <1>7 DEF SkipInspection, Walks
    <2>2. QED
      BY <1>0, <1>1, <2>1, StatusOnlyIsGood, Zenon DEF State
  <1>8. QED
    BY <1>2, <1>3, <1>4, <1>5, <1>6, <1>7

\* Waiting, and failing to build a plan.
LEMMA WaitingIsGood ==
    ASSUME HoldInv,
           \/ AwaitSecret \/ IdleWaits \/ IdleInvalid \/ IdleRests
           \/ RunAwaitsClaim \/ StartRunWaits \/ StartRunFails
    PROVE  Good
  <1>0. Sound(status) /\ Sound(cached)
    BY DEF HoldInv
  <1>1. CASE AwaitSecret \/ IdleWaits \/ RunAwaitsClaim \/ StartRunWaits
    <2>1. StatusOnly(markDelayed(cached))
      BY <1>1 DEF AwaitSecret, IdleWaits, RunAwaitsClaim, StartRunWaits
    <2>2. QED
      BY <1>0, <2>1, QuietSound, StatusOnlyIsGood, Zenon
  <1>2. CASE IdleInvalid \/ StartRunFails
    <2>1. StatusOnly(recordFailure(cached, "Transient"))
      BY <1>2 DEF IdleInvalid, StartRunFails
    <2>2. QED
      BY <1>0, <2>1, RebootFailureSound, StatusOnlyIsGood
  <1>3. CASE IdleRests
    <2>1. StatusOnly(status) /\ (~Lagging => cached = status)
      BY <1>3 DEF IdleRests, HoldInv
    <2>2. QED
      BY <1>0, <2>1, StatusOnlyIsGood
  <1>4. QED
    BY <1>1, <1>2, <1>3

\* A run starts, goes, or is polled.
LEMMA RunsAreGood ==
    ASSUME HoldInv,
           \/ startProvisioningRun \/ recordCurrentRunDeleted
           \/ \E o \in Outcome : DeployerAnswers(o)
    PROVE  Good
  <1>0. Sound(cached) /\ cached \in Shape
    BY DEF HoldInv, Sound
  <1>1. CASE startProvisioningRun
    <2> DEFINE s == [markOperational(cached) EXCEPT
                       !.state = "Provisioning", !.currentRun = lastRun',
                       !.errorCount = 0, !.restartCount = 0, !.updated = TRUE]
    <2>1. lastRun' \in Nat /\ (Save(s) \/ SameStatus) /\ ~cached.retryHeld
      BY <1>1 DEF startProvisioningRun, StartsRun, Idle, Walks, HoldInv
    <2>2. s \in Shape /\ s.restartCount = 0 /\ s.retryHeld = FALSE
      BY <1>0, <2>1, Zenon DEF markOperational, Shape, OpType, State
    <2> HIDE DEF s
    <2>3. Sound(s)
      BY <2>2 DEF Sound, maxRestartFailures
    <2>4. CASE Save(s)
      BY <2>1, <2>3, <2>4, SaveIsGood
    <2>5. CASE SameStatus
      BY <2>1, <2>5 DEF SameStatus, HoldInv, Good, KeepsHold
    <2>6. QED
      BY <2>1, <2>4, <2>5
  <1>2. CASE recordCurrentRunDeleted
    <2> DEFINE c == [cached EXCEPT !.currentRun = 0]
    <2>1. StatusOnly(recordFailure(c, "Restart")) /\ cached.state = "Provisioning" /\ ~cached.retryHeld
      BY <1>2 DEF recordCurrentRunDeleted, Walks
    <2>2. Sound(c) /\ c.state = "Provisioning"
      BY <1>0, <2>1, QuietSound, Zenon
    <2> HIDE DEF c
    <2>3. Sound(recordFailure(c, "Restart"))
      BY <2>2, FailureSound DEF Holdable, DeleteStage
    <2>4. QED
      BY <2>1, <2>3, StatusOnlyIsGood
  <1>3. ASSUME NEW o \in Outcome, reconcileInspecting(o)
        PROVE  Good
    <2> DEFINE s == IF o = "Complete" THEN setState(cached, "Available")
                    ELSE applyNonCompleteOutcome(cached, o, restartOnFailure(cached))
    <2>1. /\ Save(s) /\ lastRun' = lastRun
          /\ cached.state = "Inspecting" /\ ~cached.retryHeld
      BY <1>3 DEF reconcileInspecting, DeployerStep, Walks
    <2>2. Sound(s)
      BY <1>0, <2>1, SetStateSound, OutcomeSound, Zenon DEF State, Holdable, DeleteStage
    <2> HIDE DEF s
    <2>3. QED
      BY <2>1, <2>2, SaveIsGood DEF HoldInv
  <1>4. ASSUME NEW o \in Outcome, reconcileProvisioning(o)
        PROVE  Good
    <2> DEFINE a == [cached EXCEPT !.lastAttemptedRun =
                        IF o \in {"Complete", "Transient", "Restart"}
                        THEN cached.currentRun ELSE @]
               d == [markOperational(a) EXCEPT
                        !.state = "Provisioned", !.lastSuccessfulRun = cached.currentRun,
                        !.errorCount = 0, !.restartCount = 0, !.updated = TRUE]
               s == IF o = "Complete" THEN d
                    ELSE applyNonCompleteOutcome(a, o, restartOnFailure(cached))
    <2>1. /\ Save(s) /\ lastRun' = lastRun
          /\ cached.state = "Provisioning" /\ cached.retryHeld = FALSE
      BY <1>0, <1>4, Zenon DEF reconcileProvisioning, DeployerStep, Walks, Shape
    <2>2. /\ a \in Shape /\ a.state = cached.state /\ a.restartCount = cached.restartCount
          /\ a.retryHeld = FALSE
      BY <1>0, <2>1, Zenon DEF Shape
    <2>3. Sound(a)
      BY <1>0, <2>1, <2>2 DEF Sound
    <2>4. cached.currentRun \in Nat
      BY <1>0, Zenon DEF Shape
    <2> HIDE DEF a
    <2>5. d \in Shape /\ d.restartCount = 0 /\ d.retryHeld = FALSE
      BY <2>2, <2>4, Zenon DEF markOperational, Shape, OpType, State
    <2> HIDE DEF d
    <2>6. Sound(d)
      BY <2>5 DEF Sound, maxRestartFailures
    <2>7. Sound(s)
      BY <2>1, <2>2, <2>3, <2>6, OutcomeSound DEF Holdable, DeleteStage
    <2> HIDE DEF s
    <2>8. QED
      BY <2>1, <2>7, SaveIsGood DEF HoldInv
  <1>5. QED
    BY <1>1, <1>2, <1>3, <1>4 DEF DeployerAnswers

\* The delete walk keeps the hold it found.
LEMMA DeleteWalkIsGood ==
    ASSUME HoldInv, DeleteWalk
    PROVE  Good
  <1>0. Sound(cached)
    BY DEF HoldInv
  <1>1. CASE EnterDeleteWalk
    <2>1. StatusOnly(advanceDeleteStage(cached, "Deprovisioning"))
      BY <1>1 DEF EnterDeleteWalk
    <2>2. QED
      BY <1>0, <2>1, DeleteSound, StatusOnlyIsGood, Zenon DEF DeleteStage
  <1>2. ASSUME NEW s, Sound(s), s.retryHeld = cached.retryHeld, LeaveDeleteStage(s),
               lastRun' = lastRun
        PROVE  Good
    <2>1. Save(s) \/ Save(advanceDeleteStage(s, "PoweringOff"))
      BY <1>2 DEF LeaveDeleteStage
    <2>2. QED
      BY <1>2, <2>1, DeleteSound, SaveIsGood, Zenon DEF DeleteStage, HoldInv
  <1>3. CASE SkipDeleteStage
    BY <1>0, <1>2, <1>3 DEF SkipDeleteStage
  <1>4. ASSUME NEW o \in Outcome, runDeleteStage(o)
        PROVE  Good
    <2> DEFINE f == applyFailure(cached, o)
    <2>1. cached.state \in DeleteStage /\ lastRun' = lastRun
      BY <1>4 DEF runDeleteStage
    <2>2. \/ o = "Complete" /\ LeaveDeleteStage(cached)
          \/ Save(clearRetryStatus(cached, FALSE))
          \/ Save(markDelayed(cached))
          \/ o \in {"Transient", "Restart"} /\ LeaveDeleteStage(f)
          \/ o \in {"Transient", "Restart"} /\ Save([f EXCEPT !.updated = TRUE])
      BY <1>4, ZenonT(40) DEF runDeleteStage, Outcome
    <2>3. clearRetryStatus(cached, FALSE)
             \in {cached, [markOperational(cached) EXCEPT !.updated = TRUE]}
      BY DEF clearRetryStatus
    <2>4. CASE o = "Complete" /\ LeaveDeleteStage(cached)
      BY <1>0, <1>2, <2>1, <2>4
    <2>5. CASE Save(clearRetryStatus(cached, FALSE))
      BY <1>0, <2>1, <2>3, <2>5, QuietSound, SaveIsGood, Zenon DEF HoldInv
    <2>6. CASE Save(markDelayed(cached))
      BY <1>0, <2>1, <2>6, QuietSound, SaveIsGood, Zenon DEF HoldInv
    <2>7. CASE o \in {"Transient", "Restart"} /\ LeaveDeleteStage(f)
      BY <1>0, <1>2, <2>1, <2>7, DeleteSound, Zenon
    <2>8. CASE o \in {"Transient", "Restart"} /\ Save([f EXCEPT !.updated = TRUE])
      BY <1>0, <2>1, <2>8, DeleteSound, SaveIsGood, Zenon DEF HoldInv
    <2>9. QED
      BY <2>2, <2>4, <2>5, <2>6, <2>7, <2>8, Zenon
  <1>5. QED
    BY <1>1, <1>3, <1>4 DEF DeleteWalk

\* Claims, users and losses.
LEMMA OthersAreGood ==
    ASSUME HoldInv,
           ClaimController \/ User \/ LoseStatus \/ OtherRelease \/ LoseClaim \/ Deliver
    PROVE  Good
  <1>0. Sound(status) /\ Sound(cached) /\ status \in Shape
    BY DEF HoldInv, Sound
  <1>1. CASE ClaimController
    BY <1>1, SameIsGood DEF ClaimController, tryBind, RecordBound, ReleaseClaim, ClearOrphan, ClaimStep
  <1>2. CASE User
    <2>1. Edit
      BY <1>2 DEF User, Annotate, EditSecretRef, DeleteMachine, CreateClaim, ChangeIntent,
                  DeleteClaim, ChangePlan, DeleteRun, ChangeSecret, EditMachine, EditClaim
    <2>2. QED
      BY <2>1, SameIsGood DEF Edit
  <1>3. CASE LoseStatus
    <2>1. Save(EmptyStatus) /\ lastRun' = lastRun
      BY <1>3 DEF LoseStatus, Lose
    <2>2. Sound(EmptyStatus)
      BY DEF Sound, EmptyStatus, Shape, OpType, State, maxRestartFailures
    <2>3. QED
      BY <2>1, <2>2, SaveIsGood DEF HoldInv
  <1>4. CASE OtherRelease
    <2> DEFINE s == [status EXCEPT !.errorType = "Other"]
    <2>1. Save(s) /\ lastRun' = lastRun
      BY <1>4 DEF OtherRelease, Lose
    <2>2. /\ s \in Shape /\ s.state = status.state /\ s.retryHeld = status.retryHeld
          /\ s.restartCount = status.restartCount
      BY <1>0, Zenon DEF Shape
    <2> HIDE DEF s
    <2>3. Sound(s)
      BY <1>0, <2>2 DEF Sound
    <2>4. QED
      BY <2>1, <2>2, <2>3, SaveIsGood DEF HoldInv
  <1>5. CASE LoseClaim
    BY <1>5, SameIsGood DEF LoseClaim, Lose, SameStatus
  <1>6. CASE Deliver
    BY <1>0, <1>6 DEF Deliver, Good, HoldInv, KeepsHold
  <1>7. QED
    BY <1>1, <1>2, <1>3, <1>4, <1>5, <1>6

-----------------------------------------------------------------------------
(* The run a Machine is provisioned with, and the claim that holds it.     *)

\* Machines, claims and DeployRuns with any numbers for uids and runs.
MachineShape == [life : {"live", "deleting", "gone"}, finalizer : BOOLEAN,
                 annotations : SUBSET Annotations, claimRef : Nat, secretRef : Secrets]
ClaimShape == [uid : Nat, exists : BOOLEAN, deleting : BOOLEAN, intent : Nat, recorded : BOOLEAN]
RunShape == [id : Nat, claim : Nat, intent : Nat, done : BOOLEAN]

Objects ==
    /\ machine \in MachineShape /\ claim \in ClaimShape
    /\ runs \subseteq RunShape /\ lastRun \in Nat

\* A step that leaves the claimRef alone or clears it.
RefStays == machine'.claimRef \in {machine.claimRef, 0}

\* A step that creates no run and leaves the others their claim.
RunsStay == /\ lastRun' = lastRun
            /\ \A q \in runs' : \E r \in runs : r.id = q.id /\ r.claim = q.claim

\* A status that may be written: its state and its run are the stored ones or the cached
\* ones, or it names no deployment, or an inspection has just ended.
Follows(s) ==
    \/ s.state = status.state /\ s.currentRun \in {0, status.currentRun}
    \/ s.state = cached.state /\ s.currentRun \in {0, cached.currentRun}
    \/ /\ s.state \notin {"Provisioning", "Available"}
       /\ s.currentRun \in {0, status.currentRun, cached.currentRun}
    \/ s.state = "Available" /\ cached.state = "Inspecting" /\ s.currentRun = cached.currentRun

WriteFollows == Follows(status') /\ cached' \in {cached, status'}

\* The run that s names was made for the claim that holds the Machine.
OwnRun(s) ==
    s.state = "Provisioning" /\ machine.claimRef # 0
        => \A r \in RunNamed(s.currentRun) : r.claim = machine.claimRef

\* Runs are numbered in the order of their creation, no status names one that is still to
\* come, and a cache that trails an Available Machine shows the inspection it came from,
\* never a deployment before that: a claim that binds finds no run to inherit.
TenantInv ==
    /\ \A r \in runs : r.id \in 1..lastRun
    /\ status.currentRun \in 0..lastRun /\ cached.currentRun \in 0..lastRun
    /\ status.state = "Available" => cached.state \in {"Inspecting", "Available"}
    /\ OwnRun(status) /\ OwnRun(cached)

\* What the updates of the status leave alone.
LEMMA UpdatesKeepRun ==
    ASSUME NEW s \in Shape
    PROVE  /\ \A st \in State : /\ setState(s, st).state = st
                                /\ setState(s, st).currentRun = s.currentRun
           /\ \A d \in DeleteStage : /\ advanceDeleteStage(s, d).state = d
                                     /\ advanceDeleteStage(s, d).currentRun = s.currentRun
           /\ [s EXCEPT !.currentRun = 0] \in Shape
           /\ [s EXCEPT !.currentRun = 0].state = s.state
           /\ [s EXCEPT !.currentRun = 0].currentRun = 0
           /\ markDelayed(s).state = s.state /\ markDelayed(s).currentRun = s.currentRun
           /\ markOperational(s) \in Shape
           /\ markOperational(s).state = s.state /\ markOperational(s).currentRun = s.currentRun
  BY Zenon DEF setState, advanceDeleteStage, markDelayed, markOperational, Shape, OpType, State, DeleteStage

\* A failure that is recorded changes neither the state nor the run.
LEMMA FailureKeepsRun ==
    ASSUME NEW s \in Shape, NEW type \in {"Transient", "Restart"}
    PROVE  /\ applyFailure(s, type) \in Shape
           /\ applyFailure(s, type).state = s.state
           /\ applyFailure(s, type).currentRun = s.currentRun
           /\ recordFailure(s, type).state = s.state
           /\ recordFailure(s, type).currentRun = s.currentRun
           /\ [applyFailure(s, type) EXCEPT !.updated = TRUE].state = s.state
           /\ [applyFailure(s, type) EXCEPT !.updated = TRUE].currentRun = s.currentRun
  <1> DEFINE f == applyFailure(s, type)
             held == f.retryHeld \/ (type = "Restart" /\ f.restartCount >= maxRestartFailures)
  <1>1. Bump(s.errorCount) \in Nat /\ Bump(s.restartCount) \in Nat
    BY BumpFacts, Zenon DEF Shape
  <1>2. f \in Shape /\ f.state = s.state /\ f.currentRun = s.currentRun
    BY <1>1, Zenon DEF applyFailure, Shape, OpType
  <1>3. recordFailure(s, type) = [f EXCEPT !.updated = TRUE, !.retryHeld = held]
    BY Zenon DEF recordFailure
  <1> HIDE DEF f, held
  <1>4. /\ [f EXCEPT !.updated = TRUE, !.retryHeld = held].state = f.state
        /\ [f EXCEPT !.updated = TRUE, !.retryHeld = held].currentRun = f.currentRun
        /\ [f EXCEPT !.updated = TRUE].state = f.state
        /\ [f EXCEPT !.updated = TRUE].currentRun = f.currentRun
    BY <1>2, Zenon DEF Shape
  <1>5. QED
    BY <1>2, <1>3, <1>4 DEF f

\* Nor does any outcome but Complete.
LEMMA OutcomeKeepsRun ==
    ASSUME NEW s \in Shape, NEW o \in Outcome \ {"Complete"}, NEW restarting
    PROVE  /\ applyNonCompleteOutcome(s, o, restarting).state = s.state
           /\ applyNonCompleteOutcome(s, o, restarting).currentRun = s.currentRun
           /\ clearRetryStatus(s, restarting).state = s.state
           /\ clearRetryStatus(s, restarting).currentRun = s.currentRun
  <1>1. /\ [markOperational(s) EXCEPT !.updated = TRUE].state = s.state
        /\ [markOperational(s) EXCEPT !.updated = TRUE].currentRun = s.currentRun
    BY UpdatesKeepRun, ZenonT(40) DEF Shape
  <1>2. /\ clearRetryStatus(s, restarting).state = s.state
        /\ clearRetryStatus(s, restarting).currentRun = s.currentRun
    BY <1>1 DEF clearRetryStatus
  <1>3. CASE o = "Continuing"
    BY <1>2, <1>3 DEF applyNonCompleteOutcome
  <1>4. CASE o = "Delayed"
    BY <1>2, <1>4, UpdatesKeepRun, Zenon DEF applyNonCompleteOutcome
  <1>5. CASE o \in {"Transient", "Restart"}
    BY <1>2, <1>5, FailureKeepsRun DEF applyNonCompleteOutcome
  <1>6. QED
    BY <1>3, <1>4, <1>5 DEF Outcome

\* A status that is written reaches the cache at once or later.
LEMMA SaveFollows ==
    ASSUME NEW s, Save(s), Follows(s)
    PROVE  WriteFollows
  BY DEF Save, WriteFollows

\* A status that is not written follows.
LEMMA SameFollows ==
    ASSUME UNCHANGED <<status, cached>>
    PROVE  WriteFollows
  BY DEF WriteFollows, Follows

\* Whatever a step writes, it follows from what is stored or cached.
LEMMA AnnotationsFollow ==
    ASSUME HoldInv,
           \/ ReconcilePaused \/ ReconcileHeld \/ AddFinalizer \/ reconcileDetached
           \/ clearDetached \/ reconcileReInspect \/ reconcileClearError
           \/ \E o \in Outcome : reconcileReboot(o)
    PROVE  WriteFollows
  <1>0. status \in Shape /\ cached \in Shape
    BY DEF HoldInv, Sound
  <1>1. CASE ReconcilePaused \/ ReconcileHeld \/ AddFinalizer
    BY <1>1, SameFollows DEF ReconcilePaused, ReconcileHeld, AddFinalizer
  <1>2. CASE reconcileDetached
    <2> DEFINE s == IF cached.op = "detached" THEN status
                    ELSE [cached EXCEPT !.op = "detached", !.updated = TRUE]
    <2>1. Save(s)
      BY <1>2 DEF reconcileDetached, StatusOnly
    <2>2. Follows(s)
      BY <1>0, Zenon DEF Follows, Shape
    <2> HIDE DEF s
    <2>3. QED
      BY <2>1, <2>2, SaveFollows
  <1>3. CASE clearDetached
    <2> DEFINE s == [markOperational(cached) EXCEPT !.updated = TRUE]
    <2>1. Save(s)
      BY <1>3 DEF clearDetached, StatusOnly
    <2>2. s.state = cached.state /\ s.currentRun = cached.currentRun
      BY <1>0, UpdatesKeepRun, ZenonT(40) DEF Shape
    <2> HIDE DEF s
    <2>3. QED
      BY <2>1, <2>2, SaveFollows DEF Follows
  <1>4. CASE reconcileReInspect
    <2> DEFINE s == IF reInspectAcceptable THEN setState(status, "Inspecting") ELSE status
    <2>1. Save(s) \/ SameStatus
      BY <1>4 DEF reconcileReInspect, Consume
    <2>2. Follows(s)
      <3>1. "Inspecting" \in State
        BY DEF State
      <3>2. QED
        BY <1>0, <3>1, UpdatesKeepRun, ZenonT(40) DEF Follows
    <2> HIDE DEF s
    <2>3. QED
      BY <2>1, <2>2, SaveFollows, SameFollows DEF SameStatus
  <1>5. CASE reconcileClearError
    <2> DEFINE m == markOperational(status)
               s == [m EXCEPT !.errorCount = 0, !.restartCount = 0, !.retryHeld = FALSE,
                              !.updated = TRUE]
    <2>1. Save(s) \/ SameStatus
      BY <1>5 DEF reconcileClearError, Consume
    <2>2. s.state = status.state /\ s.currentRun = status.currentRun
      <3>1. m \in Shape /\ m.state = status.state /\ m.currentRun = status.currentRun
        BY <1>0, UpdatesKeepRun, Zenon
      <3> HIDE DEF m
      <3>2. QED
        BY <3>1, Zenon DEF Shape
    <2> HIDE DEF s
    <2>3. QED
      BY <2>1, <2>2, SaveFollows, SameFollows DEF SameStatus, Follows
  <1>6. CASE \E o \in Outcome : reconcileReboot(o)
    <2>1. PICK o \in Outcome : reconcileReboot(o)
      BY <1>6
    <2>2. CASE o = "Complete"
      BY <2>1, <2>2, SameFollows DEF reconcileReboot, SameStatus
    <2>3. CASE o # "Complete"
      <3> DEFINE s == applyNonCompleteOutcome(cached, o, FALSE)
      <3>1. Save(s)
        BY <2>1, <2>3, Zenon DEF reconcileReboot
      <3>2. s.state = cached.state /\ s.currentRun = cached.currentRun
        <4>1. \A b : /\ applyNonCompleteOutcome(cached, o, b).state = cached.state
                     /\ applyNonCompleteOutcome(cached, o, b).currentRun = cached.currentRun
          BY <1>0, <2>3, OutcomeKeepsRun
        <4>2. QED
          BY <4>1, Zenon
      <3> HIDE DEF s
      <3>3. QED
        BY <3>1, <3>2, SaveFollows DEF Follows
    <2>4. QED
      BY <2>2, <2>3
  <1>7. QED
    BY <1>1, <1>2, <1>3, <1>4, <1>5, <1>6

\* The handlers of the walk towards Available.
LEMMA WalkFollows ==
    ASSUME HoldInv,
           \/ RestartWalk \/ ReleaseToOperator \/ reconcileEmptyStatus
           \/ reconcileStatusLossHold \/ FinishEnrolling \/ SkipInspection
    PROVE  WriteFollows
  <1> DEFINE c == [cached EXCEPT !.currentRun = 0]
  <1>0. /\ status \in Shape /\ cached \in Shape
        /\ c \in Shape /\ c.state = cached.state /\ c.currentRun = 0
    BY UpdatesKeepRun DEF HoldInv, Sound
  <1> HIDE DEF c
  <1>s. {"Enrolling", "Inspecting", "Available", "Released"} \subseteq State
    BY DEF State
  <1>f. ASSUME NEW s \in {status, cached, c}, NEW st \in State
        PROVE  /\ setState(s, st).state = st
               /\ setState(s, st).currentRun \in {0, status.currentRun, cached.currentRun}
    <2>1. s \in Shape
      BY <1>0
    <2>2. setState(s, st).state = st /\ setState(s, st).currentRun = s.currentRun
      BY <2>1, UpdatesKeepRun, Zenon
    <2>3. QED
      BY <1>0, <2>2
  <1>1. CASE RestartWalk
    <2>1. Save(setState(c, "Enrolling"))
      BY <1>1 DEF RestartWalk, StatusOnly, c
    <2>2. QED
      BY <1>s, <1>f, <2>1, SaveFollows DEF Follows
  <1>2. CASE ReleaseToOperator
    <2>1. Save(setState(c, "Released"))
      BY <1>2 DEF ReleaseToOperator, StatusOnly, c
    <2>2. QED
      BY <1>s, <1>f, <2>1, SaveFollows DEF Follows
  <1>3. CASE reconcileEmptyStatus
    <2> DEFINE h == [cached EXCEPT !.statusLossHold = TRUE, !.updated = TRUE]
    <2>1. Save(h) \/ Save(setState(cached, "Enrolling"))
      BY <1>3, Zenon DEF reconcileEmptyStatus, StatusOnly
    <2>2. h.state = cached.state /\ h.currentRun = cached.currentRun
      BY <1>0, Zenon DEF Shape
    <2> HIDE DEF h
    <2>3. QED
      BY <1>s, <1>f, <2>1, <2>2, SaveFollows DEF Follows
  <1>4. CASE reconcileStatusLossHold
    <2>1. Save(setState(status, "Enrolling")) \/ SameStatus \/ Save(status)
      BY <1>4, Zenon DEF reconcileStatusLossHold, StatusOnly, Consume
    <2>2. QED
      BY <1>s, <1>f, <2>1, SaveFollows, SameFollows DEF Follows, SameStatus
  <1>5. CASE FinishEnrolling
    <2>1. Save(setState(cached, "Inspecting"))
      BY <1>5 DEF FinishEnrolling, StatusOnly
    <2>2. QED
      BY <1>s, <1>f, <2>1, SaveFollows DEF Follows
  <1>6. CASE SkipInspection
    <2>1. Save(setState(cached, "Available")) /\ cached.state = "Inspecting"
      BY <1>6 DEF SkipInspection, StatusOnly, Walks
    <2>2. /\ setState(cached, "Available").state = "Available"
          /\ setState(cached, "Available").currentRun = cached.currentRun
      BY <1>0, <1>s, UpdatesKeepRun, Zenon
    <2>3. QED
      BY <2>1, <2>2, SaveFollows DEF Follows
  <1>7. QED
    BY <1>1, <1>2, <1>3, <1>4, <1>5, <1>6

\* The handlers that wait for the deployer or for a claim.
LEMMA WaitingFollows ==
    ASSUME HoldInv,
           \/ AwaitSecret \/ IdleWaits \/ IdleInvalid \/ IdleRests
           \/ RunAwaitsClaim \/ StartRunWaits \/ StartRunFails
    PROVE  WriteFollows
  <1>1. /\ markDelayed(cached).state = cached.state
        /\ markDelayed(cached).currentRun = cached.currentRun
        /\ recordFailure(cached, "Transient").state = cached.state
        /\ recordFailure(cached, "Transient").currentRun = cached.currentRun
    BY UpdatesKeepRun, FailureKeepsRun, Zenon DEF HoldInv, Sound
  <1>2. Save(markDelayed(cached)) \/ Save(recordFailure(cached, "Transient")) \/ Save(status)
    BY DEF AwaitSecret, IdleWaits, IdleInvalid, IdleRests, RunAwaitsClaim, StartRunWaits,
           StartRunFails, StatusOnly
  <1>3. QED
    BY <1>1, <1>2, SaveFollows DEF Follows

\* A run that has gone is no longer named; a poll keeps the run it is about.
LEMMA RunsFollow ==
    ASSUME HoldInv,
           recordCurrentRunDeleted \/ \E o \in Outcome : DeployerAnswers(o)
    PROVE  WriteFollows
  <1>0. cached \in Shape
    BY DEF HoldInv, Sound
  <1>1. CASE recordCurrentRunDeleted
    <2> DEFINE c == [cached EXCEPT !.currentRun = 0]
               s == recordFailure(c, "Restart")
    <2>1. Save(s)
      BY <1>1 DEF recordCurrentRunDeleted, StatusOnly
    <2>2. c \in Shape /\ c.state = cached.state /\ c.currentRun = 0
      BY <1>0, UpdatesKeepRun
    <2>3. s.state = c.state /\ s.currentRun = c.currentRun
      BY <2>2, FailureKeepsRun, Zenon
    <2> HIDE DEF s, c
    <2>4. QED
      BY <2>1, <2>2, <2>3, SaveFollows DEF Follows
  <1>2. ASSUME NEW o \in Outcome, reconcileInspecting(o)
        PROVE  WriteFollows
    <2> DEFINE n == applyNonCompleteOutcome(cached, o, restartOnFailure(cached))
               d == setState(cached, "Available")
    <2>1. Save(IF o = "Complete" THEN d ELSE n) /\ cached.state = "Inspecting"
      BY <1>2 DEF reconcileInspecting, DeployerStep, Walks
    <2>2. d.state = "Available" /\ d.currentRun = cached.currentRun
      BY <1>0, UpdatesKeepRun, Zenon DEF State
    <2>3. o # "Complete" => n.state = cached.state /\ n.currentRun = cached.currentRun
      BY <1>0, OutcomeKeepsRun
    <2> HIDE DEF n, d
    <2>4. QED
      BY <2>1, <2>2, <2>3, SaveFollows DEF Follows
  <1>3. ASSUME NEW o \in Outcome, reconcileProvisioning(o)
        PROVE  WriteFollows
    <2> DEFINE a == [cached EXCEPT !.lastAttemptedRun =
                        IF o \in {"Complete", "Transient", "Restart"}
                        THEN cached.currentRun ELSE @]
               m == markOperational(a)
               d == [m EXCEPT
                        !.state = "Provisioned", !.lastSuccessfulRun = cached.currentRun,
                        !.errorCount = 0, !.restartCount = 0, !.updated = TRUE]
               n == applyNonCompleteOutcome(a, o, restartOnFailure(cached))
    <2>1. Save(IF o = "Complete" THEN d ELSE n)
      BY <1>3 DEF reconcileProvisioning, DeployerStep
    <2>2. /\ a \in Shape /\ a.state = cached.state /\ a.currentRun = cached.currentRun
      BY <1>0, Zenon DEF Shape
    <2> HIDE DEF a
    <2>3. m \in Shape /\ m.currentRun = cached.currentRun
      BY <2>2, UpdatesKeepRun, Zenon
    <2> HIDE DEF m
    <2>4. d.state = "Provisioned" /\ d.currentRun = cached.currentRun
      BY <2>3, Zenon DEF Shape
    <2>5. o # "Complete" => n.state = cached.state /\ n.currentRun = cached.currentRun
      BY <2>2, OutcomeKeepsRun
    <2> HIDE DEF n, d
    <2>6. QED
      BY <2>1, <2>4, <2>5, SaveFollows DEF Follows
  <1>4. QED
    BY <1>1, <1>2, <1>3 DEF DeployerAnswers

\* The handlers of the delete walk.
LEMMA DeleteWalkFollows ==
    ASSUME HoldInv, DeleteWalk
    PROVE  WriteFollows
  <1>0. cached \in Shape
    BY DEF HoldInv, Sound
  <1>1. CASE EnterDeleteWalk
    <2> DEFINE s == advanceDeleteStage(cached, "Deprovisioning")
    <2>1. Save(s)
      BY <1>1 DEF EnterDeleteWalk, StatusOnly
    <2>2. s.state = "Deprovisioning" /\ s.currentRun = cached.currentRun
      BY <1>0, UpdatesKeepRun, Zenon DEF DeleteStage
    <2> HIDE DEF s
    <2>3. QED
      BY <2>1, <2>2, SaveFollows DEF Follows
  <1>2. ASSUME NEW s \in Shape, s.state = cached.state, s.currentRun = cached.currentRun,
               LeaveDeleteStage(s)
        PROVE  WriteFollows
    <2> DEFINE p == advanceDeleteStage(s, "PoweringOff")
    <2>1. Save(s) \/ Save(p)
      BY <1>2 DEF LeaveDeleteStage
    <2>2. p.state = "PoweringOff" /\ p.currentRun = cached.currentRun
      BY <1>2, UpdatesKeepRun, Zenon DEF DeleteStage
    <2> HIDE DEF p
    <2>3. QED
      BY <1>2, <2>1, <2>2, SaveFollows DEF Follows
  <1>3. CASE SkipDeleteStage
    BY <1>0, <1>2, <1>3 DEF SkipDeleteStage
  <1>4. ASSUME NEW o \in Outcome, runDeleteStage(o)
        PROVE  WriteFollows
    <2> DEFINE f == applyFailure(cached, o)
               u == [f EXCEPT !.updated = TRUE]
               k == clearRetryStatus(cached, FALSE)
               m == markDelayed(cached)
    <2>1. \/ LeaveDeleteStage(cached) \/ Save(k) \/ Save(m)
          \/ o \in {"Transient", "Restart"} /\ (LeaveDeleteStage(f) \/ Save(u))
      BY <1>4, Zenon DEF runDeleteStage, Outcome
    <2>2. o \in {"Transient", "Restart"} =>
             /\ f \in Shape /\ f.state = cached.state /\ f.currentRun = cached.currentRun
             /\ u.state = cached.state /\ u.currentRun = cached.currentRun
      BY <1>0, FailureKeepsRun
    <2>3. m.state = cached.state /\ m.currentRun = cached.currentRun
      BY <1>0, UpdatesKeepRun, Zenon
    <2>4. k.state = cached.state /\ k.currentRun = cached.currentRun
      <3>1. \A b : /\ clearRetryStatus(cached, b).state = cached.state
                   /\ clearRetryStatus(cached, b).currentRun = cached.currentRun
        BY <1>0, OutcomeKeepsRun DEF Outcome
      <3>2. QED
        BY <3>1, Zenon
    <2> HIDE DEF f, u, k, m
    <2>5. CASE Save(k) \/ Save(m) \/ (o \in {"Transient", "Restart"} /\ Save(u))
      BY <2>2, <2>3, <2>4, <2>5, SaveFollows DEF Follows
    <2>6. CASE LeaveDeleteStage(cached) \/ (o \in {"Transient", "Restart"} /\ LeaveDeleteStage(f))
      BY <1>0, <1>2, <2>2, <2>6
    <2>7. QED
      BY <2>1, <2>5, <2>6
  <1>5. QED
    BY <1>1, <1>3, <1>4 DEF DeleteWalk

\* The claim controller, users, losses and the cache.
LEMMA OthersFollow ==
    ASSUME HoldInv,
           ClaimController \/ User \/ LoseStatus \/ OtherRelease \/ LoseClaim \/ Deliver
    PROVE  WriteFollows
  <1>1. CASE ClaimController
    BY <1>1, SameFollows DEF ClaimController, tryBind, RecordBound, ReleaseClaim, ClearOrphan, ClaimStep
  <1>2. CASE User
    <2>1. Edit
      BY <1>2 DEF User, Annotate, EditSecretRef, DeleteMachine, CreateClaim, ChangeIntent,
                  DeleteClaim, ChangePlan, DeleteRun, ChangeSecret, EditMachine, EditClaim
    <2>2. QED
      BY <2>1, SameFollows DEF Edit
  <1>3. CASE LoseStatus
    <2>1. Save(EmptyStatus) /\ EmptyStatus.state = "" /\ EmptyStatus.currentRun = 0
      BY <1>3, Zenon DEF LoseStatus, EmptyStatus
    <2>2. QED
      BY <2>1, SaveFollows, Zenon DEF Follows
  <1>4. CASE OtherRelease
    <2> DEFINE s == [status EXCEPT !.errorType = "Other"]
    <2>1. Save(s)
      BY <1>4 DEF OtherRelease
    <2>2. s.state = status.state /\ s.currentRun = status.currentRun
      BY Zenon DEF HoldInv, Sound, Shape
    <2> HIDE DEF s
    <2>3. QED
      BY <2>1, <2>2, SaveFollows DEF Follows
  <1>5. CASE LoseClaim
    BY <1>5, SameFollows DEF LoseClaim, SameStatus
  <1>6. CASE Deliver
    BY <1>6 DEF Deliver, WriteFollows, Follows
  <1>7. QED
    BY <1>1, <1>2, <1>3, <1>4, <1>5, <1>6

\* Every step but the start of a run writes what follows.
LEMMA StepFollows ==
    ASSUME HoldInv, [Next]_vars
    PROVE  WriteFollows \/ startProvisioningRun
  <1>1. CASE UNCHANGED vars
    BY <1>1, SameFollows DEF vars
  <1>2. CASE Next
    BY <1>2, AnnotationsFollow, WalkFollows, WaitingFollows, RunsFollow, DeleteWalkFollows,
       OthersFollow DEF Next, Reconcile
  <1>3. QED
    BY <1>1, <1>2

\* Objects keep their shape, a claimRef changes to another claim's only by tryBind, and
\* runs are made only by startProvisioningRun.
ObjectsStep ==
    /\ Objects'
    /\ RefStays \/ tryBind
    /\ RunsStay \/ startProvisioningRun

\* A step that leaves the objects alone.
LEMMA SameObjects ==
    ASSUME Objects, UNCHANGED <<machine, claim, runs, lastRun>>
    PROVE  ObjectsStep
  BY DEF Objects, ObjectsStep, RefStays, RunsStay

\* A Machine that is edited is a Machine.
LEMMA MachineEdits ==
    ASSUME Objects, NEW m \in MachineShape, m.claimRef \in {machine.claimRef, 0},
           machine' = m, UNCHANGED <<runs, lastRun>>, claim' \in ClaimShape
    PROVE  ObjectsStep
  BY DEF Objects, ObjectsStep, RefStays, RunsStay

\* What the Machine controller does to Machine, claim and runs.
LEMMA ReconcileKeepsObjects ==
    ASSUME Objects, Reconcile
    PROVE  ObjectsStep
  <1>0. machine \in MachineShape /\ claim \in ClaimShape /\ runs \subseteq RunShape /\ lastRun \in Nat
    BY DEF Objects
  <1>1. CASE \/ ReconcilePaused \/ ReconcileHeld \/ reconcileDetached \/ clearDetached
             \/ RestartWalk \/ ReleaseToOperator \/ reconcileEmptyStatus
             \/ FinishEnrolling \/ SkipInspection \/ AwaitSecret
             \/ IdleWaits \/ IdleInvalid \/ IdleRests
             \/ RunAwaitsClaim \/ StartRunWaits \/ StartRunFails
             \/ recordCurrentRunDeleted \/ EnterDeleteWalk
    BY <1>1, SameObjects, Zenon DEF ReconcilePaused, ReconcileHeld, reconcileDetached, clearDetached,
       RestartWalk, ReleaseToOperator, reconcileEmptyStatus, FinishEnrolling, SkipInspection,
       AwaitSecret, IdleWaits, IdleInvalid, IdleRests, RunAwaitsClaim, StartRunWaits,
       StartRunFails, recordCurrentRunDeleted, EnterDeleteWalk, StatusOnly
  <1>2. CASE AddFinalizer
    <2>1. [machine EXCEPT !.finalizer = TRUE] \in MachineShape
      BY <1>0, Zenon DEF MachineShape
    <2>2. [machine EXCEPT !.finalizer = TRUE].claimRef = machine.claimRef
      BY <1>0 DEF MachineShape
    <2>3. QED
      BY <1>0, <1>2, <2>1, <2>2, MachineEdits, Zenon DEF AddFinalizer
  <1>3. ASSUME NEW a, machine' = [machine EXCEPT !.annotations = @ \ {a}],
               UNCHANGED <<claim, runs, lastRun>>
        PROVE  ObjectsStep
    <2>1. /\ [machine EXCEPT !.annotations = @ \ {a}] \in MachineShape
          /\ [machine EXCEPT !.annotations = @ \ {a}].claimRef = machine.claimRef
      BY <1>0 DEF MachineShape
    <2>2. QED
      BY <1>0, <1>3, <2>1, MachineEdits, Zenon
  <1>4. CASE reconcileReInspect \/ reconcileClearError
    BY <1>3, <1>4 DEF reconcileReInspect, reconcileClearError, Consume
  <1>5. CASE reconcileStatusLossHold
    BY <1>3, <1>5, SameObjects, Zenon DEF reconcileStatusLossHold, Consume, StatusOnly
  <1>6. ASSUME NEW o \in Outcome, reconcileReboot(o)
        PROVE  ObjectsStep
    BY <1>3, <1>6, SameObjects, Zenon DEF reconcileReboot
  <1>7. CASE startProvisioningRun
    <2> DEFINE n == [id |-> lastRun', claim |-> machine.claimRef, intent |-> Payload, done |-> FALSE]
    <2>1. /\ lastRun' = lastRun + 1 /\ runs' = runs \cup {n}
          /\ UNCHANGED <<machine, claim>>
      BY <1>7 DEF startProvisioningRun
    <2>2. Payload \in Nat
      BY <1>0 DEF Payload, ClaimShape
    <2>3. n \in RunShape
      BY <1>0, <2>1, <2>2 DEF RunShape, MachineShape
    <2> HIDE DEF n
    <2>4. QED
      BY <1>0, <1>7, <2>1, <2>3 DEF ObjectsStep, Objects, RefStays
  <1>8. ASSUME NEW o \in Outcome, reconcileInspecting(o)
        PROVE  ObjectsStep
    BY <1>8, SameObjects DEF reconcileInspecting, DeployerStep
  <1>9. ASSUME NEW o \in Outcome, reconcileProvisioning(o)
        PROVE  ObjectsStep
    <2> DEFINE g(r) == [r EXCEPT !.done = @ \/ (o = "Complete" /\ r.id = cached.currentRun)]
    <2>1. runs' = {g(r) : r \in runs} /\ UNCHANGED <<machine, claim, lastRun>>
      BY <1>9 DEF reconcileProvisioning, DeployerStep
    <2>2. \A r \in runs : g(r) \in RunShape /\ g(r).id = r.id /\ g(r).claim = r.claim
      BY <1>0, Zenon DEF RunShape
    <2> HIDE DEF g
    <2>3. QED
      BY <1>0, <2>1, <2>2 DEF ObjectsStep, Objects, RefStays, RunsStay
  <1>10. ASSUME NEW s, LeaveDeleteStage(s), UNCHANGED <<claim, runs, lastRun>>
         PROVE  ObjectsStep
    <2>1. CASE UNCHANGED machine
      BY <1>10, <2>1, SameObjects
    <2>2. CASE machine' = [machine EXCEPT !.life = "gone", !.finalizer = FALSE]
      <3>1. /\ [machine EXCEPT !.life = "gone", !.finalizer = FALSE] \in MachineShape
            /\ [machine EXCEPT !.life = "gone", !.finalizer = FALSE].claimRef = machine.claimRef
        BY <1>0, Zenon DEF MachineShape
      <3>2. QED
        BY <1>0, <1>10, <2>2, <3>1, MachineEdits, Zenon
    <2>3. QED
      BY <1>10, <2>1, <2>2 DEF LeaveDeleteStage
  <1>11. CASE SkipDeleteStage
    BY <1>10, <1>11 DEF SkipDeleteStage
  <1>12. ASSUME NEW o \in Outcome, runDeleteStage(o)
         PROVE  ObjectsStep
    <2>1. /\ UNCHANGED <<claim, runs, lastRun>>
          /\ UNCHANGED machine \/ \E s : LeaveDeleteStage(s)
      BY <1>12, Zenon DEF runDeleteStage
    <2>2. QED
      BY <1>10, <2>1, SameObjects
  <1>13. QED
    BY <1>1, <1>2, <1>4, <1>5, <1>6, <1>7, <1>8, <1>9, <1>11, <1>12
       DEF Reconcile, DeployerAnswers, DeleteWalk

\* What the claim controller, users, losses and the cache do to them.
LEMMA OthersKeepObjects ==
    ASSUME Objects,
           ClaimController \/ User \/ LoseStatus \/ OtherRelease \/ LoseClaim \/ Deliver
    PROVE  ObjectsStep
  <1>0. machine \in MachineShape /\ claim \in ClaimShape /\ runs \subseteq RunShape /\ lastRun \in Nat
    BY DEF Objects
  <1>c. ASSUME claim' \in ClaimShape, UNCHANGED <<machine, runs, lastRun>>
        PROVE  ObjectsStep
    BY <1>0, <1>c DEF ObjectsStep, Objects, RefStays, RunsStay
  <1>r. /\ [machine EXCEPT !.claimRef = 0] \in MachineShape
        /\ [machine EXCEPT !.claimRef = 0].claimRef = 0
    BY <1>0 DEF MachineShape
  <1>n. NoClaim \in ClaimShape
    BY <1>0, Zenon DEF NoClaim, ClaimShape
  <1>1. CASE tryBind
    <2>1. claim.uid \in Nat
      BY <1>0 DEF ClaimShape
    <2>2. [machine EXCEPT !.claimRef = claim.uid] \in MachineShape
      BY <1>0, <2>1 DEF MachineShape
    <2>3. QED
      BY <1>0, <1>1, <2>2 DEF tryBind, ClaimStep, ObjectsStep, Objects, RunsStay
  <1>2. CASE RecordBound
    <2>1. [claim EXCEPT !.recorded = TRUE] \in ClaimShape
      BY <1>0, Zenon DEF ClaimShape
    <2>2. QED
      BY <1>2, <1>c, <2>1 DEF RecordBound, ClaimStep
  <1>3. CASE ReleaseClaim
    <2>1. /\ claim' = NoClaim /\ UNCHANGED <<runs, lastRun>>
          /\ machine' = [machine EXCEPT !.claimRef = 0] \/ UNCHANGED machine
      BY <1>3 DEF ReleaseClaim, ClaimStep
    <2>2. QED
      BY <1>c, <1>n, <1>r, <2>1, MachineEdits, Zenon
  <1>4. CASE ClearOrphan
    BY <1>0, <1>4, <1>r, MachineEdits, Zenon DEF ClearOrphan, ClaimStep
  <1>5. ASSUME NEW m \in MachineShape, m.claimRef = machine.claimRef, EditMachine(m)
        PROVE  ObjectsStep
    BY <1>0, <1>5, MachineEdits DEF EditMachine, Edit
  <1>6. CASE Annotate
    <2>1. PICK a \in Annotations :
             EditMachine([machine EXCEPT !.annotations =
                            IF a \in machine.annotations THEN machine.annotations \ {a}
                            ELSE machine.annotations \cup {a}])
      BY <1>6, Zenon DEF Annotate
    <2> DEFINE s == IF a \in machine.annotations THEN machine.annotations \ {a}
                    ELSE machine.annotations \cup {a}
    <2>2. s \in SUBSET Annotations
      BY <1>0 DEF MachineShape
    <2> HIDE DEF s
    <2>3. /\ [machine EXCEPT !.annotations = s] \in MachineShape
          /\ [machine EXCEPT !.annotations = s].claimRef = machine.claimRef
      BY <1>0, <2>2 DEF MachineShape
    <2>4. QED
      BY <1>5, <2>1, <2>3, Zenon DEF s
  <1>7. CASE EditSecretRef
    <2>1. PICK n \in Secrets : EditMachine([machine EXCEPT !.secretRef = n])
      BY <1>7 DEF EditSecretRef
    <2>2. /\ [machine EXCEPT !.secretRef = n] \in MachineShape
          /\ [machine EXCEPT !.secretRef = n].claimRef = machine.claimRef
      BY <1>0 DEF MachineShape
    <2>3. QED
      BY <1>5, <2>1, <2>2, Zenon
  <1>8. CASE DeleteMachine
    <2> DEFINE l == IF machine.finalizer THEN "deleting" ELSE "gone"
    <2>1. EditMachine([machine EXCEPT !.life = l])
      BY <1>8 DEF DeleteMachine
    <2>2. l \in {"deleting", "gone"}
      OBVIOUS
    <2> HIDE DEF l
    <2>3. /\ [machine EXCEPT !.life = l] \in MachineShape
          /\ [machine EXCEPT !.life = l].claimRef = machine.claimRef
      BY <1>0, <2>2 DEF MachineShape
    <2>4. QED
      BY <1>5, <2>1, <2>3, Zenon
  <1>9. ASSUME NEW x \in ClaimShape, EditClaim(x)
        PROVE  ObjectsStep
    BY <1>9, <1>c DEF EditClaim, Edit
  <1>10. CASE CreateClaim
    <2>1. PICK i \in Intents :
             EditClaim([uid |-> claim.uid + 1, exists |-> TRUE, deleting |-> FALSE,
                        intent |-> i, recorded |-> FALSE])
      BY <1>10, Zenon DEF CreateClaim
    <2>2. claim.uid + 1 \in Nat /\ i \in Nat
      BY <1>0, IntentsAssumption DEF ClaimShape
    <2>3. [uid |-> claim.uid + 1, exists |-> TRUE, deleting |-> FALSE,
           intent |-> i, recorded |-> FALSE] \in ClaimShape
      BY <2>2 DEF ClaimShape
    <2>4. QED
      BY <1>9, <2>1, <2>3
  <1>11. CASE ChangeIntent
    <2>1. PICK i \in Intents : EditClaim([claim EXCEPT !.intent = i])
      BY <1>11 DEF ChangeIntent
    <2>2. [claim EXCEPT !.intent = i] \in ClaimShape
      BY <1>0, IntentsAssumption DEF ClaimShape
    <2>3. QED
      BY <1>9, <2>1, <2>2
  <1>12. CASE DeleteClaim
    <2>1. [claim EXCEPT !.deleting = TRUE] \in ClaimShape
      BY <1>0, Zenon DEF ClaimShape
    <2>2. QED
      BY <1>9, <1>12, <2>1 DEF DeleteClaim
  <1>13. CASE DeleteRun
    BY <1>0, <1>13 DEF DeleteRun, Edit, ObjectsStep, Objects, RefStays, RunsStay
  <1>14. CASE ChangePlan \/ ChangeSecret \/ LoseStatus \/ OtherRelease \/ Deliver
    BY <1>14, SameObjects DEF ChangePlan, ChangeSecret, Edit, LoseStatus, OtherRelease, Lose, Deliver
  <1>15. CASE LoseClaim
    BY <1>15, <1>c, <1>n DEF LoseClaim, Lose
  <1>16. QED
    BY <1>1, <1>2, <1>3, <1>4, <1>6, <1>7, <1>8, <1>10, <1>11, <1>12, <1>13, <1>14, <1>15
       DEF ClaimController, User

\* What any step does to them.
LEMMA StepKeepsObjects ==
    ASSUME Objects, [Next]_vars
    PROVE  ObjectsStep
  <1>1. CASE UNCHANGED vars
    BY <1>1, SameObjects DEF vars
  <1>2. CASE Next
    BY <1>2, ReconcileKeepsObjects, OthersKeepObjects DEF Next
  <1>3. QED
    BY <1>1, <1>2

\* A new run is made for the claim that holds the Machine, and its number is new.
LEMMA NewRunIsOwn ==
    ASSUME HoldInv, Objects, TenantInv, startProvisioningRun
    PROVE  TenantInv'
  <1> DEFINE n == [id |-> lastRun', claim |-> machine.claimRef, intent |-> Payload, done |-> FALSE]
             m == markOperational(cached)
             s == [m EXCEPT !.state = "Provisioning", !.currentRun = lastRun',
                            !.errorCount = 0, !.restartCount = 0, !.updated = TRUE]
  <1>1. /\ lastRun' = lastRun + 1 /\ runs' = runs \cup {n} /\ machine' = machine
        /\ Save(s) \/ SameStatus
    BY DEF startProvisioningRun
  <1>2. lastRun \in Nat /\ status.currentRun \in 0..lastRun /\ cached.currentRun \in 0..lastRun
    BY DEF Objects, TenantInv
  <1>3. m \in Shape
    BY UpdatesKeepRun, Zenon DEF HoldInv, Sound
  <1> HIDE DEF m
  <1>4. s.state = "Provisioning" /\ s.currentRun = lastRun'
    BY <1>3, Zenon DEF Shape
  <1>5. n.id = lastRun' /\ n.claim = machine.claimRef
    OBVIOUS
  <1> HIDE DEF s, n
  <1>6. \A r \in runs' : r.id \in 1..lastRun'
    BY <1>1, <1>2, <1>5 DEF TenantInv
  <1>7. \A r \in runs' : r.id = lastRun' => r.claim = machine.claimRef
    BY <1>1, <1>2, <1>5 DEF TenantInv
  <1>8. ASSUME NEW c \in {status, cached}
        PROVE  /\ c.currentRun \in 0..lastRun'
               /\ c.state = "Provisioning" /\ machine.claimRef # 0 =>
                    \A r \in runs' : r.id = c.currentRun => r.claim = machine.claimRef
    BY <1>1, <1>2, <1>5 DEF TenantInv, OwnRun, RunNamed
  <1>9. status' \in {s, status} /\ cached' \in {s, cached}
    BY <1>1 DEF Save, SameStatus
  <1>10. status'.currentRun \in 0..lastRun' /\ cached'.currentRun \in 0..lastRun'
    BY <1>1, <1>2, <1>4, <1>8, <1>9
  <1>11. status'.state = "Available" => cached'.state \in {"Inspecting", "Available"}
    BY <1>1, <1>4 DEF Save, SameStatus, TenantInv
  <1>12. /\ OwnRun(status)' /\ OwnRun(cached)'
    BY <1>1, <1>4, <1>7, <1>8, <1>9 DEF OwnRun, RunNamed
  <1>13. QED
    BY <1>6, <1>10, <1>11, <1>12 DEF TenantInv

\* A claim binds when neither the stored nor the cached status is of a deployment.
LEMMA BindingFindsNoRun ==
    ASSUME TenantInv, tryBind
    PROVE  TenantInv'
  <1>1. UNCHANGED <<status, cached, runs, lastRun>> /\ status.state = "Available"
    BY DEF tryBind, ClaimStep
  <1>2. cached.state \in {"Inspecting", "Available"}
    BY <1>1 DEF TenantInv
  <1>3. QED
    BY <1>1, <1>2 DEF TenantInv, OwnRun

\* Any other step leaves the runs their claims, and what it writes follows from what was
\* there.
LEMMA OthersKeepTenant ==
    ASSUME Objects, TenantInv, WriteFollows, RefStays, RunsStay
    PROVE  TenantInv'
  <1>1. lastRun \in Nat /\ lastRun' = lastRun
    BY DEF Objects, RunsStay
  <1>2. \A q \in runs' : q.id \in 1..lastRun'
    BY <1>1 DEF TenantInv, RunsStay
  <1>3. \A s \in {status, cached} :
           s.state = "Provisioning" /\ machine'.claimRef # 0 =>
             \A q \in runs' : q.id = s.currentRun => q.claim = machine'.claimRef
    BY DEF TenantInv, OwnRun, RunNamed, RunsStay, RefStays
  <1>4. \A q \in runs' : q.id # 0
    BY <1>1, <1>2
  <1>5. status'.currentRun \in {0, status.currentRun, cached.currentRun}
    BY DEF WriteFollows, Follows
  <1>6. OwnRun(status)'
    BY <1>3, <1>4 DEF WriteFollows, Follows, OwnRun, RunNamed
  <1>7. OwnRun(cached)'
    <2>1. CASE cached' = cached
      BY <1>3, <2>1 DEF OwnRun, RunNamed
    <2>2. CASE cached' = status'
      BY <1>6, <2>2 DEF OwnRun, RunNamed
    <2>3. QED
      BY <2>1, <2>2 DEF WriteFollows
  <1>8. status'.currentRun \in 0..lastRun' /\ cached'.currentRun \in 0..lastRun'
    BY <1>1, <1>5 DEF WriteFollows, TenantInv
  <1>9. status'.state = "Available" => cached'.state \in {"Inspecting", "Available"}
    BY DEF WriteFollows, Follows, TenantInv
  <1>10. QED
    BY <1>2, <1>6, <1>7, <1>8, <1>9 DEF TenantInv

-----------------------------------------------------------------------------
(* The theorems.                                                           *)

\* Every step keeps the invariant, and a hold.
LEMMA StepIsGood ==
    ASSUME HoldInv, [Next]_vars
    PROVE  Good
  <1>1. CASE UNCHANGED vars
    BY <1>1, SameIsGood DEF vars
  <1>2. CASE Next
    BY <1>2, AnnotationsAreGood, WalkIsGood, WaitingIsGood, RunsAreGood, DeleteWalkIsGood,
       OthersAreGood DEF Next, Reconcile
  <1>3. QED
    BY <1>1, <1>2

\* The empty status is sound.
LEMMA InitIsGood == Init => HoldInv
  <1>1. Sound(EmptyStatus)
    BY DEF Sound, EmptyStatus, Shape, OpType, State, maxRestartFailures
  <1>2. QED
    BY <1>1 DEF Init, HoldInv

\* The first objects have their shape.
LEMMA InitHasObjects == Init => Objects
  <1> SUFFICES ASSUME Init
               PROVE  Objects
    OBVIOUS
  <1>1. PICK n \in Secrets :
           machine = [life |-> "live", finalizer |-> FALSE, annotations |-> {},
                      claimRef |-> 0, secretRef |-> n]
    BY Zenon DEF Init
  <1>2. machine \in MachineShape
    BY <1>1 DEF MachineShape
  <1>3. QED
    BY <1>2 DEF Init, Objects, ClaimShape

\* Outside the delete walk a Machine is held exactly when its Restart failures have used
\* up the attempts (holdForRetry), whatever operators, claims, losses and a lagging cache do.
THEOREM HoldMatchesCount == Spec => []HeldExactlyWhenExhausted
  <1>1. HoldInv /\ [Next]_vars => HoldInv'
    BY StepIsGood DEF Good
  <1>2. HoldInv => HeldExactlyWhenExhausted
    BY DEF HoldInv, Sound, HeldExactlyWhenExhausted
  <1>3. QED
    BY <1>1, <1>2, InitIsGood, PTL DEF Spec

\* When the cache does not trail the stored status, only an operator's clear-error
\* annotation (reconcileClearError) or the loss of the whole status ends a hold.
THEOREM HoldEndsByClearError ==
    ASSUME Lagging = FALSE
    PROVE  Spec => OnlyClearErrorEndsHold
  <1>1. HoldInv /\ [Next]_vars => HoldInv'
    BY StepIsGood DEF Good
  <1>2. HoldInv /\ [Next]_vars
          => [(status.retryHeld /\ ~status'.retryHeld)
                 => has("clear-error") \/ status' = EmptyStatus]_vars
    BY StepIsGood DEF Good, KeepsHold
  <1>3. QED
    BY <1>1, <1>2, InitIsGood, PTL DEF Spec, OnlyClearErrorEndsHold

\* What is being written to the disks was asked for by the claim that holds the Machine
\* (startProvisioningRun, ReleaseToOperator, tryBind), also when the controller works from
\* a status that trails the stored one, and whatever is deleted, lost or cut short.
THEOREM TenantsKeepApart == Spec => []ProvisionsForItsClaim
  <1> DEFINE Inv == HoldInv /\ Objects /\ TenantInv
  <1>1. Init => Inv
    <2>1. Init => Objects
      BY InitHasObjects
    <2>2. ASSUME Init
          PROVE  TenantInv
      <3>1. /\ status.state = "" /\ status.currentRun = 0 /\ cached = status
            /\ runs = {} /\ lastRun = 0
        BY <2>2, Zenon DEF Init, EmptyStatus
      <3>2. OwnRun(status) /\ OwnRun(cached)
        BY <3>1, Zenon DEF OwnRun
      <3>3. \A r \in runs : r.id \in 1..lastRun
        BY <3>1, Zenon
      <3>4. status.currentRun \in 0..lastRun /\ cached.currentRun \in 0..lastRun
        <4>1. status.currentRun = 0 /\ cached.currentRun = 0 /\ 0..lastRun = 0..0
          BY <3>1, Zenon
        <4>2. 0 \in 0..0
          OBVIOUS
        <4>3. QED
          BY <4>1, <4>2
      <3>5. status.state # "Available"
        BY <3>1, Zenon
      <3>6. QED
        BY <3>2, <3>3, <3>4, <3>5 DEF TenantInv
    <2>3. QED
      BY <2>1, <2>2, InitIsGood
  <1>2. Inv /\ [Next]_vars => Inv'
    <2> SUFFICES ASSUME Inv, [Next]_vars
                 PROVE  Inv'
      OBVIOUS
    <2>1. HoldInv'
      BY StepIsGood DEF Good
    <2>2. ObjectsStep
      BY StepKeepsObjects
    <2>3. CASE tryBind
      BY <2>1, <2>2, <2>3, BindingFindsNoRun DEF ObjectsStep
    <2>4. CASE startProvisioningRun
      BY <2>1, <2>2, <2>4, NewRunIsOwn DEF ObjectsStep
    <2>5. CASE ~tryBind /\ ~startProvisioningRun
      BY <2>1, <2>2, <2>5, StepFollows, OthersKeepTenant DEF ObjectsStep
    <2>6. QED
      BY <2>3, <2>4, <2>5
  <1>3. Inv => ProvisionsForItsClaim
    BY DEF TenantInv, OwnRun, ProvisionsForItsClaim
  <1>4. QED
    BY <1>1, <1>2, <1>3, PTL DEF Spec

-----------------------------------------------------------------------------
(* The loss of a status.  Of the annotations only four reach a status that *)
(* has no state yet and mark it as updated.                                *)

MarkEarly == {"detached", "reboot", "reboot-x", "clear-error"}

\* A status without a state was never written, or it holds for the loss.
LossSound(s) == s.state = "" => s.op = "" /\ (s.updated => s.statusLossHold)

LossInv == LossSound(status) /\ LossSound(cached)

\* The body of LossIsConfirmed, for the status s that is written.
Confirmed(s) ==
    (status.state = "" /\ cached.state = "" /\ s.state \notin DeleteStage \cup {""}
     /\ Payload # 0 /\ runs # {})
        => has("confirm-status-loss")

LossStep == LossInv' /\ Confirmed(status')

\* Steps that leave the status alone.
LEMMA SameLoss ==
    ASSUME LossInv, UNCHANGED <<status, cached>>
    PROVE  LossStep
  BY Zenon DEF LossInv, LossStep, LossSound, Confirmed

\* Steps that write one.
LEMMA SaveLoss ==
    ASSUME LossInv, NEW s, Save(s), LossSound(s), Confirmed(s)
    PROVE  LossStep
  <1>1. status' = s /\ cached' \in {cached, s}
    BY DEF Save
  <1>2. LossSound(status') /\ LossSound(cached')
    BY <1>1, Zenon DEF LossInv, LossSound
  <1>3. Confirmed(status')
    BY <1>1
  <1>4. QED
    BY <1>2, <1>3 DEF LossStep, LossInv

\* Once there is a state, neither matters.
LEMMA LaterLoss ==
    ASSUME LossInv, NEW s, Save(s), s.state # "", cached.state # ""
    PROVE  LossStep
  BY SaveLoss, Zenon DEF LossSound, Confirmed

\* Before the walk: the annotations that are left cannot touch the empty state.
LEMMA AnnotationsLoss ==
    ASSUME HoldInv, LossInv, Objects, Annotations \cap MarkEarly = {},
           \/ ReconcilePaused \/ ReconcileHeld \/ AddFinalizer \/ reconcileDetached
           \/ clearDetached \/ reconcileReInspect \/ reconcileClearError
           \/ \E o \in Outcome : reconcileReboot(o)
    PROVE  LossStep
  <1>0. status \in Shape /\ cached \in Shape
    BY DEF HoldInv, Sound
  <1>1. CASE ReconcilePaused \/ ReconcileHeld \/ AddFinalizer
    BY <1>1, SameLoss DEF ReconcilePaused, ReconcileHeld, AddFinalizer
  <1>2. \A a \in MarkEarly : ~has(a)
    BY DEF Objects, MachineShape, has
  <1>3. CASE reconcileDetached \/ reconcileClearError \/ \E o \in Outcome : reconcileReboot(o)
    BY <1>2, <1>3, Zenon DEF reconcileDetached, reconcileClearError, reconcileReboot, RebootRequested,
                      MarkEarly
  <1>4. CASE clearDetached
    <2> DEFINE m == markOperational(cached)
               s == [m EXCEPT !.updated = TRUE]
    <2>1. Save(s) /\ cached.op = "detached"
      BY <1>4 DEF clearDetached, StatusOnly
    <2>2. cached.state # ""
      BY <2>1, Zenon DEF LossInv, LossSound
    <2>3. m \in Shape /\ m.state = cached.state
      BY <1>0, UpdatesKeepRun, Zenon
    <2> HIDE DEF m
    <2>4. s.state = cached.state
      BY <2>3, Zenon DEF Shape
    <2> HIDE DEF s
    <2>5. QED
      BY <2>1, <2>2, <2>4, LaterLoss, Zenon
  <1>5. CASE reconcileReInspect
    <2>1. \/ reInspectAcceptable /\ Save(setState(status, "Inspecting"))
          \/ Save(status) \/ SameStatus
      BY <1>5 DEF reconcileReInspect, Consume
    <2>2. CASE reInspectAcceptable /\ Save(setState(status, "Inspecting"))
      <3>1. cached.state # ""
        BY <2>2, Zenon DEF reInspectAcceptable
      <3>2. setState(status, "Inspecting").state = "Inspecting"
        BY <1>0, UpdatesKeepRun, ZenonT(40) DEF State
      <3>3. QED
        BY <2>2, <3>1, <3>2, LaterLoss, Zenon
    <2>3. CASE Save(status)
      BY <2>3, SaveLoss, Zenon DEF LossInv, Confirmed
    <2>4. CASE SameStatus
      BY <2>4, SameLoss DEF SameStatus
    <2>5. QED
      BY <2>1, <2>2, <2>3, <2>4
  <1>6. QED
    BY <1>1, <1>3, <1>4, <1>5

\* The walk leaves the empty state by itself only when there is nothing to confirm.
LEMMA WalkLoss ==
    ASSUME HoldInv, LossInv,
           \/ RestartWalk \/ ReleaseToOperator \/ reconcileEmptyStatus
           \/ reconcileStatusLossHold \/ FinishEnrolling \/ SkipInspection
    PROVE  LossStep
  <1> DEFINE c == [cached EXCEPT !.currentRun = 0]
  <1>0. status \in Shape /\ cached \in Shape /\ c \in Shape
    BY UpdatesKeepRun DEF HoldInv, Sound
  <1> HIDE DEF c
  <1>s. ASSUME NEW s \in {status, cached, c},
               NEW st \in {"Enrolling", "Inspecting", "Available", "Released"}
        PROVE  setState(s, st).state = st
    <2>1. s \in Shape /\ st \in State
      BY <1>0, Zenon DEF State
    <2>2. QED
      BY <2>1, UpdatesKeepRun, Zenon
  <1>1. CASE RestartWalk
    <2>1. Save(setState(c, "Enrolling")) /\ cached.op = "error"
      BY <1>1 DEF RestartWalk, StatusOnly, c, hasUnknownErrorType
    <2>2. cached.state # ""
      BY <2>1, Zenon DEF LossInv, LossSound
    <2>3. QED
      BY <1>s, <2>1, <2>2, LaterLoss, Zenon
  <1>2. CASE ReleaseToOperator
    <2>1. Save(setState(c, "Released")) /\ cached.state # ""
      BY <1>2, Zenon DEF ReleaseToOperator, StatusOnly, c, releaseEligible
    <2>2. QED
      BY <1>s, <2>1, LaterLoss, Zenon
  <1>3. CASE reconcileEmptyStatus
    <2> DEFINE h == [cached EXCEPT !.statusLossHold = TRUE, !.updated = TRUE]
    <2>1. cached.state = "" /\ ~cached.statusLossHold
      BY <1>3, Zenon DEF reconcileEmptyStatus, Walks
    <2>2. CASE StatusLossSuspected
      <3>1. Save(h)
        BY <1>3, <2>2, Zenon DEF reconcileEmptyStatus, StatusOnly
      <3>2. h.state = "" /\ h.op = cached.op /\ h.statusLossHold
        BY <1>0, <2>1, Zenon DEF Shape
      <3> HIDE DEF h
      <3>3. LossSound(h) /\ Confirmed(h)
        BY <2>1, <3>2, Zenon DEF LossInv, LossSound, Confirmed
      <3>4. QED
        BY <3>1, <3>3, SaveLoss
    <2>3. CASE ~StatusLossSuspected
      <3>1. Save(setState(cached, "Enrolling"))
        BY <1>3, <2>3, Zenon DEF reconcileEmptyStatus, StatusOnly
      <3>2. Payload = 0 \/ runs = {}
        BY <2>1, <2>3, Zenon DEF StatusLossSuspected, LossInv, LossSound
      <3>3. LossSound(setState(cached, "Enrolling")) /\ Confirmed(setState(cached, "Enrolling"))
        BY <1>s, <3>2, Zenon DEF LossSound, Confirmed
      <3>4. QED
        BY <3>1, <3>3, SaveLoss
    <2>4. QED
      BY <2>2, <2>3
  <1>4. CASE reconcileStatusLossHold
    <2>1. \/ has("confirm-status-loss") /\ Save(setState(status, "Enrolling"))
          \/ SameStatus \/ Save(status)
      BY <1>4, Zenon DEF reconcileStatusLossHold, StatusOnly, Consume
    <2>2. CASE has("confirm-status-loss") /\ Save(setState(status, "Enrolling"))
      BY <1>s, <2>2, SaveLoss, Zenon DEF LossSound, Confirmed
    <2>3. CASE Save(status)
      BY <2>3, SaveLoss, Zenon DEF LossInv, Confirmed
    <2>4. CASE SameStatus
      BY <2>4, SameLoss DEF SameStatus
    <2>5. QED
      BY <2>1, <2>2, <2>3, <2>4
  <1>5. CASE FinishEnrolling
    <2>1. Save(setState(cached, "Inspecting")) /\ cached.state # ""
      BY <1>5 DEF FinishEnrolling, StatusOnly, Walks
    <2>2. QED
      BY <1>s, <2>1, LaterLoss, Zenon
  <1>6. CASE SkipInspection
    <2>1. Save(setState(cached, "Available")) /\ cached.state # ""
      BY <1>6 DEF SkipInspection, StatusOnly, Walks
    <2>2. QED
      BY <1>s, <2>1, LaterLoss, Zenon
  <1>7. QED
    BY <1>1, <1>2, <1>3, <1>4, <1>5, <1>6

\* Beyond the empty state.
LEMMA BeyondLoss ==
    ASSUME HoldInv, LossInv,
           \/ AwaitSecret \/ IdleWaits \/ IdleInvalid \/ IdleRests
           \/ RunAwaitsClaim \/ StartRunWaits \/ StartRunFails
           \/ startProvisioningRun \/ recordCurrentRunDeleted
           \/ \E o \in Outcome : DeployerAnswers(o)
    PROVE  LossStep
  <1>0. cached \in Shape
    BY DEF HoldInv, Sound
  <1>1. CASE IdleRests
    <2>1. Save(status)
      BY <1>1 DEF IdleRests, StatusOnly
    <2>2. QED
      BY <2>1, SaveLoss, Zenon DEF LossInv, Confirmed
  <1>2. CASE \/ AwaitSecret \/ IdleWaits \/ IdleInvalid
             \/ RunAwaitsClaim \/ StartRunWaits \/ StartRunFails
    <2>1. cached.state # ""
      BY <1>2, ZenonT(40) DEF AwaitSecret, IdleWaits, IdleInvalid, RunAwaitsClaim, StartRunWaits,
                  StartRunFails, NeedsSecret, Idle, StartsRun, Walks
    <2>2. Save(markDelayed(cached)) \/ Save(recordFailure(cached, "Transient"))
      BY <1>2, Zenon DEF AwaitSecret, IdleWaits, IdleInvalid, RunAwaitsClaim, StartRunWaits,
                  StartRunFails, StatusOnly
    <2>3. markDelayed(cached).state = cached.state
          /\ recordFailure(cached, "Transient").state = cached.state
      BY <1>0, UpdatesKeepRun, FailureKeepsRun, Zenon
    <2>4. QED
      BY <2>1, <2>2, <2>3, LaterLoss, ZenonT(40)
  <1>3. CASE startProvisioningRun
    <2> DEFINE m == markOperational(cached)
               s == [m EXCEPT !.state = "Provisioning", !.currentRun = lastRun',
                              !.errorCount = 0, !.restartCount = 0, !.updated = TRUE]
    <2>1. cached.state # ""
      BY <1>3, Zenon DEF startProvisioningRun, StartsRun, Idle, Walks
    <2>2. Save(s) \/ SameStatus
      BY <1>3 DEF startProvisioningRun
    <2>3. m \in Shape
      BY <1>0, UpdatesKeepRun, Zenon
    <2> HIDE DEF m
    <2>4. s.state = "Provisioning"
      BY <2>3, Zenon DEF Shape
    <2> HIDE DEF s
    <2>5. CASE Save(s)
      BY <2>1, <2>4, <2>5, LaterLoss, Zenon
    <2>6. CASE SameStatus
      BY <2>6, SameLoss DEF SameStatus
    <2>7. QED
      BY <2>2, <2>5, <2>6
  <1>4. CASE recordCurrentRunDeleted
    <2> DEFINE c == [cached EXCEPT !.currentRun = 0]
               s == recordFailure(c, "Restart")
    <2>1. Save(s) /\ cached.state # ""
      BY <1>4 DEF recordCurrentRunDeleted, StatusOnly, Walks
    <2>2. c \in Shape /\ c.state = cached.state
      BY <1>0, UpdatesKeepRun
    <2>3. s.state = c.state
      BY <2>2, FailureKeepsRun, Zenon
    <2> HIDE DEF s, c
    <2>4. QED
      BY <2>1, <2>2, <2>3, LaterLoss, Zenon
  <1>5. ASSUME NEW o \in Outcome, reconcileInspecting(o)
        PROVE  LossStep
    <2> DEFINE n == applyNonCompleteOutcome(cached, o, restartOnFailure(cached))
               d == setState(cached, "Available")
    <2>1. Save(IF o = "Complete" THEN d ELSE n) /\ cached.state # ""
      BY <1>5 DEF reconcileInspecting, DeployerStep, Walks
    <2>2. d.state = "Available"
      BY <1>0, UpdatesKeepRun, ZenonT(40) DEF State
    <2>3. o # "Complete" => n.state = cached.state
      BY <1>0, OutcomeKeepsRun
    <2> HIDE DEF n, d
    <2>4. QED
      BY <2>1, <2>2, <2>3, LaterLoss, Zenon
  <1>6. ASSUME NEW o \in Outcome, reconcileProvisioning(o)
        PROVE  LossStep
    <2> DEFINE a == [cached EXCEPT !.lastAttemptedRun =
                        IF o \in {"Complete", "Transient", "Restart"}
                        THEN cached.currentRun ELSE @]
               m == markOperational(a)
               d == [m EXCEPT
                        !.state = "Provisioned", !.lastSuccessfulRun = cached.currentRun,
                        !.errorCount = 0, !.restartCount = 0, !.updated = TRUE]
               n == applyNonCompleteOutcome(a, o, restartOnFailure(cached))
    <2>1. Save(IF o = "Complete" THEN d ELSE n)
      BY <1>6 DEF reconcileProvisioning, DeployerStep
    <2>2. cached.state # ""
      BY <1>6 DEF reconcileProvisioning, Walks
    <2>3. a \in Shape /\ a.state = cached.state
      BY <1>0, Zenon DEF Shape
    <2> HIDE DEF a
    <2>4. m \in Shape
      BY <2>3, UpdatesKeepRun, Zenon
    <2> HIDE DEF m
    <2>5. d.state = "Provisioned"
      BY <2>4, Zenon DEF Shape
    <2>6. o # "Complete" => n.state = cached.state
      BY <2>3, OutcomeKeepsRun
    <2> HIDE DEF n, d
    <2>7. QED
      BY <2>1, <2>2, <2>5, <2>6, LaterLoss, Zenon
  <1>7. QED
    BY <1>1, <1>2, <1>3, <1>4, <1>5, <1>6 DEF DeployerAnswers

\* The delete walk may start from the empty state; it does not deploy.
LEMMA DeleteWalkLoss ==
    ASSUME HoldInv, LossInv, DeleteWalk
    PROVE  LossStep
  <1>0. cached \in Shape
    BY DEF HoldInv, Sound
  <1>1. CASE EnterDeleteWalk
    <2> DEFINE s == advanceDeleteStage(cached, "Deprovisioning")
    <2>1. Save(s)
      BY <1>1 DEF EnterDeleteWalk, StatusOnly
    <2>2. s.state = "Deprovisioning"
      BY <1>0, UpdatesKeepRun, Zenon DEF DeleteStage
    <2> HIDE DEF s
    <2>3. LossSound(s) /\ Confirmed(s)
      BY <2>2 DEF LossSound, Confirmed, DeleteStage
    <2>4. QED
      BY <2>1, <2>3, SaveLoss
  <1>2. CASE ~EnterDeleteWalk
    <2>1. cached.state # ""
      BY <1>2, Zenon DEF DeleteWalk, SkipDeleteStage, runDeleteStage, DeleteStage
    <2>2. ASSUME NEW s \in Shape, s.state = cached.state, LeaveDeleteStage(s)
          PROVE  LossStep
      <3>1. Save(s) \/ Save(advanceDeleteStage(s, "PoweringOff"))
        BY <2>2 DEF LeaveDeleteStage
      <3>2. advanceDeleteStage(s, "PoweringOff").state = "PoweringOff"
        BY UpdatesKeepRun, Zenon DEF DeleteStage
      <3>3. QED
        BY <2>1, <2>2, <3>1, <3>2, LaterLoss, Zenon
    <2>3. CASE SkipDeleteStage
      BY <1>0, <2>2, <2>3 DEF SkipDeleteStage
    <2>4. ASSUME NEW o \in Outcome, runDeleteStage(o)
          PROVE  LossStep
      <3> DEFINE f == applyFailure(cached, o)
                 u == [f EXCEPT !.updated = TRUE]
                 k == clearRetryStatus(cached, FALSE)
                 m == markDelayed(cached)
      <3>1. \/ LeaveDeleteStage(cached) \/ Save(k) \/ Save(m)
            \/ o \in {"Transient", "Restart"} /\ (LeaveDeleteStage(f) \/ Save(u))
        BY <2>4, Zenon DEF runDeleteStage, Outcome
      <3>2. o \in {"Transient", "Restart"} =>
               f \in Shape /\ f.state = cached.state /\ u.state = cached.state
        BY <1>0, FailureKeepsRun
      <3>3. m.state = cached.state
        BY <1>0, UpdatesKeepRun, Zenon
      <3>4. k.state = cached.state
        <4>1. \A b : clearRetryStatus(cached, b).state = cached.state
          BY <1>0, OutcomeKeepsRun DEF Outcome
        <4>2. QED
          BY <4>1, Zenon
      <3> HIDE DEF f, u, k, m
      <3>5. CASE Save(k) \/ Save(m) \/ (o \in {"Transient", "Restart"} /\ Save(u))
        BY <2>1, <3>2, <3>3, <3>4, <3>5, LaterLoss, Zenon
      <3>6. CASE LeaveDeleteStage(cached) \/ (o \in {"Transient", "Restart"} /\ LeaveDeleteStage(f))
        BY <1>0, <2>2, <3>2, <3>6
      <3>7. QED
        BY <3>1, <3>5, <3>6
    <2>5. QED
      BY <1>2, <2>3, <2>4 DEF DeleteWalk
  <1>3. QED
    BY <1>1, <1>2

\* The claim controller, users, losses and the cache.
LEMMA OthersLoss ==
    ASSUME HoldInv, LossInv,
           ClaimController \/ User \/ LoseStatus \/ OtherRelease \/ LoseClaim \/ Deliver
    PROVE  LossStep
  <1>1. CASE ClaimController
    BY <1>1, SameLoss DEF ClaimController, tryBind, RecordBound, ReleaseClaim, ClearOrphan, ClaimStep
  <1>2. CASE User
    <2>1. Edit
      BY <1>2 DEF User, Annotate, EditSecretRef, DeleteMachine, CreateClaim, ChangeIntent,
                  DeleteClaim, ChangePlan, DeleteRun, ChangeSecret, EditMachine, EditClaim
    <2>2. QED
      BY <2>1, SameLoss DEF Edit
  <1>3. CASE LoseStatus
    <2>1. Save(EmptyStatus)
      BY <1>3 DEF LoseStatus
    <2>2. LossSound(EmptyStatus) /\ Confirmed(EmptyStatus)
      BY DEF EmptyStatus, LossSound, Confirmed
    <2>3. QED
      BY <2>1, <2>2, SaveLoss
  <1>4. CASE OtherRelease
    <2> DEFINE s == [status EXCEPT !.errorType = "Other"]
    <2>1. Save(s) /\ status.state # ""
      BY <1>4, Zenon DEF OtherRelease, LossInv, LossSound
    <2>2. s.state = status.state
      BY Zenon DEF HoldInv, Sound, Shape
    <2> HIDE DEF s
    <2>3. QED
      BY <2>1, <2>2, SaveLoss, Zenon DEF LossSound, Confirmed
  <1>5. CASE LoseClaim
    BY <1>5, SameLoss DEF LoseClaim, SameStatus
  <1>6. CASE Deliver
    BY <1>6, Zenon DEF Deliver, LossStep, LossInv, LossSound, Confirmed
  <1>7. QED
    BY <1>1, <1>2, <1>3, <1>4, <1>5, <1>6

\* Every step.
LEMMA StepLoss ==
    ASSUME HoldInv, LossInv, Objects, Annotations \cap MarkEarly = {}, [Next]_vars
    PROVE  LossStep
  <1>1. CASE UNCHANGED vars
    BY <1>1, SameLoss DEF vars
  <1>2. CASE Next
    BY <1>2, AnnotationsLoss, WalkLoss, BeyondLoss, DeleteWalkLoss, OthersLoss DEF Next, Reconcile
  <1>3. QED
    BY <1>1, <1>2

\* A Machine whose status was lost while its claim has intent and runs exist stays in the
\* empty state until an operator confirms (reconcileEmptyStatus, reconcileStatusLossHold),
\* however late the cache shows each write and wherever the manager stops, provided nobody
\* sets one of the annotations that write the status of a Machine that has no state.
THEOREM LossesAreConfirmed ==
    ASSUME Annotations \cap MarkEarly = {}
    PROVE  Spec => LossIsConfirmed
  <1> DEFINE Inv == HoldInv /\ Objects /\ LossInv
  <1>1. Init => Inv
    <2>0. EmptyStatus.state = "" /\ EmptyStatus.op = "" /\ EmptyStatus.updated = FALSE
      BY DEF EmptyStatus
    <2>1. Init => LossInv
      BY <2>0, Zenon DEF Init, LossInv, LossSound
    <2>2. QED
      BY <2>1, InitIsGood, InitHasObjects
  <1>2. Inv /\ [Next]_vars => Inv'
    BY StepIsGood, StepKeepsObjects, StepLoss DEF Good, ObjectsStep, LossStep
  <1>3. Inv /\ [Next]_vars
          => [(status.state = "" /\ cached.state = ""
               /\ status'.state \notin DeleteStage \cup {""} /\ Payload # 0 /\ runs # {})
                 => has("confirm-status-loss")]_vars
    BY StepLoss, Zenon DEF LossStep, Confirmed
  <1>4. QED
    BY <1>1, <1>2, <1>3, PTL DEF Spec, LossIsConfirmed

=============================================================================
