--------------------------- MODULE RedeployProofs ----------------------------
(***************************************************************************)
(* Proofs about Redeploy: what a plan resolves to, and which runs stay.    *)
(***************************************************************************)
EXTENDS Redeploy, FiniteSetTheorems, SequenceTheorems, WellFoundedInduction, TLAPS

(***************************************************************************)
(* The first error of a list of checks.                                    *)
(***************************************************************************)
LEMMA LeastIsThere ==
    ASSUME NEW S \in SUBSET Nat, S # {}
    PROVE  Min(S) \in S /\ \A y \in S : Min(S) <= y
  <1>1. PICK x \in S : \A y \in S : ~(<<y, x>> \in OpToRel(<, Nat))
    BY WFMin, NatLessThanWellFounded, Zenon
  <1>2. ASSUME NEW y \in S PROVE x <= y
    <2>1. ~(y < x)
      BY <1>1, Zenon DEF OpToRel
    <2>2. QED
      BY <2>1
  <1>3. QED
    BY <1>2, Zenon DEF Min

\* FirstError is silent exactly when every check is, and else one of the checks' errors.
LEMMA FirstErrorOf ==
    ASSUME NEW checks, DOMAIN checks \subseteq Nat
    PROVE  /\ FirstError(checks) = "none" <=> \A i \in DOMAIN checks : checks[i] = "none"
           /\ FirstError(checks) = "none" \/ \E i \in DOMAIN checks : FirstError(checks) = checks[i]
  <1> DEFINE failed == {i \in DOMAIN checks : checks[i] # "none"}
  <1>1. CASE failed = {}
    BY <1>1 DEF FirstError
  <1>2. CASE failed # {}
    <2>1. Min(failed) \in failed
      BY <1>2, LeastIsThere
    <2>2. FirstError(checks) = checks[Min(failed)]
      BY <1>2 DEF FirstError
    <2>3. QED
      BY <2>1, <2>2
  <1>3. QED
    BY <1>1, <1>2

LEMMA FirstOfThree ==
    ASSUME NEW a, NEW b, NEW c
    PROVE  FirstError(<<a, b, c>>) = IF a # "none" THEN a ELSE IF b # "none" THEN b ELSE c
  <1> DEFINE s == <<a, b, c>>
             failed == {i \in DOMAIN s : s[i] # "none"}
  <1>1. DOMAIN s = 1..3 /\ s[1] = a /\ s[2] = b /\ s[3] = c
    OBVIOUS
  <1>2. CASE failed = {}
    BY <1>1, <1>2 DEF FirstError
  <1>3. CASE failed # {}
    <2>1. Min(failed) \in failed /\ \A y \in failed : Min(failed) <= y
      BY <1>1, <1>3, LeastIsThere
    <2>2. FirstError(s) = s[Min(failed)]
      BY <1>3 DEF FirstError
    <2>3. PICK k \in 1..3 : k = Min(failed)
      BY <1>1, <2>1
    <2>4. QED
      BY <1>1, <2>1, <2>2, <2>3
  <1>4. QED
    BY <1>2, <1>3

LEMMA FirstOfFive ==
    ASSUME NEW a, NEW b, NEW c, NEW d, NEW e
    PROVE  /\ FirstError(<<a, b, c, d, e>>) = "none" <=>
                a = "none" /\ b = "none" /\ c = "none" /\ d = "none" /\ e = "none"
           /\ FirstError(<<a, b, c, d, e>>) \in {"none", a, b, c, d, e}
  <1> DEFINE s == <<a, b, c, d, e>>
  <1>1. DOMAIN s = 1..5 /\ s[1] = a /\ s[2] = b /\ s[3] = c /\ s[4] = d /\ s[5] = e
    OBVIOUS
  <1>2. \A i \in 1..5 : i = 1 \/ i = 2 \/ i = 3 \/ i = 4 \/ i = 5
    OBVIOUS
  <1> HIDE DEF s
  <1>3. /\ FirstError(s) = "none" <=> \A i \in DOMAIN s : s[i] = "none"
        /\ FirstError(s) = "none" \/ \E i \in DOMAIN s : FirstError(s) = s[i]
    BY <1>1, FirstErrorOf
  <1>4. FirstError(s) = "none" <=>
          a = "none" /\ b = "none" /\ c = "none" /\ d = "none" /\ e = "none"
    BY <1>1, <1>2, <1>3
  <1>5. FirstError(s) \in {"none", a, b, c, d, e}
    BY <1>1, <1>2, <1>3
  <1>6. QED
    BY <1>4, <1>5 DEF s

(***************************************************************************)
(* Two clusters with the same intent.                                      *)
(***************************************************************************)
\* Clusters that differ at most in what is ready and seeded.
Same(v, w) ==
    /\ v.claim = w.claim /\ v.hardware = w.hardware
    /\ DOMAIN v.images = DOMAIN w.images /\ DOMAIN v.hooks = DOMAIN w.hooks
    /\ \A i \in DOMAIN w.images : /\ v.images[i].slots = w.images[i].slots
                                  /\ v.images[i].hooks = w.images[i].hooks
                                  /\ v.images[i].params = w.images[i].params
                                  /\ v.images[i].family = w.images[i].family
    /\ \A h \in DOMAIN w.hooks : /\ v.hooks[h].steps = w.hooks[h].steps
                                 /\ v.hooks[h].defaults = w.hooks[h].defaults

\* What Asked and Ripe keep of a cluster.
LEMMA AskedKeeps ==
    ASSUME NEW w, IsCluster(w)
    PROVE  /\ Asked(w).claim = w.claim /\ Asked(w).hardware = w.hardware
           /\ DOMAIN Asked(w).images = DOMAIN w.images /\ DOMAIN Asked(w).hooks = DOMAIN w.hooks
           /\ \A i \in DOMAIN w.images : /\ Asked(w).images[i].slots = w.images[i].slots
                                         /\ Asked(w).images[i].hooks = w.images[i].hooks
                                         /\ Asked(w).images[i].params = w.images[i].params
                                         /\ Asked(w).images[i].family = w.images[i].family
                                         /\ Asked(w).images[i].state = "ready"
           /\ \A h \in DOMAIN w.hooks : /\ Asked(w).hooks[h].steps = w.hooks[h].steps
                                        /\ Asked(w).hooks[h].defaults = w.hooks[h].defaults
                                        /\ Asked(w).hooks[h].state = "valid"
  <1>1. ASSUME NEW i \in DOMAIN w.images
        PROVE  w.images[i] \in [state : {"pending", "ready"}, slots : Seq(Slots),
                                hooks : Seq(DOMAIN w.hooks), family : STRING,
                                params : {None} \cup SUBSET STRING]
    BY DEF IsCluster
  <1>2. ASSUME NEW h \in DOMAIN w.hooks
        PROVE  w.hooks[h] \in [state : {"invalid", "valid"}, steps : Seq(Steps),
                               defaults : SUBSET STRING]
    BY DEF IsCluster
  <1>3. ASSUME NEW i \in DOMAIN w.images
        PROVE  /\ Asked(w).images[i].slots = w.images[i].slots
               /\ Asked(w).images[i].hooks = w.images[i].hooks
               /\ Asked(w).images[i].params = w.images[i].params
               /\ Asked(w).images[i].family = w.images[i].family
               /\ Asked(w).images[i].state = "ready"
    BY <1>1 DEF Asked
  <1>4. ASSUME NEW h \in DOMAIN w.hooks
        PROVE  /\ Asked(w).hooks[h].steps = w.hooks[h].steps
               /\ Asked(w).hooks[h].defaults = w.hooks[h].defaults
               /\ Asked(w).hooks[h].state = "valid"
    BY <1>2 DEF Asked
  <1>5. QED
    BY <1>3, <1>4 DEF Asked

LEMMA AskedIsSame ==
    ASSUME NEW v, NEW w, IsCluster(v), IsCluster(w), Asked(v) = Asked(w)
    PROVE  Same(v, w)
  <1>1. /\ v.claim = w.claim /\ v.hardware = w.hardware
        /\ DOMAIN v.images = DOMAIN w.images /\ DOMAIN v.hooks = DOMAIN w.hooks
    BY AskedKeeps
  <1>2. ASSUME NEW i \in DOMAIN w.images
        PROVE  /\ v.images[i].slots = w.images[i].slots
               /\ v.images[i].hooks = w.images[i].hooks
               /\ v.images[i].params = w.images[i].params
               /\ v.images[i].family = w.images[i].family
    BY <1>1, AskedKeeps
  <1>3. ASSUME NEW h \in DOMAIN w.hooks
        PROVE  v.hooks[h].steps = w.hooks[h].steps /\ v.hooks[h].defaults = w.hooks[h].defaults
    BY <1>1, AskedKeeps
  <1>4. QED
    BY <1>1, <1>2, <1>3 DEF Same

LEMMA RipeIsSame ==
    ASSUME NEW w, IsCluster(w), w.hardware # None
    PROVE  Same(Ripe(w), w)
  <1>1. /\ Ripe(w).claim = w.claim /\ Ripe(w).hardware = w.hardware
        /\ Ripe(w).images = Asked(w).images /\ Ripe(w).hooks = Asked(w).hooks
    BY DEF Ripe
  <1>2. QED
    BY <1>1, AskedKeeps DEF Same

\* The Images and PostHooks a cluster's plan is made of are there.
LEMMA NamedObjectsExist ==
    ASSUME NEW w, IsCluster(w)
    PROVE  /\ w.claim.os \in {None} \cup DOMAIN w.images
           /\ Selections(w) \in Seq(Range(Selections(w)))
           /\ \A i \in DOMAIN Selections(w) : Selections(w)[i].image \in DOMAIN w.images
           /\ HooksOf(w) \in Seq(DOMAIN w.hooks)
           /\ \A i \in DOMAIN w.images : /\ w.images[i].slots \in Seq(Slots)
                                         /\ w.images[i].hooks \in Seq(DOMAIN w.hooks)
           /\ \A h \in DOMAIN w.hooks : w.hooks[h].steps \in Seq(Steps)
  <1>1. /\ w.claim.os \in {None} \cup DOMAIN w.images
        /\ w.claim.data \in Seq(Range(w.claim.data))
        /\ \A s \in Range(w.claim.data) : s.image \in DOMAIN w.images
        /\ w.claim.hooks \in Seq(DOMAIN w.hooks) /\ DefaultHook \in DOMAIN w.hooks
    BY DEF IsCluster
  <1>2. /\ \A i \in DOMAIN w.images : /\ w.images[i].slots \in Seq(Slots)
                                      /\ w.images[i].hooks \in Seq(DOMAIN w.hooks)
        /\ \A h \in DOMAIN w.hooks : w.hooks[h].steps \in Seq(Steps)
    BY DEF IsCluster
  <1>3. PICK data : data = w.claim.data
    OBVIOUS
  <1>4. PICK T : T = {[image |-> w.claim.os, hints |-> w.claim.hints]} \cup Range(data)
    BY Zenon
  <1>5. Selections(w) \in Seq(T)
    <2>1. data \in Seq(T)
      BY <1>1, <1>3, <1>4
    <2>2. CASE w.claim.os = None
      BY <1>3, <2>1, <2>2 DEF Selections
    <2>3. CASE w.claim.os # None
      <3>1. <<[image |-> w.claim.os, hints |-> w.claim.hints]>> \in Seq(T)
        BY <1>4
      <3>2. QED
        BY <1>3, <2>1, <2>3, <3>1 DEF Selections
    <2>4. QED
      BY <2>2, <2>3
  <1>6. ASSUME NEW i \in DOMAIN Selections(w) PROVE Selections(w)[i].image \in DOMAIN w.images
    <2>1. Selections(w)[i] \in T
      BY <1>5
    <2>2. CASE w.claim.os = None
      BY <1>1, <1>3, <2>2 DEF Selections, Range
    <2>3. CASE w.claim.os # None
      BY <1>1, <1>3, <1>4, <2>1, <2>3
    <2>4. QED
      BY <2>2, <2>3
  <1>7. Selections(w) \in Seq(Range(Selections(w)))
    BY <1>5 DEF Range
  <1>8. HooksOf(w) \in Seq(DOMAIN w.hooks)
    <2>1. PICK S : S = DOMAIN w.hooks
      OBVIOUS
    <2>2. <<>> \in Seq(S) /\ <<DefaultHook>> \in Seq(S)
      <3>1. DefaultHook \in S
        BY <1>1, <2>1
      <3>2. <<DefaultHook>> \in Seq(S)
        BY <3>1
      <3>3. QED
        BY <3>2, EmptySeq
    <2>3. ImageHooks(w) \in Seq(S)
      BY <1>1, <1>2, <2>1, <2>2, Zenon DEF ImageHooks
    <2>4. PICK own \in Seq(S) :
            own = IF w.claim.hooks # <<>> THEN w.claim.hooks
                  ELSE IF ImageHooks(w) = <<>> /\ w.claim.os # None THEN <<DefaultHook>>
                  ELSE <<>>
      BY <1>1, <2>1, <2>2
    <2>5. HooksOf(w) = ImageHooks(w) \o own
      BY <2>4 DEF HooksOf
    <2>6. ImageHooks(w) \o own \in Seq(S)
      BY <2>3, <2>4, ConcatProperties
    <2>7. QED
      BY <2>1, <2>5, <2>6
  <1>9. QED
    BY <1>1, <1>2, <1>6, <1>7, <1>8

LEMMA SameImages ==
    ASSUME NEW v, NEW w, IsCluster(w), Same(v, w)
    PROVE  /\ Selections(v) = Selections(w) /\ Inventory(v) = Inventory(w)
           /\ Intent(v) = Intent(w)
           /\ ImageParams(v) = ImageParams(w) /\ ImageHooks(v) = ImageHooks(w)
           /\ HasESP(v) = HasESP(w) /\ HooksOf(v) = HooksOf(w)
           /\ MergeError(v) = MergeError(w)
           /\ \A sel : Disk(v, sel) = Disk(w, sel)
  <1>1. v.claim = w.claim /\ v.hardware = w.hardware
    BY DEF Same
  <1>2. Selections(v) = Selections(w) /\ Inventory(v) = Inventory(w)
    BY <1>1 DEF Selections, Inventory
  <1>3. w.claim.os # None =>
          /\ v.images[w.claim.os].params = w.images[w.claim.os].params
          /\ v.images[w.claim.os].hooks = w.images[w.claim.os].hooks
          /\ v.images[w.claim.os].slots = w.images[w.claim.os].slots
    BY NamedObjectsExist DEF Same
  <1>4. ImageParams(v) = ImageParams(w) /\ ImageHooks(v) = ImageHooks(w)
    BY <1>1, <1>3 DEF ImageParams, ImageHooks
  <1>5. HasESP(v) = HasESP(w)
    BY <1>1, <1>3 DEF HasESP
  <1>6. HooksOf(v) = HooksOf(w)
    BY <1>1, <1>4 DEF HooksOf
  <1>7. MergeError(v) = MergeError(w) /\ Intent(v) = Intent(w)
    BY <1>1, <1>2, <1>4 DEF MergeError, Intent
  <1>8. ASSUME NEW sel PROVE Disk(v, sel) = Disk(w, sel)
    BY <1>2 DEF Disk
  <1>9. QED
    BY <1>2, <1>4, <1>5, <1>6, <1>7, <1>8

\* The hooks of a plan resolve alike, whatever is ready.
LEMMA SameHooks ==
    ASSUME NEW v, NEW w, IsCluster(w), Same(v, w), NEW h \in DOMAIN w.hooks
    PROVE  /\ v.hooks[h].steps = w.hooks[h].steps
           /\ CheckOSFamilyCompatible(v, h) = CheckOSFamilyCompatible(w, h)
           /\ \A step : StepError(v, h, step) = StepError(w, h, step)
           /\ \A step : ResolvedStep(v, h, step) = ResolvedStep(w, h, step)
  <1>1. /\ v.claim = w.claim
        /\ v.hooks[h].steps = w.hooks[h].steps /\ v.hooks[h].defaults = w.hooks[h].defaults
    BY DEF Same
  <1>2. CheckOSFamilyCompatible(v, h) = CheckOSFamilyCompatible(w, h)
    <2>1. w.claim.os # None => v.images[w.claim.os].family = w.images[w.claim.os].family
      BY NamedObjectsExist DEF Same
    <2>2. QED
      BY <1>1, <2>1, Zenon DEF CheckOSFamilyCompatible
  <1>3. ASSUME NEW step PROVE StepError(v, h, step) = StepError(w, h, step)
    <2>1. Given(v, h) = Given(w, h) /\ HasESP(v) = HasESP(w)
      BY <1>1, SameImages DEF Given
    <2>2. QED
      BY <2>1 DEF StepError
  <1>4. ASSUME NEW name PROVE ValueOf(v, h, name) = ValueOf(w, h, name)
    <2>1. /\ ImageParams(v) = ImageParams(w)
          /\ Disk(v, Selections(v)[1]) = Disk(w, Selections(w)[1])
      BY SameImages
    <2>2. QED
      BY <1>1, <2>1 DEF ValueOf
  <1>5. ASSUME NEW step PROVE ResolvedStep(v, h, step) = ResolvedStep(w, h, step)
    BY <1>4, Zenon DEF ResolvedStep
  <1>6. QED
    BY <1>1, <1>2, <1>3, <1>5

LEMMA SameSnapshot ==
    ASSUME NEW v, NEW w, IsCluster(w), Same(v, w)
    PROVE  /\ Snapshot(v) = Snapshot(w) /\ hooksHash(v) = hooksHash(w)
           /\ DistinctError(v) = DistinctError(w) /\ Validate(v) = Validate(w)
  <1>1. /\ Selections(v) = Selections(w) /\ HooksOf(v) = HooksOf(w)
        /\ \A sel : Disk(v, sel) = Disk(w, sel)
    BY SameImages
  <1>2. ASSUME NEW k \in DOMAIN HooksOf(w) PROVE HooksOf(w)[k] \in DOMAIN w.hooks
    BY NamedObjectsExist
  <1>3. hooksHash(v) = hooksHash(w)
    <2>1. ASSUME NEW k \in DOMAIN HooksOf(w)
          PROVE  LET hook == HooksOf(w)[k]
                 IN [i \in DOMAIN v.hooks[hook].steps |-> ResolvedStep(v, hook, v.hooks[hook].steps[i])]
                      = [i \in DOMAIN w.hooks[hook].steps |-> ResolvedStep(w, hook, w.hooks[hook].steps[i])]
      <3>1. PICK hook \in DOMAIN w.hooks : hook = HooksOf(w)[k]
        BY <1>2
      <3>2. /\ v.hooks[hook].steps = w.hooks[hook].steps
            /\ \A step : ResolvedStep(v, hook, step) = ResolvedStep(w, hook, step)
        BY SameHooks
      <3>3. QED
        BY <3>1, <3>2
    <2>2. QED
      BY <1>1, <2>1 DEF hooksHash
  <1>4. Snapshot(v) = Snapshot(w)
    BY <1>1, <1>3 DEF Snapshot
  <1>5. DistinctError(v) = DistinctError(w)
    BY <1>1 DEF DistinctError
  <1>6. Validate(v) = Validate(w)
    <2>1. \A i \in DOMAIN Selections(w) :
            v.images[Selections(w)[i].image].slots = w.images[Selections(w)[i].image].slots
      BY NamedObjectsExist DEF Same
    <2>2. \A k \in DOMAIN HooksOf(w) : v.hooks[HooksOf(w)[k]].steps = w.hooks[HooksOf(w)[k]].steps
      BY <1>2 DEF Same
    <2>3. QED
      BY <1>1, <2>1, <2>2, Zenon DEF Validate
  <1>7. QED
    BY <1>3, <1>4, <1>5, <1>6

(***************************************************************************)
(* Plans that resolve.                                                     *)
(***************************************************************************)
LEMMA ImageResolves ==
    ASSUME NEW w, NEW sel
    PROVE  /\ resolveImage(w, sel, TRUE) = "none" <=>
                /\ w.images[sel.image].state = "ready"
                /\ Match(Inventory(w), sel.hints) # None
                /\ SlotsError(w, sel.image) = "none"
           /\ resolveImage(w, sel, FALSE) = "none" <=>
                /\ w.images[sel.image].state = "ready"
                /\ Match(Inventory(w), sel.hints) # None
  BY FirstOfThree DEF resolveImage, ImageReady, Check

\* Intent, inventory and every selected Image.
LEMMA SelectionsResolve ==
    ASSUME NEW w, NEW withSlots \in BOOLEAN, DOMAIN Selections(w) \subseteq Nat
    PROVE  Resolved(w, withSlots) = "none" <=>
             /\ Intent(w) = "none" /\ w.hardware # None
             /\ \A i \in DOMAIN Selections(w) : resolveImage(w, Selections(w)[i], withSlots) = "none"
  <1> DEFINE each == [i \in DOMAIN Selections(w) |-> resolveImage(w, Selections(w)[i], withSlots)]
  <1>1. FirstError(each) = "none" <=> \A i \in DOMAIN each : each[i] = "none"
    BY FirstErrorOf
  <1>2. Resolved(w, withSlots) =
          FirstError(<<Intent(w), Check(w.hardware # None, "NotReady"), FirstError(each)>>)
    BY DEF Resolved, ForEach
  <1>3. QED
    BY <1>1, <1>2, FirstOfThree DEF Check

LEMMA HookResolves ==
    ASSUME NEW w, NEW h, DOMAIN w.hooks[h].steps \subseteq Nat
    PROVE  HookError(w, h) = "none" <=>
             /\ w.hooks[h].state = "valid" /\ CheckOSFamilyCompatible(w, h)
             /\ \A i \in DOMAIN w.hooks[h].steps : StepError(w, h, w.hooks[h].steps[i]) = "none"
  <1> DEFINE each == [i \in DOMAIN w.hooks[h].steps |-> StepError(w, h, w.hooks[h].steps[i])]
  <1>1. FirstError(each) = "none" <=> \A i \in DOMAIN each : each[i] = "none"
    BY FirstErrorOf
  <1>2. HookError(w, h) =
          FirstError(<<Check(w.hooks[h].state = "valid", "NotReady"),
                       Check(CheckOSFamilyCompatible(w, h), "Validation"), FirstError(each)>>)
    BY DEF HookError, ForEach
  <1>3. QED
    BY <1>1, <1>2, FirstOfThree DEF Check

LEMMA HooksResolve ==
    ASSUME NEW w, DOMAIN HooksOf(w) \subseteq Nat
    PROVE  HooksError(w) = "none" <=>
             /\ MergeError(w) = "none"
             /\ \A k \in DOMAIN HooksOf(w) : HookError(w, HooksOf(w)[k]) = "none"
  <1> DEFINE each == [k \in DOMAIN HooksOf(w) |-> HookError(w, HooksOf(w)[k])]
  <1>1. FirstError(each) = "none" <=> \A i \in DOMAIN each : each[i] = "none"
    BY FirstErrorOf
  <1>2. HooksError(w) = IF MergeError(w) # "none" THEN MergeError(w) ELSE FirstError(each)
    BY DEF HooksError, ForEach
  <1>3. QED
    BY <1>1, <1>2

LEMMA BuildResolves ==
    ASSUME NEW w
    PROVE  /\ Build(w).err = "none" <=>
                /\ Resolved(w, TRUE) = "none" /\ DistinctError(w) = "none"
                /\ HooksError(w) = "none" /\ Validate(w) = "none"
           /\ Build(w).err = "none" => Build(w).snapshot = Snapshot(w)
           /\ Resolved(w, TRUE) # "none" => Build(w).err = Resolved(w, TRUE)
           /\ Resolved(w, TRUE) = "none" =>
                Build(w).err = IF DistinctError(w) # "none" THEN DistinctError(w)
                               ELSE IF HooksError(w) # "none" THEN HooksError(w) ELSE Validate(w)
  <1>1. PICK e : e = FirstError(<<DistinctError(w), HooksError(w), Validate(w)>>)
    OBVIOUS
  <1>2. e = IF DistinctError(w) # "none" THEN DistinctError(w)
            ELSE IF HooksError(w) # "none" THEN HooksError(w) ELSE Validate(w)
    BY <1>1, FirstOfThree
  <1>3. PICK f : f = IF Resolved(w, TRUE) # "none" THEN Resolved(w, TRUE) ELSE e
    BY Zenon
  <1>4. Build(w) = IF f = "none" THEN Built(w) ELSE Failed(f)
    BY <1>1, <1>3 DEF Build
  <1>5. Build(w).err = f /\ (f = "none" => Build(w).snapshot = Snapshot(w))
    BY <1>4 DEF Built, Failed
  <1>6. QED
    BY <1>2, <1>3, <1>5, Zenon

LEMMA SnapshotResolves ==
    ASSUME NEW w
    PROVE  /\ BuildSnapshot(w).err = "none" <=> Resolved(w, FALSE) = "none" /\ HooksError(w) = "none"
           /\ BuildSnapshot(w).err = "none" =>
                BuildSnapshot(w) = [err |-> "none", snapshot |-> Snapshot(w)]
  BY Zenon DEF BuildSnapshot, Built, Failed

LEMMA PlanListsAreLists ==
    ASSUME NEW v, NEW w, IsCluster(w), Same(v, w)
    PROVE  /\ DOMAIN Selections(v) \subseteq Nat /\ DOMAIN HooksOf(v) \subseteq Nat
           /\ \A k \in DOMAIN HooksOf(w) : /\ HooksOf(w)[k] \in DOMAIN w.hooks
                                           /\ DOMAIN v.hooks[HooksOf(w)[k]].steps \subseteq Nat
  <1>1. \A T, q : q \in Seq(T) => DOMAIN q \subseteq Nat
    OBVIOUS
  <1>2. Selections(w) \in Seq(Range(Selections(w))) /\ HooksOf(w) \in Seq(DOMAIN w.hooks)
    BY NamedObjectsExist
  <1>3. ASSUME NEW h \in DOMAIN w.hooks PROVE DOMAIN v.hooks[h].steps \subseteq Nat
    BY <1>1, NamedObjectsExist DEF Same
  <1>4. \A k \in DOMAIN HooksOf(w) : HooksOf(w)[k] \in DOMAIN w.hooks
    BY <1>2
  <1>5. QED
    BY <1>1, <1>2, <1>3, <1>4, SameImages

(***************************************************************************)
(* A deployed Machine's snapshot.                                          *)
(***************************************************************************)
LEMMA SameIsReflexive == ASSUME NEW w PROVE Same(w, w)
  BY DEF Same

\* A plan that was built resolves to the same snapshot as long as nothing asked for changes
\* and its Images and PostHooks are ready.
LEMMA SnapshotStays ==
    ASSUME NEW v, NEW w, IsCluster(v), IsCluster(w), Same(v, w), Build(v).err = "none",
           \A i \in DOMAIN w.images : w.images[i].state = "ready",
           \A h \in DOMAIN w.hooks : w.hooks[h].state = "valid"
    PROVE  BuildSnapshot(w) = [err |-> "none", snapshot |-> Snapshot(v)]
  <1>1. /\ DOMAIN Selections(v) \subseteq Nat /\ DOMAIN HooksOf(v) \subseteq Nat
        /\ DOMAIN Selections(w) \subseteq Nat /\ DOMAIN HooksOf(w) \subseteq Nat
    BY SameIsReflexive, PlanListsAreLists
  <1>2. /\ Selections(v) = Selections(w) /\ Inventory(v) = Inventory(w)
        /\ Intent(v) = Intent(w) /\ HooksOf(v) = HooksOf(w) /\ MergeError(v) = MergeError(w)
        /\ v.hardware = w.hardware
    <2>1. Selections(v) = Selections(w) /\ Inventory(v) = Inventory(w)
      BY SameImages, ZenonT(40)
    <2>2. Intent(v) = Intent(w) /\ HooksOf(v) = HooksOf(w) /\ MergeError(v) = MergeError(w)
      BY SameImages, ZenonT(40)
    <2>3. v.hardware = w.hardware
      BY Zenon DEF Same
    <2>4. QED
      BY <2>1, <2>2, <2>3, Zenon
  <1>3. Resolved(v, TRUE) = "none" /\ HooksError(v) = "none"
    BY BuildResolves, Zenon
  <1>4. Resolved(w, FALSE) = "none"
    <2>1. /\ Intent(v) = "none" /\ v.hardware # None
          /\ \A i \in DOMAIN Selections(v) : resolveImage(v, Selections(v)[i], TRUE) = "none"
      BY <1>1, <1>3, SelectionsResolve, Zenon
    <2>2. ASSUME NEW i \in DOMAIN Selections(w)
          PROVE  resolveImage(w, Selections(w)[i], FALSE) = "none"
      <3>1. PICK sel : sel = Selections(w)[i]
        OBVIOUS
      <3>2. resolveImage(v, sel, TRUE) = "none"
        BY <1>2, <2>1, <3>1, Zenon
      <3>3. Match(Inventory(v), sel.hints) # None
        BY <3>2, ImageResolves, ZenonT(40)
      <3>4. w.images[sel.image].state = "ready"
        BY <3>1, NamedObjectsExist
      <3>5. resolveImage(w, sel, FALSE) = "none"
        <4>1. Match(Inventory(w), sel.hints) # None
          BY <1>2, <3>3
        <4>2. QED
          BY <3>4, <4>1, ImageResolves, ZenonT(40)
      <3>6. QED
        BY <3>1, <3>5, Zenon
    <2>3. QED
      BY <1>1, <1>2, <2>1, <2>2, SelectionsResolve, Zenon
  <1>5. HooksError(w) = "none"
    <2>1. /\ MergeError(v) = "none"
          /\ \A k \in DOMAIN HooksOf(v) : HookError(v, HooksOf(v)[k]) = "none"
      BY <1>1, <1>3, HooksResolve
    <2>2. ASSUME NEW k \in DOMAIN HooksOf(w) PROVE HookError(w, HooksOf(w)[k]) = "none"
      <3>1. PICK h \in DOMAIN w.hooks : h = HooksOf(w)[k]
        BY SameIsReflexive, PlanListsAreLists
      <3>2. DOMAIN v.hooks[h].steps \subseteq Nat /\ DOMAIN w.hooks[h].steps \subseteq Nat
        BY <3>1, SameIsReflexive, PlanListsAreLists, Zenon
      <3>3. HookError(v, h) = "none"
        BY <1>2, <2>1, <3>1
      <3>4. /\ CheckOSFamilyCompatible(v, h)
            /\ \A i \in DOMAIN v.hooks[h].steps : StepError(v, h, v.hooks[h].steps[i]) = "none"
        BY <3>2, <3>3, HookResolves
      <3>5. /\ CheckOSFamilyCompatible(w, h)
            /\ \A i \in DOMAIN w.hooks[h].steps : StepError(w, h, w.hooks[h].steps[i]) = "none"
        BY <3>4, SameHooks
      <3>6. QED
        BY <3>1, <3>2, <3>5, HookResolves
    <2>3. QED
      BY <1>1, <1>2, <2>1, <2>2, HooksResolve, Zenon
  <1>6. Snapshot(v) = Snapshot(w)
    BY SameSnapshot
  <1>7. QED
    BY <1>4, <1>5, <1>6, SnapshotResolves, Zenon

(***************************************************************************)
(* What waiting cures.                                                     *)
(***************************************************************************)
Waits == {"none", "NotReady"}

LEMMA TorrentWaits ==
    ASSUME NEW v, NEW w, TorrentError(v) = "none", w.site = "broken" => v.site = "broken"
    PROVE  TorrentError(w) \in Waits
  <1>1. v.site # "broken"
    BY FirstOfFive DEF TorrentError, Check
  <1>2. PICK a \in Waits, b \in Waits, c \in Waits, d \in Waits, e \in Waits :
          TorrentError(w) = FirstError(<<a, b, c, d, e>>)
    BY <1>1, ZenonT(40) DEF TorrentError, Check, resolveTorrentURL, Waits
  <1>3. QED
    BY <1>2, FirstOfFive DEF Waits

LEMMA SlotsWait ==
    ASSUME NEW v, NEW w, NEW i, v.images[i].slots = w.images[i].slots,
           DOMAIN w.images[i].slots \subseteq Nat,
           SlotsError(v, i) = "none", w.site = "broken" => v.site = "broken"
    PROVE  SlotsError(w, i) \in Waits
  <1> DEFINE slots == w.images[i].slots
             old == [k \in DOMAIN slots |-> IF SlotKind(slots[k]) = "torrent" THEN TorrentError(v) ELSE "none"]
             new == [k \in DOMAIN slots |-> IF SlotKind(slots[k]) = "torrent" THEN TorrentError(w) ELSE "none"]
  <1>1. SlotsError(v, i) = FirstError(old) /\ SlotsError(w, i) = FirstError(new)
    BY DEF SlotsError, ForEach
  <1>2. \A k \in DOMAIN old : old[k] = "none"
    BY <1>1, FirstErrorOf
  <1>3. ASSUME NEW k \in DOMAIN new PROVE new[k] \in Waits
    <2>1. CASE SlotKind(slots[k]) = "torrent"
      BY <1>2, <2>1, TorrentWaits, Zenon
    <2>2. CASE SlotKind(slots[k]) # "torrent"
      BY <2>2 DEF Waits
    <2>3. QED
      BY <2>1, <2>2
  <1>4. FirstError(new) = "none" \/ \E k \in DOMAIN new : FirstError(new) = new[k]
    BY FirstErrorOf
  <1>5. QED
    BY <1>1, <1>3, <1>4, Zenon DEF Waits

LEMMA SelectionsWait ==
    ASSUME NEW v, NEW w, IsCluster(w), Same(v, w), Resolved(v, TRUE) = "none",
           w.site = "broken" => v.site = "broken"
    PROVE  Resolved(w, TRUE) \in Waits
  <1>1. DOMAIN Selections(v) \subseteq Nat
    BY PlanListsAreLists
  <1>2. /\ Selections(v) = Selections(w) /\ Inventory(v) = Inventory(w)
        /\ Intent(v) = Intent(w) /\ v.hardware = w.hardware
    BY SameImages DEF Same
  <1>3. /\ Intent(v) = "none" /\ v.hardware # None
        /\ \A i \in DOMAIN Selections(v) : resolveImage(v, Selections(v)[i], TRUE) = "none"
    BY <1>1, SelectionsResolve, Zenon
  <1> DEFINE each == [i \in DOMAIN Selections(w) |-> resolveImage(w, Selections(w)[i], TRUE)]
  <1>4. ASSUME NEW i \in DOMAIN Selections(w) PROVE resolveImage(w, Selections(w)[i], TRUE) \in Waits
    <2>1. PICK sel : sel = Selections(w)[i]
      OBVIOUS
    <2>2. resolveImage(v, sel, TRUE) = "none"
      BY <1>2, <1>3, <2>1, Zenon
    <2>3. Match(Inventory(v), sel.hints) # None /\ SlotsError(v, sel.image) = "none"
      BY <2>2, ImageResolves, Zenon
    <2>4. PICK image \in DOMAIN w.images : image = sel.image
      BY <2>1, NamedObjectsExist
    <2>5. /\ v.images[image].slots = w.images[image].slots
          /\ DOMAIN w.images[image].slots \subseteq Nat
      <3>1. w.images[image].slots \in Seq(Slots)
        BY NamedObjectsExist
      <3>2. QED
        BY <3>1 DEF Same
    <2>6. SlotsError(w, image) \in Waits
      BY <2>3, <2>4, <2>5, SlotsWait
    <2>7. Match(Inventory(w), sel.hints) # None
      BY <1>2, <2>3
    <2>8. resolveImage(w, sel, TRUE) =
            FirstError(<<ImageReady(w, sel), "none", SlotsError(w, image)>>)
      BY <2>4, <2>7 DEF resolveImage, Check
    <2>9. ImageReady(w, sel) \in Waits
      BY DEF ImageReady, Check, Waits
    <2>10. PICK a \in Waits, c \in Waits : a = ImageReady(w, sel) /\ c = SlotsError(w, image)
      BY <2>6, <2>9
    <2>11. FirstError(<<a, "none", c>>) \in Waits
      BY FirstOfThree
    <2>12. QED
      BY <2>1, <2>8, <2>10, <2>11, Zenon
  <1>5. FirstError(each) = "none" \/ \E i \in DOMAIN each : FirstError(each) = each[i]
    BY <1>1, <1>2, FirstErrorOf, Zenon
  <1>6. FirstError(each) \in Waits
    BY <1>4, <1>5, Zenon DEF Waits
  <1>7. Resolved(w, TRUE) = FirstError(<<"none", "none", FirstError(each)>>)
    BY <1>2, <1>3 DEF Resolved, ForEach, Check
  <1>8. PICK e \in Waits : e = FirstError(each)
    BY <1>6, Zenon
  <1>9. FirstError(<<"none", "none", e>>) = e
    BY FirstOfThree
  <1>10. QED
    BY <1>7, <1>8, <1>9, Zenon

LEMMA HooksWait ==
    ASSUME NEW v, NEW w, IsCluster(w), Same(v, w), HooksError(v) = "none"
    PROVE  HooksError(w) \in Waits
  <1>1. DOMAIN HooksOf(v) \subseteq Nat /\ HooksOf(v) = HooksOf(w) /\ MergeError(v) = MergeError(w)
    BY PlanListsAreLists, SameImages
  <1>2. /\ MergeError(v) = "none"
        /\ \A k \in DOMAIN HooksOf(v) : HookError(v, HooksOf(v)[k]) = "none"
    BY <1>1, HooksResolve
  <1> DEFINE each == [k \in DOMAIN HooksOf(w) |-> HookError(w, HooksOf(w)[k])]
  <1>3. ASSUME NEW k \in DOMAIN HooksOf(w) PROVE HookError(w, HooksOf(w)[k]) \in Waits
    <2>1. PICK h \in DOMAIN w.hooks : h = HooksOf(w)[k]
      BY PlanListsAreLists
    <2>2. DOMAIN v.hooks[h].steps \subseteq Nat /\ DOMAIN w.hooks[h].steps \subseteq Nat
      BY <2>1, SameIsReflexive, PlanListsAreLists, Zenon
    <2>3. HookError(v, h) = "none"
      BY <1>1, <1>2, <2>1
    <2>4. /\ CheckOSFamilyCompatible(v, h)
          /\ \A i \in DOMAIN v.hooks[h].steps : StepError(v, h, v.hooks[h].steps[i]) = "none"
      BY <2>2, <2>3, HookResolves
    <2>5. /\ CheckOSFamilyCompatible(w, h)
          /\ \A i \in DOMAIN w.hooks[h].steps : StepError(w, h, w.hooks[h].steps[i]) = "none"
      BY <2>4, SameHooks
    <2> DEFINE steps == [i \in DOMAIN w.hooks[h].steps |-> StepError(w, h, w.hooks[h].steps[i])]
    <2>6. FirstError(steps) = "none"
      BY <2>2, <2>5, FirstErrorOf
    <2>7. HookError(w, h) =
            FirstError(<<Check(w.hooks[h].state = "valid", "NotReady"),
                         Check(CheckOSFamilyCompatible(w, h), "Validation"), FirstError(steps)>>)
      BY DEF HookError, ForEach
    <2>8. QED
      <3>1. PICK a, b, c : /\ a = Check(w.hooks[h].state = "valid", "NotReady")
                           /\ b = Check(CheckOSFamilyCompatible(w, h), "Validation")
                           /\ c = FirstError(steps)
        BY Zenon
      <3>2. a \in Waits
        BY <3>1, Zenon DEF Check, Waits
      <3>3. b = "none" /\ c = "none"
        BY <2>5, <2>6, <3>1, Zenon DEF Check
      <3>4. HookError(w, h) = FirstError(<<a, b, c>>)
        BY <2>7, <3>1, Zenon
      <3>5. HookError(w, h) = IF a # "none" THEN a ELSE IF b # "none" THEN b ELSE c
        BY <3>4, FirstOfThree
      <3>6. HookError(w, h) \in Waits
        BY <3>2, <3>3, <3>5, Zenon
      <3>7. QED
        BY <2>1, <3>6, Zenon
  <1>4. FirstError(each) = "none" \/ \E k \in DOMAIN each : FirstError(each) = each[k]
    BY <1>1, FirstErrorOf
  <1>5. HooksError(w) = FirstError(each)
    BY <1>1, <1>2 DEF HooksError, ForEach
  <1>6. QED
    BY <1>3, <1>4, <1>5 DEF Waits

LEMMA WaitingCures ==
    ASSUME NEW w, IsCluster(w), Build(Ripe(w)).err = "none"
    PROVE  Build(w).err \in Waits
  <1>1. PICK v : v = Ripe(w)
    OBVIOUS
  <1>2. v.claim = w.claim /\ (w.site = "broken" => v.site = "broken")
    BY <1>1 DEF Ripe
  <1>3. /\ Resolved(v, TRUE) = "none" /\ DistinctError(v) = "none"
        /\ HooksError(v) = "none" /\ Validate(v) = "none"
    BY <1>1, BuildResolves, Zenon
  <1>4. CASE w.hardware = None
    <2>1. Selections(v) = Selections(w)
      BY <1>2 DEF Selections
    <2>2. DOMAIN Selections(v) \subseteq Nat
      BY <2>1, SameIsReflexive, PlanListsAreLists, Zenon
    <2>3. Intent(v) = "none"
      BY <1>3, <2>2, SelectionsResolve, Zenon
    <2>4. Intent(w) = "none"
      BY <2>1, <2>3 DEF Intent
    <2>5. Resolved(w, TRUE) = "NotReady"
      BY <1>4, <2>4, FirstOfThree DEF Resolved, Check
    <2>6. QED
      BY <2>5, BuildResolves, Zenon DEF Waits
  <1>5. CASE w.hardware # None
    <2>1. Same(v, w)
      BY <1>1, <1>5, RipeIsSame
    <2>2. Resolved(w, TRUE) \in Waits /\ HooksError(w) \in Waits
      BY <1>2, <1>3, <2>1, SelectionsWait, HooksWait, Zenon
    <2>3. DistinctError(w) = "none" /\ Validate(w) = "none"
      BY <1>3, <2>1, SameSnapshot
    <2>4. QED
      BY <2>2, <2>3, BuildResolves, Zenon DEF Waits
  <1>6. QED
    BY <1>4, <1>5

(***************************************************************************)
(* The inductive invariant.                                                *)
(***************************************************************************)
RunNames == Names \cup {None}
Status == [state : {"Idle", "Provisioning"}, current : RunNames, last : RunNames, attempted : RunNames]

Shape ==
    /\ IsCluster(world) /\ now \in Nat
    /\ machine \in Status /\ cache \in Status /\ starting \in RunNames
    /\ spent \in [names : SUBSET Names, deleted : SUBSET Names, moves : Nat, mishaps : Nat]
    /\ DOMAIN runs \subseteq spent.names

\* A run records what its plan resolved to in the cluster it was made in.
Faithful(r) ==
    /\ r.at \in Nat /\ IsCluster(r.made) /\ Build(r.made).err = "none"
    /\ r.os = r.made.claim.os /\ r.data = r.made.claim.data
    /\ r.hash = Snapshot(r.made).hash /\ r.disks = Snapshot(r.made).disks

RecordsInv == \A n \in DOMAIN runs : Faithful(runs[n])

\* A run the Machine names is one the cache names too, or is as young as the clock's unit;
\* the run about to be named is that young.
YoungOrSeen ==
    /\ \A n \in protectedRunNames(machine) \cap DOMAIN runs :
         n \in protectedRunNames(cache) \/ runs[n].at = now
    /\ starting \in DOMAIN runs => runs[starting].at = now

Inv == Shape /\ RecordsInv /\ ReferencedRunStays /\ YoungOrSeen

(***************************************************************************)
(* The cluster.                                                            *)
(***************************************************************************)
LEMMA ClusterParts ==
    ASSUME NEW w
    PROVE  IsCluster(w) <=>
             /\ w \in [claim : Claims, hardware : Inventories, images : {w.images}, hooks : {w.hooks},
                       content : {"pending", "unhashed", "ready"},
                       site : {"broken", "unseeded", "starting", "serving"}]
             /\ w.images \in [DOMAIN w.images -> [state : {"pending", "ready"}, slots : Seq(Slots),
                                                  hooks : Seq(DOMAIN w.hooks), family : STRING,
                                                  params : {None} \cup SUBSET STRING]]
             /\ w.hooks \in [DOMAIN w.hooks -> [state : {"invalid", "valid"}, steps : Seq(Steps),
                                                defaults : SUBSET STRING]]
             /\ DefaultHook \in DOMAIN w.hooks
             /\ \A c \in Claims : /\ c.os \in {None} \cup DOMAIN w.images
                                  /\ c.data \in Seq(Range(c.data))
                                  /\ \A s \in Range(c.data) : s.image \in DOMAIN w.images
                                  /\ c.hooks \in Seq(DOMAIN w.hooks)
  BY DEF IsCluster

LEMMA ClusterChanges ==
    ASSUME NEW w, IsCluster(w)
    PROVE  /\ \A hw \in Inventories : IsCluster([w EXCEPT !.hardware = hw])
           /\ \A c \in Claims : IsCluster([w EXCEPT !.claim = c])
           /\ \A c \in {"unhashed", "ready"} : IsCluster([w EXCEPT !.content = c])
           /\ \A s \in {"starting", "serving"} : IsCluster([w EXCEPT !.site = s])
  <1>1. ASSUME NEW v, v.images = w.images, v.hooks = w.hooks,
               v \in [claim : Claims, hardware : Inventories, images : {w.images}, hooks : {w.hooks},
                      content : {"pending", "unhashed", "ready"},
                      site : {"broken", "unseeded", "starting", "serving"}]
        PROVE  IsCluster(v)
    BY <1>1, ClusterParts, Zenon
  <1>2. w \in [claim : Claims, hardware : Inventories, images : {w.images}, hooks : {w.hooks},
               content : {"pending", "unhashed", "ready"},
               site : {"broken", "unseeded", "starting", "serving"}]
    BY ClusterParts
  <1>3. ASSUME NEW hw \in Inventories PROVE IsCluster([w EXCEPT !.hardware = hw])
    BY <1>1, <1>2
  <1>4. ASSUME NEW c \in Claims PROVE IsCluster([w EXCEPT !.claim = c])
    BY <1>1, <1>2
  <1>5. ASSUME NEW c \in {"unhashed", "ready"} PROVE IsCluster([w EXCEPT !.content = c])
    BY <1>1, <1>2
  <1>6. ASSUME NEW c \in {"starting", "serving"} PROVE IsCluster([w EXCEPT !.site = c])
    BY <1>1, <1>2
  <1>7. QED
    BY <1>3, <1>4, <1>5, <1>6

LEMMA ObjectsChange ==
    ASSUME NEW w, IsCluster(w)
    PROVE  /\ \A i \in DOMAIN w.images, s \in {"pending", "ready"} :
                IsCluster([w EXCEPT !.images[i].state = s])
           /\ \A h \in DOMAIN w.hooks, s \in {"invalid", "valid"} :
                IsCluster([w EXCEPT !.hooks[h].state = s])
  <1>1. ASSUME NEW i \in DOMAIN w.images, NEW s \in {"pending", "ready"}
        PROVE  IsCluster([w EXCEPT !.images[i].state = s])
    <2>1. PICK f : f = [w.images EXCEPT ![i].state = s]
      BY Zenon
    <2>2. f \in [DOMAIN w.images -> [state : {"pending", "ready"}, slots : Seq(Slots),
                                     hooks : Seq(DOMAIN w.hooks), family : STRING,
                                     params : {None} \cup SUBSET STRING]]
      <3>1. PICK T : T = [state : {"pending", "ready"}, slots : Seq(Slots),
                          hooks : Seq(DOMAIN w.hooks), family : STRING,
                          params : {None} \cup SUBSET STRING]
        BY Zenon
      <3>2. w.images \in [DOMAIN w.images -> T]
        BY <3>1, ClusterParts
      <3>3. PICK m \in T : m = w.images[i]
        BY <3>2
      <3>4. [m EXCEPT !.state = s] \in T
        BY <3>1
      <3>5. f \in [DOMAIN w.images -> T]
        BY <2>1, <3>2, <3>3, <3>4
      <3>6. QED
        BY <3>1, <3>5
    <2>3. PICK v : v = [w EXCEPT !.images = f]
      BY Zenon
    <2>4. /\ v \in [claim : Claims, hardware : Inventories, images : {f}, hooks : {w.hooks},
                    content : {"pending", "unhashed", "ready"},
                    site : {"broken", "unseeded", "starting", "serving"}]
          /\ v.images = f /\ v.hooks = w.hooks /\ DOMAIN f = DOMAIN w.images
      BY <2>2, <2>3, ClusterParts, Zenon
    <2>5. IsCluster(v)
      BY <2>2, <2>4, ClusterParts, Zenon
    <2>6. QED
      BY <2>1, <2>3, <2>5
  <1>2. ASSUME NEW h \in DOMAIN w.hooks, NEW s \in {"invalid", "valid"}
        PROVE  IsCluster([w EXCEPT !.hooks[h].state = s])
    <2>1. PICK f : f = [w.hooks EXCEPT ![h].state = s]
      BY Zenon
    <2>2. f \in [DOMAIN w.hooks -> [state : {"invalid", "valid"}, steps : Seq(Steps),
                                    defaults : SUBSET STRING]]
      BY <2>1, ClusterParts, ZenonT(40)
    <2>3. PICK v : v = [w EXCEPT !.hooks = f]
      BY Zenon
    <2>4. /\ v \in [claim : Claims, hardware : Inventories, images : {w.images}, hooks : {f},
                    content : {"pending", "unhashed", "ready"},
                    site : {"broken", "unseeded", "starting", "serving"}]
          /\ v.images = w.images /\ v.hooks = f /\ DOMAIN f = DOMAIN w.hooks
      BY <2>2, <2>3, ClusterParts, Zenon
    <2>5. IsCluster(v)
      BY <2>2, <2>4, ClusterParts, Zenon
    <2>6. QED
      BY <2>1, <2>3, <2>5
  <1>3. QED
    BY <1>1, <1>2

\* Steps of the cluster leave the runs and their names alone.
LEMMA ClusterStep ==
    ASSUME Inv, Register \/ EditClaim \/ ClusterMoves
    PROVE  Inv'
  <1>1. Moves /\ \E w : IsCluster(w) /\ Becomes(w)
    <2>1. IsCluster(world)
      BY DEF Inv, Shape
    <2>2. CASE Register
      BY <2>1, <2>2, ClusterChanges, Zenon DEF Register
    <2>3. CASE EditClaim
      BY <2>1, <2>3, ClusterChanges, Zenon DEF EditClaim
    <2>4. CASE ClusterMoves
      <3>1. CASE \E c \in {"unhashed", "ready"} : Becomes([world EXCEPT !.content = c])
        BY <2>1, <2>4, <3>1, ClusterChanges DEF ClusterMoves
      <3>2. CASE \E c \in {"starting", "serving"} : Becomes([world EXCEPT !.site = c])
        BY <2>1, <2>4, <3>2, ClusterChanges DEF ClusterMoves
      <3>3. CASE \E i \in DOMAIN world.images, c \in {"pending", "ready"} :
                   Becomes([world EXCEPT !.images[i].state = c])
        BY <2>1, <2>4, <3>3, ObjectsChange, Zenon DEF ClusterMoves
      <3>4. CASE \E h \in DOMAIN world.hooks, c \in {"invalid", "valid"} :
                   Becomes([world EXCEPT !.hooks[h].state = c])
        BY <2>1, <2>4, <3>4, ObjectsChange, Zenon DEF ClusterMoves
      <3>5. QED
        BY <2>4, <3>1, <3>2, <3>3, <3>4, Zenon DEF ClusterMoves
    <2>5. QED
      BY <2>2, <2>3, <2>4
  <1>2. UNCHANGED <<runs, machine, starting, cache, now>> /\ IsCluster(world')
    BY <1>1 DEF Becomes
  <1>3. /\ spent' \in [names : SUBSET Names, deleted : SUBSET Names, moves : Nat, mishaps : Nat]
        /\ spent'.names = spent.names /\ spent'.deleted = spent.deleted
    BY <1>1 DEF Moves, Spend, Inv, Shape
  <1>4. QED
    BY <1>2, <1>3 DEF Inv, Shape, RecordsInv, ReferencedRunStays, YoungOrSeen, protectedRunNames

\* A new run is made of the plan that resolved, under a name that was never used.
LEMMA CreateStep ==
    ASSUME Inv, CreateRun, starting = None
    PROVE  Inv'
  <1>1. /\ Build(world).err = "none" /\ UNCHANGED <<world, machine, cache, now>>
    BY DEF CreateRun
  <1>2. PICK name \in Names \ spent.names :
          /\ runs' = [n \in DOMAIN runs \cup {name} |->
                        IF n # name THEN runs[n]
                        ELSE [at |-> now, os |-> world.claim.os, data |-> world.claim.data,
                              hash |-> Build(world).snapshot.hash,
                              disks |-> Build(world).snapshot.disks, made |-> world]]
          /\ starting' = name
          /\ spent' = [spent EXCEPT !.names = @ \cup {name}]
    BY Zenon DEF CreateRun
  <1>3. name \notin DOMAIN runs /\ now \in Nat /\ IsCluster(world)
    BY <1>2 DEF Inv, Shape
  <1>4. /\ DOMAIN runs' = DOMAIN runs \cup {name}
        /\ \A n \in DOMAIN runs : runs'[n] = runs[n]
        /\ runs'[name] = [at |-> now, os |-> world.claim.os, data |-> world.claim.data,
                          hash |-> Build(world).snapshot.hash,
                          disks |-> Build(world).snapshot.disks, made |-> world]
    BY <1>2, <1>3
  <1>5. Shape'
    BY <1>1, <1>2, <1>4 DEF Inv, Shape, RunNames
  <1>6. Faithful(runs'[name]) /\ runs'[name].at = now
    <2>1. Build(world).snapshot = Snapshot(world)
      BY <1>1, BuildResolves, Zenon
    <2>2. QED
      BY <1>1, <1>3, <1>4, <2>1 DEF Faithful
  <1>7. RecordsInv'
    <2>1. \A n \in DOMAIN runs' : Faithful(runs'[n])
      BY <1>4, <1>6 DEF Inv, RecordsInv
    <2>2. QED
      BY <2>1 DEF RecordsInv, Faithful
  <1>8. ReferencedRunStays'
    BY <1>1, <1>2, <1>4 DEF Inv, Shape, ReferencedRunStays
  <1>9. YoungOrSeen'
    BY <1>1, <1>2, <1>4, <1>6 DEF Inv, YoungOrSeen, protectedRunNames
  <1>10. QED
    BY <1>5, <1>7, <1>8, <1>9 DEF Inv

\* Steps of the Machine's status, of its cached copy and of the clock.
LEMMA StatusStep ==
    ASSUME Inv,
           \/ RecordRun \/ RecordFails \/ Completes \/ Fails \/ RunIsGone \/ Deliver \/ Tick
    PROVE  Inv'
  <1>1. /\ UNCHANGED <<world, runs>>
        /\ spent' \in [names : SUBSET Names, deleted : SUBSET Names, moves : Nat, mishaps : Nat]
        /\ spent'.names = spent.names /\ spent'.deleted = spent.deleted
    BY DEF RecordRun, RecordFails, Completes, Fails, RunIsGone, Deliver, Tick, Spend, Inv, Shape
  <1>2. PICK m \in Status : m = machine
    BY DEF Inv, Shape
  <1>3. /\ machine' \in Status /\ cache' \in Status /\ starting' \in RunNames /\ now' \in Nat
    <2>1. cache \in Status /\ starting \in RunNames /\ now \in Nat /\ None \in RunNames
      BY DEF Inv, Shape, RunNames
    <2>2. machine' \in Status
      <3>1. CASE RecordRun
        BY <2>1, <1>2, <3>1, Zenon DEF RecordRun, Status
      <3>2. CASE Completes
        BY <1>2, <3>2, Zenon DEF Completes, Status
      <3>3. CASE Fails
        BY <1>2, <3>3 DEF Fails, Status
      <3>4. CASE RunIsGone
        BY <1>2, <2>1, <3>4 DEF RunIsGone, Status
      <3>5. CASE RecordFails \/ Deliver \/ Tick
        BY <1>2, <3>5 DEF RecordFails, Deliver, Tick
      <3>6. QED
        BY <3>1, <3>2, <3>3, <3>4, <3>5
    <2>3. cache' \in Status /\ starting' \in RunNames /\ now' \in Nat
      BY <1>2, <2>1 DEF RecordRun, RecordFails, Completes, Fails, RunIsGone, Deliver, Tick
    <2>4. QED
      BY <2>2, <2>3
  <1>4. Shape'
    BY <1>1, <1>3 DEF Inv, Shape
  <1>5. RecordsInv'
    BY <1>1 DEF Inv, RecordsInv, Faithful
  <1>6. \A n \in {machine'.current, machine'.last, machine'.attempted, starting'} \ {None} :
          n \in {machine.current, machine.last, machine.attempted, starting} \ {None}
    BY Zenon DEF RecordRun, RecordFails, Completes, Fails, RunIsGone, Deliver, Tick, Inv, Shape, Status
  <1>7. ReferencedRunStays'
    BY <1>1, <1>6 DEF Inv, ReferencedRunStays
  <1>8. YoungOrSeen'
    <2>1. CASE Tick
      BY <2>1, NoneIsNoRun DEF Tick, Inv, Shape, Names, YoungOrSeen
    <2>2. CASE Deliver
      BY <2>2 DEF Deliver, Inv, YoungOrSeen
    <2>3. CASE RecordRun \/ RecordFails \/ Completes \/ Fails \/ RunIsGone
      <3>1. cache' = cache /\ now' = now /\ runs' = runs
        BY <2>3 DEF RecordRun, RecordFails, Completes, Fails, RunIsGone
      <3>2. \A n \in protectedRunNames(machine') : n \in protectedRunNames(machine) \/ n = starting
        BY <1>6 DEF protectedRunNames
      <3>3. starting' \in DOMAIN runs => starting' = starting
        BY <2>3, NoneIsNoRun DEF RecordRun, RecordFails, Completes, Fails, RunIsGone, Inv, Shape, Names
      <3>4. QED
        BY <3>1, <3>2, <3>3 DEF Inv, YoungOrSeen
    <2>4. QED
      BY <2>1, <2>2, <2>3
  <1>9. QED
    BY <1>4, <1>5, <1>7, <1>8 DEF Inv

\* Runs that go.
LEMMA DeleteStep ==
    ASSUME Inv, Collect \/ OperatorDeletes
    PROVE  Inv'
  <1>1. UNCHANGED <<world, machine, starting, cache, now>>
    BY Zenon DEF Collect, OperatorDeletes
  <1>2. /\ spent' \in [names : SUBSET Names, deleted : SUBSET Names, moves : Nat, mishaps : Nat]
        /\ spent'.names = spent.names /\ spent.deleted \subseteq spent'.deleted
    <2>1. /\ spent \in [names : SUBSET Names, deleted : SUBSET Names, moves : Nat, mishaps : Nat]
          /\ DOMAIN runs \subseteq Names
      BY DEF Inv, Shape
    <2>2. CASE Collect
      BY <2>1, <2>2 DEF Collect
    <2>3. CASE OperatorDeletes
      <3>1. PICK n \in Names : spent' = [spent EXCEPT !.mishaps = @ + 1, !.deleted = @ \cup {n}]
        BY <2>1, <2>3, Zenon DEF OperatorDeletes
      <3>2. PICK ds \in SUBSET Names, k \in Nat : ds = spent.deleted \cup {n} /\ k = spent.mishaps + 1
        <4>1. spent.deleted \in SUBSET Names /\ spent.mishaps \in Nat
          BY <2>1
        <4>2. spent.deleted \cup {n} \in SUBSET Names /\ spent.mishaps + 1 \in Nat
          BY <4>1
        <4>3. QED
          BY <4>2, Zenon
      <3>3. spent' = [spent EXCEPT !.mishaps = k, !.deleted = ds]
        BY <2>1, <3>1, <3>2
      <3>4. QED
        BY <2>1, <3>2, <3>3, Zenon
    <2>4. QED
      BY <2>2, <2>3
  <1>3. /\ DOMAIN runs' \subseteq DOMAIN runs
        /\ \A n \in DOMAIN runs' : runs'[n] = runs[n]
    BY Zenon DEF Collect, OperatorDeletes, Restrict
  <1>4. ASSUME NEW n \in {machine.current, machine.last, machine.attempted, starting} \ {None},
               n \in DOMAIN runs
        PROVE  n \in DOMAIN runs' \cup spent'.deleted
    <2>1. CASE Collect
      <3>1. n \notin runsToGC(cache)
        <4>1. n \in protectedRunNames(cache) \/ runs[n].at = now
          BY <1>4 DEF Inv, YoungOrSeen, protectedRunNames
        <4>2. now \in Nat /\ ~(now - now >= 1)
          BY DEF Inv, Shape
        <4>3. QED
          BY <4>1, <4>2 DEF runsToGC
      <3>2. QED
        BY <1>4, <2>1, <3>1 DEF Collect, Restrict
    <2>2. CASE OperatorDeletes
      BY <1>4, <2>2, Zenon DEF OperatorDeletes, Restrict, Inv, Shape
    <2>3. QED
      BY <2>1, <2>2
  <1>5. ReferencedRunStays'
    BY <1>1, <1>2, <1>4 DEF Inv, ReferencedRunStays
  <1>6. Shape' /\ RecordsInv' /\ YoungOrSeen'
    <2>1. Shape'
      BY <1>1, <1>2, <1>3, Zenon DEF Inv, Shape
    <2>2. RecordsInv'
      BY <1>3, Zenon DEF Inv, RecordsInv, Faithful
    <2>3. YoungOrSeen'
      BY <1>1, <1>3, Zenon DEF Inv, YoungOrSeen, protectedRunNames
    <2>4. QED
      BY <2>1, <2>2, <2>3, Zenon
  <1>7. QED
    BY <1>5, <1>6, Zenon DEF Inv

LEMMA InvInitially == Init => Inv
  <1> SUFFICES ASSUME Init PROVE Inv
    OBVIOUS
  <1>1. DOMAIN runs = {} /\ IsCluster(world)
    BY WorldsAreClusters DEF Init
  <1>2. Shape
    BY <1>1 DEF Init, Shape, Status, RunNames
  <1>3. RecordsInv /\ YoungOrSeen /\ ReferencedRunStays
    BY <1>1 DEF Init, RecordsInv, YoungOrSeen, ReferencedRunStays
  <1>4. QED
    BY <1>2, <1>3 DEF Inv

LEMMA InvSteps ==
    ASSUME Inv, [Next]_vars
    PROVE  Inv'
  <1>1. CASE Trigger \/ StartOver
    BY <1>1, CreateStep DEF Trigger, StartOver, Idle
  <1>2. CASE UNCHANGED vars
    BY <1>2 DEF vars, Inv, Shape, RecordsInv, Faithful, ReferencedRunStays, YoungOrSeen, protectedRunNames
  <1>3. QED
    BY <1>1, <1>2, ClusterStep, StatusStep, DeleteStep DEF Next

LEMMA InvHolds == Spec => []Inv
  BY InvInitially, InvSteps, PTL DEF Spec

(***************************************************************************)
(* The theorems.                                                           *)
(***************************************************************************)
\* For every bound on the runs, every clock and every number retained: runsToGC never takes a
\* DeployRun the Machine's status names or is about to name, although it reads the status from
\* a cache; only an operator's delete does.
THEOREM ReferencedRunsStay == Spec => []ReferencedRunStays
  <1>1. Inv => ReferencedRunStays
    BY DEF Inv
  <1>2. QED
    BY <1>1, InvHolds, PTL

\* In every cluster: while nothing asked for has changed, BuildSnapshot of a deployed Machine
\* resolves to the disks and the hash that its last run recorded, seeder or not.
THEOREM IdleMachinesAreQuiet == Spec => []IdleIsQuiet
  <1>1. Inv => IdleIsQuiet
    <2> SUFFICES ASSUME Inv, NEW run \in LastRun, Asked(run.made) = Asked(world),
                        \A i \in DOMAIN world.images : world.images[i].state = "ready",
                        \A h \in DOMAIN world.hooks : world.hooks[h].state = "valid"
                 PROVE  BuildSnapshot(world) =
                          [err |-> "none", snapshot |-> [disks |-> run.disks, hash |-> run.hash]]
      BY DEF IdleIsQuiet
    <2>1. Faithful(run) /\ IsCluster(world)
      BY DEF LastRun, Inv, RecordsInv, Shape
    <2>2. Same(run.made, world)
      BY <2>1, AskedIsSame DEF Faithful
    <2>3. BuildSnapshot(world) = [err |-> "none", snapshot |-> Snapshot(run.made)]
      BY <2>1, <2>2, SnapshotStays DEF Faithful
    <2>4. Snapshot(run.made) = [disks |-> run.disks, hash |-> run.hash]
      BY <2>1 DEF Faithful, Snapshot
    <2>5. QED
      BY <2>3, <2>4
  <1>2. QED
    BY <1>1, InvHolds, PTL

\* In every cluster: a plan refused for its disks or its contents would be refused when all it
\* waits for has come.
THEOREM PermanentErrorsArePermanent == Spec => []PermanentErrorsStay
  <1>1. Inv => PermanentErrorsStay
    BY WaitingCures DEF Inv, Shape, PermanentErrorsStay, Waits
  <1>2. QED
    BY <1>1, InvHolds, PTL

\* The disk the hints select is one of the inventory.
LEMMA MatchIsADisk ==
    ASSUME NEW disks, NEW hints, Match(disks, hints) # None
    PROVE  Match(disks, hints) \in DOMAIN disks
  <1>1. Cardinality(Matches(disks, hints)) = 1 /\ Match(disks, hints) = CHOOSE i \in Matches(disks, hints) : TRUE
    BY DEF Match
  <1>2. Matches(disks, hints) # {}
    BY <1>1, FS_EmptySet
  <1>3. QED
    BY <1>1, <1>2 DEF Matches

\* In every cluster: the images of one run are written to as many physical disks, also when a
\* disk is reported under two device names.
THEOREM ImagesHaveTheirOwnDisks == Spec => []ImagesGetTheirOwnDisk
  <1>1. Inv => ImagesGetTheirOwnDisk
    <2> SUFFICES ASSUME Inv, NEW n \in DOMAIN runs,
                        NEW i \in DOMAIN runs[n].disks, NEW j \in DOMAIN runs[n].disks, i # j,
                        Physical(runs[n].made, runs[n].disks[i])
                          = Physical(runs[n].made, runs[n].disks[j])
                 PROVE  FALSE
      BY DEF ImagesGetTheirOwnDisk
    <2>1. PICK w : w = runs[n].made
      OBVIOUS
    <2>2. IsCluster(w) /\ Build(w).err = "none" /\ runs[n].disks = Snapshot(w).disks
      BY <2>1 DEF Inv, RecordsInv, Faithful
    <2>3. Resolved(w, TRUE) = "none" /\ DistinctError(w) = "none"
      BY <2>2, BuildResolves, Zenon
    <2>4. /\ DOMAIN runs[n].disks = DOMAIN Selections(w)
          /\ \A k \in DOMAIN Selections(w) : runs[n].disks[k] = Disk(w, Selections(w)[k]).dev
      BY <2>2 DEF Snapshot
    <2>5. /\ w.hardware # None /\ w.hardware \in Inventories
          /\ \A k \in DOMAIN Selections(w) : resolveImage(w, Selections(w)[k], TRUE) = "none"
      <3>1. DOMAIN Selections(w) \subseteq Nat
        BY <2>2, SameIsReflexive, PlanListsAreLists
      <3>2. QED
        BY <2>2, <2>3, <3>1, SelectionsResolve, ClusterParts, ZenonT(40)
    <2>6. PICK hw : hw = w.hardware /\ hw = Inventory(w)
      BY <2>5 DEF Inventory
    <2>7. ASSUME NEW k \in DOMAIN Selections(w)
          PROVE  \E x \in DOMAIN hw : Disk(w, Selections(w)[k]) = hw[x]
      <3>1. PICK sel : sel = Selections(w)[k]
        OBVIOUS
      <3>2. resolveImage(w, sel, TRUE) = "none"
        BY <2>5, <3>1, ZenonT(40)
      <3>3. Match(Inventory(w), sel.hints) # None
        BY <3>2, ImageResolves, Zenon
      <3>4. Match(hw, sel.hints) \in DOMAIN hw
        BY <2>6, <3>3, MatchIsADisk
      <3>5. QED
        BY <2>6, <3>1, <3>4 DEF Disk
    <2>8. PICK x \in DOMAIN hw, y \in DOMAIN hw :
            Disk(w, Selections(w)[i]) = hw[x] /\ Disk(w, Selections(w)[j]) = hw[y]
      BY <2>4, <2>7
    <2>9. diskIdentity(hw[x]) # diskIdentity(hw[y])
      <3>1. PICK sel : sel = [k \in DOMAIN Selections(w) |-> Disk(w, Selections(w)[k])]
        BY Zenon
      <3>2. CheckDistinct(sel)
        BY <2>3, <3>1 DEF DistinctError, Check
      <3>3. i \in DOMAIN sel /\ j \in DOMAIN sel /\ sel[i] = hw[x] /\ sel[j] = hw[y]
        BY <2>4, <2>8, <3>1, Zenon
      <3>4. QED
        BY <3>2, <3>3, Zenon DEF CheckDistinct
    <2>10. \A z \in DOMAIN hw : hw[z].dev = hw[y].dev => z = y
      BY <2>5, <2>6, DisksHaveNames DEF IsInjective
    <2>11. Physical(w, hw[x].dev) = Physical(w, hw[y].dev)
      BY <2>1, <2>4, <2>8
    <2>12. PICK p : p = <<hw[x].serial, IF hw[x].serial = "" THEN hw[x].dev ELSE "">>
      BY Zenon
    <2>13. p \in Physical(w, hw[y].dev)
      BY <2>6, <2>11, <2>12, ZenonT(40) DEF Physical, Range
    <2>14. /\ hw[x].serial = hw[y].serial
           /\ hw[x].serial = "" => hw[x].dev = hw[y].dev
      <3>1. PICK z \in DOMAIN hw : /\ hw[z].dev = hw[y].dev
                                   /\ p = <<hw[z].serial, IF hw[z].serial = "" THEN hw[z].dev ELSE "">>
        BY <2>6, <2>13, ZenonT(40) DEF Physical, Range
      <3>2. p = <<hw[y].serial, IF hw[y].serial = "" THEN hw[y].dev ELSE "">>
        BY <2>10, <3>1, Zenon
      <3>3. p[1] = hw[x].serial /\ p[2] = IF hw[x].serial = "" THEN hw[x].dev ELSE ""
        BY <2>12, Zenon
      <3>4. p[1] = hw[y].serial /\ p[2] = IF hw[y].serial = "" THEN hw[y].dev ELSE ""
        BY <3>2, Zenon
      <3>5. QED
        BY <3>3, <3>4, ZenonT(40)
    <2>15. QED
      BY <2>9, <2>14, Zenon DEF diskIdentity
  <1>2. QED
    BY <1>1, InvHolds, PTL

\* In every cluster: an idle Machine that was deployed gets a new run only when what users asked
\* for, or the disks, differ from what its last run was made of, or an operator deleted that run.
THEOREM RedeploysHaveACause == Spec => RedeployHasACause
  <1> DEFINE Cause == \A n \in DOMAIN runs' \ DOMAIN runs :
                        machine.state = "Idle" /\ machine.last # None =>
                          \/ machine.last \in spent.deleted
                          \/ \E run \in LastRun : Asked(run.made) # Asked(world)
  <1>1. Inv /\ [Next]_vars => [Cause]_vars
    <2> SUFFICES ASSUME Inv, Next, NEW n \in DOMAIN runs' \ DOMAIN runs,
                        machine.state = "Idle", machine.last # None,
                        machine.last \notin spent.deleted,
                        \A run \in LastRun : Asked(run.made) = Asked(world)
                 PROVE  FALSE
      OBVIOUS
    <2>1. PICK run : run = runs[machine.last]
      OBVIOUS
    <2>2. LastRun = {run} /\ Faithful(run) /\ IsCluster(world)
      BY <2>1 DEF LastRun, Inv, ReferencedRunStays, RecordsInv, Shape
    <2>3. Trigger
      BY Zenon DEF Next, StartOver, RecordRun, RecordFails, Completes, Fails, RunIsGone, Collect,
             Register, EditClaim, ClusterMoves, Becomes, OperatorDeletes, Deliver, Tick, Restrict
    <2>4. /\ BuildSnapshot(world).err = "none"
          /\ <<world.claim.os, world.claim.data, BuildSnapshot(world).snapshot.hash>>
               # <<run.os, run.data, run.hash>>
      BY <2>2, <2>3 DEF Trigger, shouldProvision
    <2>5. Same(run.made, world)
      BY <2>2, AskedIsSame DEF Faithful
    <2>6. BuildSnapshot(world).snapshot.hash = Snapshot(run.made).hash
      <3>1. BuildSnapshot(world) = [err |-> "none", snapshot |-> Snapshot(world)]
        BY <2>4, SnapshotResolves, Zenon
      <3>2. Snapshot(run.made) = Snapshot(world)
        BY <2>2, <2>5, SameSnapshot
      <3>3. QED
        BY <3>1, <3>2
    <2>7. QED
      BY <2>2, <2>4, <2>5, <2>6 DEF Faithful, Same
  <1>2. QED
    BY <1>1, InvHolds, PTL DEF Spec, RedeployHasACause
=============================================================================
