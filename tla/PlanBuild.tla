------------------------------ MODULE PlanBuild ------------------------------
(***************************************************************************)
(* Building a deploy plan.  Build resolves a Machine's claim against the   *)
(* cluster into a plan and the snapshot its DeployRun records;             *)
(* BuildSnapshot resolves the snapshot alone, and the provisioning trigger *)
(* compares its hash with the last successful run's.                       *)
(*                                                                         *)
(* The cluster is a record w:                                              *)
(*   claim     [os, hints, data, hooks, params]; os is None or an Image,   *)
(*             data a sequence of [image, hints]                           *)
(*   hardware  None, or the sequence of disks of DiskMatch                 *)
(*   images    Image -> [state, slots, hooks, params, family]; a slot is   *)
(*             [number, role, content], content TRUE for a contentRef      *)
(*   content   the state of the content the slots name                     *)
(*   site      what the Machine's Subnet and Site resolve to               *)
(*   hooks     PostHook -> [state, defaults, steps]; a step is             *)
(*             [kind, family, source, needs, part], kind a builtin or      *)
(*             "script", needs the placeholders it uses                    *)
(* params and defaults are the sets of names they give a value; params is  *)
(* None when the JSON given is not an object.                              *)
(*                                                                         *)
(* Sources: internal/planbuild/*.go, internal/posthookdefaults,            *)
(* internal/posthookvalidate and the trigger of machine_controller.go.     *)
(***************************************************************************)
EXTENDS DiskMatch, Functions

CONSTANT DefaultHook     \* kezio-default-finalize, in w.hooks

\* An operation stops at the first check that fails.
FirstError(checks) ==
    LET failed == {i \in DOMAIN checks : checks[i] # "none"}
    IN IF failed = {} THEN "none" ELSE checks[Min(failed)]
Check(ok, err) == IF ok THEN "none" ELSE err
ForEach(s, err(_)) == FirstError([i \in DOMAIN s |-> err(s[i])])

(***************************************************************************)
(* Images, disks and slots.                                                *)
(***************************************************************************)
Selections(w) ==
    (IF w.claim.os = None THEN <<>> ELSE <<[image |-> w.claim.os, hints |-> w.claim.hints]>>)
      \o w.claim.data

\* resolveTorrentURL: the seeder's Deployment is there and a Pod of it has an address.
resolveTorrentURL(w) == Check(w.site = "serving", "NotReady")

\* buildTorrent
TorrentError(w) ==
    FirstError(<<Check(w.content \in {"unhashed", "ready"}, "NotReady"),
                 Check(w.site # "broken", "Validation"),
                 Check(w.site # "unseeded", "NotReady"),
                 Check(w.content = "ready", "NotReady"),
                 resolveTorrentURL(w)>>)

\* buildSlot, buildSlots
SlotKind(slot) == IF slot.content THEN "torrent" ELSE IF slot.role = "swap" THEN "swap" ELSE "mkfs"
SlotsError(w, image) ==
    ForEach(w.images[image].slots,
            LAMBDA s : IF SlotKind(s) = "torrent" THEN TorrentError(w) ELSE "none")

\* Mutant: an Image that is not Ready fails the deploy.
notReadyFails(w, sel) == Check(w.images[sel.image].state = "ready", "Validation")
ImageReady(w, sel) == Check(w.images[sel.image].state = "ready", "NotReady")

Inventory(w) == IF w.hardware = None THEN <<>> ELSE w.hardware
Disk(w, sel) == Inventory(w)[Match(Inventory(w), sel.hints)]

\* resolveImage
resolveImage(w, sel, withSlots) ==
    FirstError(<<ImageReady(w, sel),
                 Check(Match(Inventory(w), sel.hints) # None, "DiskSelection"),
                 IF withSlots THEN SlotsError(w, sel.image) ELSE "none">>)

(***************************************************************************)
(* Hooks.                                                                  *)
(***************************************************************************)
Reserved == {"machineName", "imageName", "targetDisk"}
NeedsESP == {"efibootmgr", "install-removable-fallback"}
TakesDisk == NeedsESP \cup {"growLastPartition"}

ImageParams(w) == IF w.claim.os = None THEN {} ELSE w.images[w.claim.os].params
ImageHooks(w) == IF w.claim.os = None THEN <<>> ELSE w.images[w.claim.os].hooks

\* deriveBuiltinDefaults
HasESP(w) == /\ w.claim.os # None
             /\ \E i \in DOMAIN w.images[w.claim.os].slots :
                  w.images[w.claim.os].slots[i].role = "esp"

\* resolveMachineHooks: the shipped hook stands in only for two empty lists and an OS image.
HooksOf(w) ==
    ImageHooks(w) \o (IF w.claim.hooks # <<>> THEN w.claim.hooks
                      ELSE IF ImageHooks(w) = <<>> /\ w.claim.os # None THEN <<DefaultHook>>
                      ELSE <<>>)

\* mergeParams
MergeError(w) == Check(ImageParams(w) # None /\ w.claim.params # None, "Validation")

\* mergeParams, the reserved names and hookTemplateData: where a name's value comes from.
ValueOf(w, hook, name) ==
    IF name = "targetDisk" THEN IF w.claim.os = None THEN "" ELSE Disk(w, Selections(w)[1]).dev
    ELSE IF name \in Reserved THEN "given"
    ELSE IF name \in w.claim.params THEN "claim"
    ELSE IF name \in ImageParams(w) THEN "image"
    ELSE "default"
Given(w, hook) == ImageParams(w) \cup w.claim.params \cup Reserved \cup w.hooks[hook].defaults

\* resolveStep: resolveBuiltinParams, or fetchScriptSource and renderTemplate
StepError(w, hook, step) ==
    FirstError(<<Check(step.kind = "script" => step.source # "missing", "NotReady"),
                 Check(step.needs \subseteq Given(w, hook), "Validation"),
                 Check(step.kind \in NeedsESP => step.part \/ HasESP(w), "Validation")>>)

\* CheckOSFamilyCompatible
CheckOSFamilyCompatible(w, hook) ==
    w.claim.os # None =>
      \A i \in DOMAIN w.hooks[hook].steps :
        w.hooks[hook].steps[i].family \in {"any", w.images[w.claim.os].family}

\* resolveHook
HookError(w, hook) ==
    FirstError(<<Check(w.hooks[hook].state = "valid", "NotReady"),
                 Check(CheckOSFamilyCompatible(w, hook), "Validation"),
                 ForEach(w.hooks[hook].steps, LAMBDA s : StepError(w, hook, s))>>)
HooksError(w) ==
    IF MergeError(w) # "none" THEN MergeError(w)
    ELSE ForEach(HooksOf(w), LAMBDA h : HookError(w, h))

\* resolveBuiltinParams, resolveScriptStep: what is left of a step for the agent.  A builtin
\* of TakesDisk carries the OS image's device name, a template the values it names.
ResolvedStep(w, hook, step) ==
    [kind |-> step.kind,
     disk |-> IF step.kind \in TakesDisk THEN ValueOf(w, hook, "targetDisk") ELSE "",
     values |-> [n \in step.needs |-> ValueOf(w, hook, n)]]
hooksHash(w) ==
    [h \in DOMAIN HooksOf(w) |->
       LET hook == HooksOf(w)[h]
       IN [i \in DOMAIN w.hooks[hook].steps |-> ResolvedStep(w, hook, w.hooks[hook].steps[i])]]

(***************************************************************************)
(* Build and BuildSnapshot.                                                *)
(***************************************************************************)
Intent(w) == Check(Selections(w) # <<>>, "Validation")

\* diskForSelection, checkDistinctDisks
DistinctError(w) ==
    Check(CheckDistinct([i \in DOMAIN Selections(w) |-> Disk(w, Selections(w)[i])]),
          "DiskSelection")

\* DeployPlan.Validate, with validateSlots and validateHookStep
validateSlots(slots) == slots # <<>> /\ IsInjective([i \in DOMAIN slots |-> slots[i].number])
Validate(w) ==
    Check(/\ \A i \in DOMAIN Selections(w) : validateSlots(w.images[Selections(w)[i].image].slots)
          /\ \A h \in DOMAIN HooksOf(w) : \A i \in DOMAIN w.hooks[HooksOf(w)[h]].steps :
               w.hooks[HooksOf(w)[h]].steps[i].source # "empty",
          "Validation")

Snapshot(w) ==
    [disks |-> [i \in DOMAIN Selections(w) |-> Disk(w, Selections(w)[i]).dev],
     hash |-> hooksHash(w)]
Failed(err) == [err |-> err]
Built(w) == [err |-> "none", snapshot |-> Snapshot(w)]

Resolved(w, withSlots) ==
    FirstError(<<Intent(w), Check(w.hardware # None, "NotReady"),
                 ForEach(Selections(w), LAMBDA s : resolveImage(w, s, withSlots))>>)

Build(w) ==
    LET first == Resolved(w, TRUE)
        err == IF first # "none" THEN first
               ELSE FirstError(<<DistinctError(w), HooksError(w), Validate(w)>>)
    IN IF err = "none" THEN Built(w) ELSE Failed(err)

\* Mutant: the snapshot resolves the slots too.
snapshotWithSlots(w) ==
    LET first == Resolved(w, TRUE)
        err == IF first # "none" THEN first ELSE HooksError(w)
    IN IF err = "none" THEN Built(w) ELSE Failed(err)
\* Mutant: the snapshot is taken before the hooks are resolved.
snapshotUnhooked(w) ==
    LET first == Resolved(w, FALSE)
    IN IF first = "none" THEN [err |-> "none", snapshot |-> [Snapshot(w) EXCEPT !.hash = <<>>]]
       ELSE Failed(first)
BuildSnapshot(w) ==
    LET first == Resolved(w, FALSE)
        err == IF first # "none" THEN first ELSE HooksError(w)
    IN IF err = "none" THEN Built(w) ELSE Failed(err)

\* shouldProvision and intentSubsetEqual: last holds the record of the last successful run,
\* if one is known; hash is what currentHooksHash resolved.
shouldProvision(claim, last, hash) ==
    /\ claim.os # None \/ claim.data # <<>>
    /\ last = {} \/ \E run \in last : <<claim.os, claim.data, hash>> # <<run.os, run.data, run.hash>>
==============================================================================
