---------------------------- MODULE AgentDeploy ----------------------------
(***************************************************************************)
(* The agent's executor: one machine, its disks, the local ezio daemon and *)
(* the reporter (internal/agent/deploy, internal/agent/httpreporter.go,    *)
(* ezio.go, torrentfetcher.go, cmd/agent/main.go).  A plan comes from the  *)
(* poll loop; Execute checks it against the machine, writes the partition  *)
(* tables, makes or restores every slot, runs the hooks and hands the      *)
(* machine over.  Between any two of its steps it may have to send a       *)
(* progress report, and the answer to one may be an abort, which cancels   *)
(* the context every later command runs under.                             *)
(*                                                                         *)
(* A torrent is downloading, finished, ripe (the stop policy wants it      *)
(* paused) or paused.  The content of a disk is the set of its slots that  *)
(* hold what the plan wants; writing a partition table empties it.         *)
(***************************************************************************)
EXTENDS Naturals, Sequences, FiniteSets

CONSTANTS
    Plans,      \* the plans /agent/next may answer with
    DevDisks,   \* disk names that are absolute /dev/ paths
    SizeOf,     \* the size of each disk that exists, a function on disk names
    MaxDeploys, \* bound: plans the poll loop receives
    MaxFaults   \* bound: failed commands, lost reports, spurious aborts

ASSUME BoundsAssumption == MaxDeploys \in Nat /\ MaxFaults \in Nat

Kinds == {"torrent", "mkfs", "swap"}

\* DeploySlot, DeployDataImagePlan and DeployPlan (internal/agentapi), as decoded, before any check.
DeploySlot == [number : Nat, kinds : SUBSET Kinds, device : STRING \X Nat]

DeployDataImagePlan == [targetDisk : STRING, slots : Seq(DeploySlot), needs : Nat]

DeployPlan ==
    [schemaVersion : BOOLEAN, targetDisk : STRING, slots : Seq(DeploySlot), needs : Nat,
     dataImages : Seq(DeployDataImagePlan), hooks : Seq(STRING)]

ASSUME PlansAssumption == Plans \subseteq DeployPlan

VARIABLES
    plan,       \* the plan Execute was called with
    pc,         \* where Execute is
    at,         \* the disk plan, and the slot or hook, it is at
    out,        \* reports it must send before it goes on
    last,       \* the report it sent last
    written,    \* slots that hold what a plan wanted, <<disk, number>>
    touched,    \* disks this call has written to
    ezio,       \* the local daemon: "down", "up", or "dead" (it crashed)
    torrents,   \* the state of every torrent it was given, by slot
    cancelled,  \* the deploy's context is cancelled
    aborted,    \* HTTPReporter.aborted, the sync.Once, has fired
    told,       \* an answer to this call's reports said abort
    superseded, \* the controller wants this deploy stopped
    spent       \* what the bounds count

vars == <<plan, pc, at, out, last, written, touched, ezio, torrents, cancelled,
          aborted, told, superseded, spent>>

-----------------------------------------------------------------------------
(* Plans (internal/agentapi).                                              *)

\* validateSlots: at least one slot, no number twice, one kind each.
SlotsWellFormed(slots) ==
    /\ slots # <<>>
    /\ \A i, j \in DOMAIN slots : slots[i].number = slots[j].number => i = j
    /\ \A i \in DOMAIN slots : Cardinality(slots[i].kinds) = 1

\* DeployPlan.Validate.  A plan without a target disk deploys only data
\* images.
Validate(p) ==
    /\ p.schemaVersion
    /\ IF p.targetDisk = "" THEN p.slots = <<>> ELSE SlotsWellFormed(p.slots)
    /\ \A i \in DOMAIN p.dataImages :
          /\ p.dataImages[i].targetDisk # ""
          /\ SlotsWellFormed(p.dataImages[i].slots)
    /\ \A h \in DOMAIN p.hooks : p.hooks[h] \in {"builtin", "script"}

\* diskPlans: the OS image first, then the data images.
DiskPlans(p) ==
    (IF p.targetDisk = "" THEN <<>>
     ELSE <<[targetDisk |-> p.targetDisk, slots |-> p.slots, needs |-> p.needs]>>)
    \o p.dataImages

\* A slot of disk plan dp, by the device it stands for.
DevicePartitionPath(dp, s) == <<dp.targetDisk, s.number>>

SlotsOf(dp) == {dp.slots[i] : i \in DOMAIN dp.slots}

Devices(p) ==
    UNION {{DevicePartitionPath(DiskPlans(p)[i], s) : s \in SlotsOf(DiskPlans(p)[i])}
           : i \in DOMAIN DiskPlans(p)}

TorrentsOf(p) ==
    UNION {{DevicePartitionPath(DiskPlans(p)[i], s) :
                s \in {t \in SlotsOf(DiskPlans(p)[i]) : "torrent" \in t.kinds}}
           : i \in DOMAIN DiskPlans(p)}

\* Executor.validate, first half: what the plan says of its own disks.
Consistent(plans) ==
    /\ \A i \in DOMAIN plans : plans[i].targetDisk \in DevDisks
    /\ \A i, j \in DOMAIN plans : plans[i].targetDisk = plans[j].targetDisk => i = j
    /\ \A i \in DOMAIN plans : \A s \in SlotsOf(plans[i]) :
          s.device = DevicePartitionPath(plans[i], s)

\* checkDiskSize: the disk exists and is large enough.
Fits(dp) == dp.targetDisk \in DOMAIN SizeOf /\ dp.needs <= SizeOf[dp.targetDisk]

\* Executor.validate.
Passes(p) ==
    /\ Consistent(DiskPlans(p))
    /\ \A i \in DOMAIN DiskPlans(p) : Fits(DiskPlans(p)[i])

-----------------------------------------------------------------------------
(* The reporter and the commands.                                          *)

Fault == spent.faults < MaxFaults

SpendIf(b) == spent' = [spent EXCEPT !.faults = IF b THEN @ + 1 ELSE @]

\* Runner.Run, Launch, FetchTorrent, AddTorrent under the deploy's context:
\* a command succeeds only while the context lives, and fails when it is
\* cancelled or by itself.
Runs == ~cancelled /\ UNCHANGED spent

Breaks == (cancelled \/ Fault) /\ SpendIf(~cancelled)

Running(phase) == <<phase, "running">>
Done(phase)    == <<phase, "succeeded">>

NopPlan == [schemaVersion |-> FALSE, targetDisk |-> "", slots |-> <<>>, needs |-> 0,
            dataImages |-> <<>>, hooks |-> <<>>]

NoReport == <<"", "">>

\* HTTPReporter.Report: up to three attempts, each with a context of its own,
\* so a cancelled deploy still reports.  An abort cancels the deploy, once in
\* the life of the reporter, and with it the daemon, a child of its context.
Answers ==
    (IF superseded THEN {"abort"} ELSE {"continue"})
        \cup (IF Fault THEN {"abort", "lost"} ELSE {})

Report ==
    /\ out # <<>>
    /\ last' = Head(out)
    /\ out' = Tail(out)
    /\ \E answer \in Answers :
          /\ cancelled' = (cancelled \/ (answer = "abort" /\ ~aborted))
          /\ aborted' = (aborted \/ answer = "abort")
          /\ told' = (told \/ answer = "abort")
          /\ SpendIf(answer = "lost" \/ (answer = "abort" /\ ~superseded))
    /\ ezio' = IF cancelled' /\ ezio = "up" THEN "dead" ELSE ezio
    /\ UNCHANGED <<plan, pc, at, written, touched, torrents, superseded>>

\* The deferred calls: ezio is killed, and the last report says failed.
FailWith(phase) ==
    /\ out' = <<<<phase, "failed">>>>
    /\ pc' = "failed"
    /\ ezio' = "down"
    /\ torrents' = <<>>
    /\ UNCHANGED at

Reporter == <<last, cancelled, aborted, told>>

-----------------------------------------------------------------------------
(* Execute.                                                                *)

Plan(i) == DiskPlans(plan)[i]

\* dispatchDeploy: an invalid plan is refused before the deferred report is
\* set up, so nobody hears of it.
Refuse(p) ==
    /\ pc = "idle" /\ spent.deploys < MaxDeploys
    /\ ~Validate(p)
    /\ spent' = [spent EXCEPT !.deploys = @ + 1]
    /\ UNCHANGED <<plan, pc, at, out, written, touched, ezio, torrents, superseded,
                   Reporter>>

\* cmd/agent/main.go gives every deploy a context of its own, and the one
\* reporter of the process its cancel function.
Begin(p) ==
    /\ pc = "idle" /\ spent.deploys < MaxDeploys
    /\ Validate(p)
    /\ plan' = p /\ pc' = "check" /\ at' = <<1, 1>> /\ out' = <<>>
    /\ last' = NoReport /\ touched' = {}
    /\ cancelled' = FALSE /\ told' = FALSE /\ superseded' = FALSE
    /\ spent' = [spent EXCEPT !.deploys = @ + 1]
    /\ UNCHANGED <<written, ezio, torrents, aborted>>

Check ==
    /\ pc = "check" /\ out = <<>>
    /\ \/ /\ Passes(plan) /\ Runs
          /\ pc' = "tables"
          /\ out' = <<Running("Partitioning")>>
          /\ UNCHANGED <<at, ezio, torrents>>
       \/ /\ IF Passes(plan) THEN Breaks ELSE UNCHANGED spent
          /\ FailWith("Partitioning")
    /\ UNCHANGED <<plan, written, touched, superseded, Reporter>>

\* writePartitionTable: sfdisk, then re-read.  Either may fail, so the table
\* of a failed step may have been written.
WriteTable ==
    /\ pc = "tables" /\ out = <<>> /\ at[1] <= Len(DiskPlans(plan))
    /\ LET disk == Plan(at[1]).targetDisk
           Wipe == /\ touched' = touched \cup {disk}
                   /\ written' = {w \in written : w[1] # disk}
       IN \/ /\ Runs /\ Wipe
             /\ at' = <<at[1] + 1, 1>>
             /\ UNCHANGED <<pc, out, ezio, torrents>>
          \/ /\ Breaks
             /\ FailWith("Partitioning")
             /\ Wipe \/ UNCHANGED <<written, touched>>
    /\ UNCHANGED <<plan, superseded, Reporter>>

TablesWritten ==
    /\ pc = "tables" /\ out = <<>> /\ at[1] > Len(DiskPlans(plan))
    /\ pc' = IF TorrentsOf(plan) # {} THEN "launch" ELSE "slots"
    /\ at' = <<1, 1>>
    /\ out' = <<Done("Partitioning"), Running("WritingContent")>>
    /\ UNCHANGED <<plan, written, touched, ezio, torrents, superseded, Reporter, spent>>

\* ExecEzioLauncher.Launch: a daemon that does not answer its health check is
\* stopped again.
Launch ==
    /\ pc = "launch" /\ out = <<>>
    /\ \/ /\ Runs
          /\ ezio' = "up" /\ pc' = "slots"
          /\ UNCHANGED <<at, out, torrents>>
       \/ Breaks /\ FailWith("WritingContent")
    /\ UNCHANGED <<plan, written, touched, superseded, Reporter>>

\* writeSlots, writeSlot: mkfs and mkswap write the slot at once and report
\* it; a torrent is fetched and handed to ezio.
WriteSlot ==
    /\ pc = "slots" /\ out = <<>> /\ at[1] <= Len(DiskPlans(plan))
    /\ LET dp   == Plan(at[1])
           slot == dp.slots[at[2]]
           dev  == DevicePartitionPath(dp, slot)
       IN /\ touched' = touched \cup (IF cancelled THEN {} ELSE {dp.targetDisk})
          /\ \/ /\ Runs
                /\ at' = IF at[2] < Len(dp.slots) THEN <<at[1], at[2] + 1>>
                         ELSE <<at[1] + 1, 1>>
                /\ IF slot.kinds = {"torrent"}
                   THEN /\ ezio = "up"
                        /\ torrents' = [t \in DOMAIN torrents \cup {dev} |->
                                          IF t = dev THEN "downloading" ELSE torrents[t]]
                        /\ UNCHANGED <<written, out>>
                   ELSE /\ written' = written \cup {dev}
                        /\ out' = <<Running("WritingContent")>>
                        /\ UNCHANGED torrents
                /\ UNCHANGED <<pc, ezio>>
             \/ /\ IF slot.kinds = {"torrent"} /\ ezio = "dead" THEN UNCHANGED spent
                   ELSE Breaks
                /\ FailWith("WritingContent")
                /\ UNCHANGED written
    /\ UNCHANGED <<plan, superseded, Reporter>>

SlotsWrittenSeedsAlways ==
    /\ pc = "slots" /\ out = <<>> /\ at[1] > Len(DiskPlans(plan))
    /\ pc' = "seed"
    /\ UNCHANGED <<plan, at, out, written, touched, ezio, torrents, superseded, Reporter,
                   spent>>

SlotsWritten ==
    /\ pc = "slots" /\ out = <<>> /\ at[1] > Len(DiskPlans(plan))
    /\ IF TorrentsOf(plan) # {} THEN pc' = "seed" /\ UNCHANGED <<at, out>>
       ELSE /\ pc' = "hooks" /\ at' = <<1, 1>>
            /\ out' = <<Done("WritingContent"), Running("RunningPostHook")>>
    /\ UNCHANGED <<plan, written, touched, ezio, torrents, superseded, Reporter, spent>>

\* stoppolicy.go.  allStopped of no torrent at all is false.
ShouldPause(state) == state = "ripe"

AnyStopped(state) == \E t \in DOMAIN state : state[t] = "paused"

AllStopped(state) == DOMAIN state # {} /\ \A t \in DOMAIN state : state[t] = "paused"

\* One tick of seedUntilStopped: poll, pause what the policy says, report,
\* and go on once the statuses polled, from before the pauses, are all
\* stopped.  A failed pause is tried again on the next tick; a failed poll
\* changes nothing, and neither does polling a dead daemon.
SeedTick ==
    /\ pc = "seed" /\ out = <<>> /\ ~cancelled /\ ezio = "up"
    /\ \E failed \in SUBSET {t \in DOMAIN torrents : ShouldPause(torrents[t])} :
          /\ failed # {} => Fault
          /\ SpendIf(failed # {})
          /\ torrents' = [t \in DOMAIN torrents |->
                IF ShouldPause(torrents[t]) /\ t \notin failed THEN "paused"
                ELSE torrents[t]]
    /\ out' = <<Running("WritingContent")>>
    /\ pc' = IF AllStopped(torrents) THEN "shutdown" ELSE "seed"
    /\ UNCHANGED <<plan, at, written, touched, ezio, superseded, Reporter>>

SeedCancelled ==
    /\ pc = "seed" /\ out = <<>> /\ cancelled
    /\ FailWith("WritingContent")
    /\ UNCHANGED <<plan, written, touched, superseded, Reporter, spent>>

\* A Shutdown that fails is only logged: handle.Stop kills the daemon when
\* Execute returns.
Shutdown ==
    /\ pc = "shutdown" /\ out = <<>>
    /\ \/ Runs /\ ezio' = "down"
       \/ Breaks /\ UNCHANGED ezio
    /\ pc' = "hooks" /\ at' = <<1, 1>>
    /\ out' = <<Done("WritingContent"), Running("RunningPostHook")>>
    /\ UNCHANGED <<plan, written, touched, torrents, superseded, Reporter>>

\* runHooks: the first step that fails or times out ends the deploy.
RunHook ==
    /\ pc = "hooks" /\ out = <<>> /\ at[2] <= Len(plan.hooks)
    /\ \/ /\ Runs
          /\ at' = <<at[1], at[2] + 1>>
          /\ UNCHANGED <<pc, out, ezio, torrents>>
       \/ Breaks /\ FailWith("RunningPostHook")
    /\ UNCHANGED <<plan, written, touched, superseded, Reporter>>

\* Finalizing has no work of its own; the terminal report goes out before
\* systemctl is called, since nothing sent after it is sure to arrive.
ClosingReportsWithoutFinalizing == <<Done("RunningPostHook"), Done("Succeeded")>>

ClosingReports == <<Done("RunningPostHook"), Running("Finalizing"), Done("Finalizing"),
                    Done("Succeeded")>>

HooksDone ==
    /\ pc = "hooks" /\ out = <<>> /\ at[2] > Len(plan.hooks)
    /\ pc' = "handover"
    /\ out' = ClosingReports
    /\ UNCHANGED <<plan, at, written, touched, ezio, torrents, superseded, Reporter, spent>>

\* rebootOrPowerOff.
HandOver ==
    /\ pc = "handover" /\ out = <<>>
    /\ \/ /\ Runs
          /\ pc' = "over" /\ ezio' = "down" /\ torrents' = <<>>
          /\ UNCHANGED <<at, out>>
       \/ Breaks /\ FailWith("Succeeded")
    /\ UNCHANGED <<plan, written, touched, superseded, Reporter>>

\* Execute returns to the poll loop.
Return ==
    /\ pc \in {"failed", "over"} /\ out = <<>>
    /\ pc' = "idle"
    /\ UNCHANGED <<plan, at, out, written, touched, ezio, torrents, superseded, Reporter,
                   spent>>

-----------------------------------------------------------------------------
(* The machine, the daemon and the controller.                             *)

Downloading == {t \in DOMAIN torrents : torrents[t] = "downloading"}

\* ezio has written and verified the whole slot.
TorrentFinishes ==
    /\ ezio = "up"
    /\ \E t \in Downloading :
          /\ torrents' = [torrents EXCEPT ![t] = "finished"]
          /\ written' = written \cup {t}
    /\ UNCHANGED <<plan, pc, at, out, touched, ezio, superseded, Reporter, spent>>

\* Uploaded three times over, or finished and idle for a minute.
TorrentRipens ==
    /\ ezio = "up"
    /\ \E t \in DOMAIN torrents :
          /\ torrents[t] = "finished"
          /\ torrents' = [torrents EXCEPT ![t] = "ripe"]
    /\ UNCHANGED <<plan, pc, at, out, written, touched, ezio, superseded, Reporter, spent>>

EzioDies ==
    /\ ezio = "up" /\ Fault
    /\ ezio' = "dead"
    /\ SpendIf(TRUE)
    /\ UNCHANGED <<plan, pc, at, out, written, touched, torrents, superseded, Reporter>>

\* The DeployRun is deleted, or another one is current: AbortDecider answers
\* abort from now on.
Supersede ==
    /\ pc # "idle" /\ ~superseded
    /\ superseded' = TRUE
    /\ UNCHANGED <<plan, pc, at, out, written, touched, ezio, torrents, Reporter, spent>>

\* The machine is power-cycled and boots another agent: what is on its disks
\* stays, everything else is gone.
Reboot ==
    /\ plan' = NopPlan /\ pc' = "idle" /\ at' = <<1, 1>> /\ out' = <<>>
    /\ last' = NoReport /\ touched' = {} /\ ezio' = "down" /\ torrents' = <<>>
    /\ cancelled' = FALSE /\ aborted' = FALSE /\ told' = FALSE /\ superseded' = FALSE
    /\ UNCHANGED <<written, spent>>

PowerCycle == pc # "idle" /\ Reboot

\* A dead daemon leaves seedUntilStopped polling for ever, in silence; the
\* manager's deadline for a silent run ends it.
StallDeadline == pc = "seed" /\ out = <<>> /\ ezio = "dead" /\ ~cancelled /\ Reboot

-----------------------------------------------------------------------------
Init ==
    /\ plan = NopPlan /\ pc = "idle" /\ at = <<1, 1>> /\ out = <<>> /\ last = NoReport
    /\ written = {} /\ touched = {} /\ ezio = "down" /\ torrents = <<>>
    /\ cancelled = FALSE /\ aborted = FALSE /\ told = FALSE /\ superseded = FALSE
    /\ spent = [deploys |-> 0, faults |-> 0]

\* What the executor does by itself.
Step ==
    \/ Report \/ Check \/ WriteTable \/ TablesWritten \/ Launch \/ WriteSlot
    \/ SlotsWritten \/ SeedTick \/ SeedCancelled \/ Shutdown \/ RunHook \/ HooksDone
    \/ HandOver \/ Return

Next ==
    \/ \E p \in Plans : Refuse(p) \/ Begin(p)
    \/ Step
    \/ TorrentFinishes \/ TorrentRipens \/ EzioDies
    \/ Supersede \/ PowerCycle \/ StallDeadline

Spec == Init /\ [][Next]_vars

\* The executor does not stop by itself, the swarm delivers, and the manager
\* watches its deadline.
FairSpec ==
    /\ Spec
    /\ WF_vars(Step) /\ WF_vars(TorrentFinishes) /\ WF_vars(TorrentRipens)
    /\ WF_vars(StallDeadline)

-----------------------------------------------------------------------------
(* Properties.                                                             *)

TypeOK ==
    /\ plan \in Plans \cup {NopPlan}
    /\ pc \in {"idle", "check", "tables", "launch", "slots", "seed", "shutdown", "hooks",
              "handover", "over", "failed"}
    /\ at \in (Nat \ {0}) \X (Nat \ {0})
    /\ out \in Seq(STRING \X STRING) /\ last \in STRING \X STRING
    /\ written \subseteq UNION {Devices(p) : p \in Plans}
    /\ touched \subseteq DevDisks
    /\ ezio \in {"down", "up", "dead"}
    /\ DOMAIN torrents \subseteq TorrentsOf(plan)
    /\ \A t \in DOMAIN torrents : torrents[t] \in {"downloading", "finished", "ripe", "paused"}
    /\ {cancelled, aborted, told, superseded} \subseteq BOOLEAN
    /\ spent \in [deploys : 0..MaxDeploys, faults : 0..MaxFaults]

\* "Execute validates the whole plan before any command runs, so a single
\* inconsistency aborts the deployment having written nothing at all"
\* (internal/agent/deploy/doc.go): once a disk has been written to, every
\* disk of the plan, also one whose turn has not come, is there, is large
\* enough and is the target of one image, every slot lies on its own disk,
\* and only disks of the plan were written.
WritesOnlyWholePlans ==
    touched # {} =>
        LET dps == DiskPlans(plan) IN
        /\ touched \subseteq {dps[i].targetDisk : i \in DOMAIN dps}
        /\ Cardinality({dps[i].targetDisk : i \in DOMAIN dps}) = Len(dps)
        /\ \A i \in DOMAIN dps :
              /\ dps[i].targetDisk \in DevDisks \cap DOMAIN SizeOf
              /\ SizeOf[dps[i].targetDisk] >= dps[i].needs
              /\ \A s \in SlotsOf(dps[i]) : s.device[1] = dps[i].targetDisk

\* Hooks run, the success is reported and the machine is handed over only
\* once every slot of every disk holds what the plan wants, whatever was
\* retried, paused late or answered in between (Execute's own comment: "Hooks
\* run once every slot across the whole plan is fully written").
ContentBeforeHooks ==
    pc \in {"hooks", "handover", "over"} \/ last = Done("Succeeded") =>
        Devices(plan) \subseteq written

\* Whichever way Execute returns, the daemon it launched is gone: the next
\* deploy of the same boot can listen on the same port, and nothing writes to
\* a disk that has been handed over.
NoDaemonLeft == pc \in {"idle", "over", "failed"} => ezio # "up"

Reports == INSTANCE DeployProtocol WITH executing <- pc # "idle"

\* The reports of an executor, under every failure, cancellation and retry,
\* are those of module DeployProtocol: the phases in their order, each opened
\* and closed, and one last word.
ReportsInOrder == Reports!Spec

\* Every deploy that was accepted ends: it returns, or the machine is rebooted
\* because its daemon died and left it silent (seedUntilStopped polls on).
ExecuteEnds == (pc # "idle") ~> (pc = "idle")

\* "Cancel stops the deploy in progress once the controller answers abort.
\* Set by the caller immediately before each Execute call"
\* (internal/agent/httpreporter.go): a deploy that was told to abort is
\* cancelled.
AbortIsHonoured == told => cancelled
=============================================================================
