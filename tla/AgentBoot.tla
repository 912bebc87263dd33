----------------------------- MODULE AgentBoot -----------------------------
(***************************************************************************)
(* One Machine from the moment a deploy step wants it in the live          *)
(* environment until its plan is on the disk: the manager's AgentDeployer  *)
(* (internal/deployer/agent.go) with the outcome bookkeeping of the        *)
(* Machine controller around it, the boot server that hands the GRUB       *)
(* configuration and the boot token out (internal/bootserver), the agent   *)
(* API (internal/agentserver) and the agent itself (internal/agent).       *)
(*                                                                         *)
(* The manager arms a boot in several writes, and may crash between any    *)
(* two of them; it shares its process with the boot server and the agent   *)
(* API, whose handlers die with it.  What one call of Inspect or Provision *)
(* only reads is one step.  Tokens and sessions are numbers, 0 for none,   *)
(* and stand for their hashes too.  Time is two facts: the boot token has  *)
(* expired, the run has made no progress for the stall deadline.  Either   *)
(* comes while the agent could still make it only as one of the mishaps    *)
(* that MaxMishaps counts.                                                *)
(*                                                                         *)
(* Handlers that a client gave up on may still take effect, as long as the *)
(* next boot has not read its GRUB configuration (a boot takes longer than *)
(* any handler's retries).                                                 *)
(***************************************************************************)
EXTENDS Naturals, FiniteSets

CONSTANTS
    MaxRuns,     \* bound: DeployRuns the Machine gets
    Pool,        \* bound: tokens, and sessions, that can be around at a time
    MaxMishaps,  \* bound: crashes, failed or lost calls, early deadlines, late handlers
    MaxLate      \* bound: of these, reports whose handler outlives the agent's wait

ASSUME BoundsAssumption ==
    {MaxRuns, Pool, MaxMishaps, MaxLate} \subseteq Nat

VARIABLES
    machine,  \* the Machine's status and annotations
    run,      \* the DeployRun status.currentRunRef names
    mgr,      \* the call of the deployer that is under way
    store,    \* bootserver.TokenStore: the token it remembers
    secret,   \* the boot token Secret
    host,     \* the machine itself: power, agent, and what its disk holds
    regs,     \* registrations past the token check, by token and boot
    late,     \* reports whose handler the agent no longer waits for
    spent     \* what the bounds count

vars == <<machine, run, mgr, store, secret, host, regs, late, spent>>

NoReport == <<"", "">>
NoMarker == 99  \* no annotation; a marker is the session it found

\* One call of deploy.Executor.Execute, as a listener sees it: here the agent
\* sends the reports that module AgentDeploy's executor is shown to send.
D == INSTANCE DeployProtocol WITH last <- host.last, executing <- host.uid # 0

\* mintToken, mintSessionToken: one that nobody holds any more or yet.
Fresh(held) == CHOOSE t \in 1..Pool : t \notin held

Tokens == {machine.token, store, secret, host.token, host.meant, mgr.token} \cup {r.token : r \in regs}

Sessions == {machine.session, machine.marker, host.session, mgr.session}

Mishaps(n) == spent.mishaps + n <= MaxMishaps /\ spent' = [spent EXCEPT !.mishaps = @ + n]

Mishap == Mishaps(1)

-----------------------------------------------------------------------------
(* The boot token (internal/bootserver).                                   *)

\* TokenStore.Lookup: memory, as long as it holds the hash asked for.
InStore == store = machine.token

\* lookupTokenFromSecret: the Secret must match the hash too, and carries its
\* own expiry.
InSecret == secret = machine.token /\ ~machine.expired

\* lookupToken: the token status.netBoot names, from memory or, after a
\* restart, from the Secret.
LookupFromMemory == IF InStore THEN machine.token ELSE 0

LookupToken == IF machine.token # 0 /\ (InStore \/ InSecret) THEN machine.token ELSE 0

\* Restore: what the Secret gave is remembered.
Restored == IF LookupToken # 0 THEN LookupToken ELSE store

NeedsNetBoot == machine.state \in {"Inspecting", "Provisioning"}

\* The firmware asks for grub.cfg-<mac>.  Without the one-time PXE override it
\* boots the disk; with it, the disk all the same when the Machine needs no
\* live environment.
FetchGrubConfig ==
    /\ host.power = "booting"
    /\ host' = IF host.pxe /\ NeedsNetBoot
               THEN [host EXCEPT !.power = "agent", !.token = LookupToken, !.pxe = FALSE]
               ELSE [host EXCEPT !.power = "os", !.pxe = FALSE]
    /\ store' = IF host.pxe /\ NeedsNetBoot THEN Restored ELSE store
    /\ regs' = {} /\ late' = {}
    /\ UNCHANGED <<machine, run, mgr, secret, spent>>

-----------------------------------------------------------------------------
(* Arming a boot (internal/deployer/agent.go).                             *)

\* The outcomes of a call, as applyNonCompleteOutcome records them.  Only an
\* error recorded as Restart makes the next call start over; Continuing and
\* Busy clear it, Delayed covers it, Transient replaces it.
RestartOnFailure == machine.op = "error" /\ machine.errorType = "Restart"

Continuing(m, restarting) ==
    IF m.op = "delayed" \/ (restarting /\ m.op = "error")
    THEN [m EXCEPT !.op = "OK", !.errorType = ""] ELSE m

Delayed(m) == [m EXCEPT !.op = "delayed"]

Failed(m, type) ==
    [m EXCEPT !.op = "error", !.errorType = type,
              !.restarts = IF type = "Restart" THEN @ + 1 ELSE @,
              !.booted = @ /\ type # "Restart"]

Complete(m, state) ==
    [m EXCEPT !.state = state, !.op = "OK", !.errorType = "", !.restarts = 0,
              !.booted = FALSE]

Armed == IF machine.state = "Inspecting" THEN machine.armed ELSE machine.marker # NoMarker

\* Inspect and Provision come to their arm branch: not armed, or told to start
\* over.  Provision first wipes the run of the attempt it abandons.
MaxRestartFailures == 3

\* A Machine that has failed too often is held, and its deployer left alone.
Called == mgr.pc = "idle" /\ machine.restarts < MaxRestartFailures

MustArm ==
    /\ Called /\ NeedsNetBoot
    /\ ~Armed \/ RestartOnFailure
    /\ machine.state = "Provisioning" => (run.phase = "" \/ RestartOnFailure)

Reset(r) == [r EXCEPT !.phase = "", !.stalled = FALSE]

RunAfterReset == IF machine.state = "Provisioning" THEN Reset(run) ELSE run

\* connectBMC fails: a network error is Delayed, any other a Transient
\* failure.
ConnectFails ==
    /\ MustArm
    /\ Mishap
    /\ run' = RunAfterReset
    /\ machine' \in {Delayed(machine), Failed(machine, "Transient")}
    /\ UNCHANGED <<mgr, store, secret, host, regs, late>>

\* reserveAndAwaitDHCP waits for bootd: Busy.
AwaitDHCP ==
    /\ MustArm
    /\ Mishap
    /\ run' = RunAfterReset
    /\ machine' = Continuing(machine, RestartOnFailure)
    /\ UNCHANGED <<mgr, store, secret, host, regs, late>>

\* issueBootToken keeps a token nobody used yet, unless the call starts over;
\* otherwise it mints one, in memory first.  The call goes on with the Machine
\* as it read it.
Reusable == machine.token # 0 /\ ~machine.expired

StartArming ==
    /\ MustArm
    /\ run' = RunAfterReset
    /\ LET restart == RestartOnFailure
           reuse == ~restart /\ Reusable
           token == IF reuse THEN machine.token ELSE Fresh(Tokens)
       IN /\ mgr' = [pc |-> IF reuse THEN "mark" ELSE "secret", restart |-> restart,
                     session |-> machine.session, registered |-> machine.registered,
                     token |-> token]
          /\ store' = IF reuse THEN store ELSE token
          /\ host' = IF reuse THEN host ELSE [host EXCEPT !.meant = 0]
    /\ UNCHANGED <<machine, secret, regs, late, spent>>

\* The Secret must land before status.netBoot.
WriteBootTokenSecret ==
    /\ mgr.pc = "secret"
    /\ secret' = mgr.token
    /\ mgr' = [mgr EXCEPT !.pc = "status"]
    /\ UNCHANGED <<machine, run, store, host, regs, late, spent>>

\* updateMachineStatusRetryOnConflict: past a conflict the whole status is put
\* back as the call read it, a registration that came in between included.
UpdateNetBootStatus ==
    /\ mgr.pc = "status"
    /\ machine' = [machine EXCEPT !.token = mgr.token, !.expired = FALSE,
                                  !.session = mgr.session, !.registered = mgr.registered]
    /\ host' = [host EXCEPT !.meant = mgr.token]
    /\ mgr' = [mgr EXCEPT !.pc = "mark"]
    /\ UNCHANGED <<run, store, secret, regs, late, spent>>

\* armPXE, armProvisionBoot: the marker, with the session of the Machine the
\* call has at hand.
ArmMarker ==
    /\ mgr.pc = "mark"
    /\ machine' = IF machine.state = "Inspecting" THEN [machine EXCEPT !.armed = TRUE]
                  ELSE [machine EXCEPT !.marker = mgr.session]
    /\ mgr' = [mgr EXCEPT !.pc = "power"]
    /\ UNCHANGED <<run, store, secret, host, regs, late, spent>>

Disarmed(m) ==
    IF m.state = "Inspecting" THEN [m EXCEPT !.armed = FALSE]
    ELSE [m EXCEPT !.marker = NoMarker]

Idle == [pc |-> "idle", restart |-> FALSE, session |-> 0, registered |-> FALSE, token |-> 0]

\* powerOnForNetBoot: the machine restarts into its one-time PXE boot.
PowerOnForNetBoot ==
    /\ mgr.pc = "power"
    /\ host' = [host EXCEPT !.power = "booting", !.pxe = TRUE, !.token = 0, !.session = 0,
                            !.uid = 0, !.last = NoReport]
    /\ machine' = [Continuing(machine, mgr.restart) EXCEPT !.booted = TRUE]
    /\ mgr' = Idle
    /\ UNCHANGED <<run, store, secret, regs, late, spent>>

\* A BMC call fails: the marker is taken back.
PowerFails ==
    /\ mgr.pc = "power"
    /\ Mishap
    /\ machine' \in {Delayed(Disarmed(machine)), Failed(Disarmed(machine), "Transient")}
    /\ mgr' = Idle
    /\ UNCHANGED <<run, store, secret, host, regs, late>>

\* An API call of the arm sequence fails: the reconcile is retried.
CallFails ==
    /\ mgr.pc \in {"secret", "status", "mark", "disarm"}
    /\ Mishap
    /\ mgr' = Idle
    /\ UNCHANGED <<machine, run, store, secret, host, regs, late>>

-----------------------------------------------------------------------------
(* Waiting for the agent (internal/deployer/agent.go).                     *)

\* pollAgentRegistration.
PollAgentRegistration ==
    /\ Called /\ machine.state = "Inspecting" /\ machine.armed /\ ~RestartOnFailure
    /\ machine' =
          IF machine.registered /\ machine.hardware
          THEN [Complete(machine, "Available") EXCEPT !.armed = FALSE]
          ELSE IF machine.expired THEN Failed(machine, "Restart")
          ELSE Continuing(machine, FALSE)
    /\ UNCHANGED <<run, mgr, store, secret, host, regs, late, spent>>

AgentSessionFresh == machine.session \notin {0, machine.marker}

AwaitsBoot ==
    /\ Called /\ machine.state = "Provisioning" /\ run.phase = ""
    /\ machine.marker # NoMarker /\ ~RestartOnFailure

\* pollAgentBoot, commitProvisionPending: a fresh session, and a plan that can
\* be built, make the run Pending; the marker is retired by a second write.
CommitProvisionPending ==
    /\ AwaitsBoot /\ AgentSessionFresh
    /\ run' = [run EXCEPT !.phase = "Pending", !.stalled = FALSE]
    /\ mgr' = [Idle EXCEPT !.pc = "disarm"]
    /\ UNCHANGED <<machine, store, secret, host, regs, late, spent>>

\* The plan cannot be built yet, or not at all.
PlanNotReady ==
    /\ AwaitsBoot /\ AgentSessionFresh
    /\ Mishap
    /\ machine' \in {Delayed(machine), Failed(machine, "Transient")}
    /\ UNCHANGED <<run, mgr, store, secret, host, regs, late>>

DisarmProvisionBoot ==
    /\ mgr.pc = "disarm"
    /\ machine' = Continuing(Disarmed(machine), FALSE)
    /\ mgr' = Idle
    /\ UNCHANGED <<run, store, secret, host, regs, late, spent>>

AwaitAgentBoot ==
    /\ AwaitsBoot /\ ~AgentSessionFresh
    /\ machine' = IF machine.expired THEN Failed(machine, "Restart")
                  ELSE Continuing(machine, FALSE)
    /\ UNCHANGED <<run, mgr, store, secret, host, regs, late, spent>>

\* provisionResultFromPhase, provisionStallResult.
ResultWithoutDeadline ==
    /\ Called /\ machine.state = "Provisioning" /\ run.phase # "" /\ ~RestartOnFailure
    /\ machine' =
          IF run.phase = "Succeeded" THEN Complete(machine, "Provisioned")
          ELSE IF run.phase = "Failed" THEN Failed(machine, "Restart")
          ELSE Continuing(machine, FALSE)
    /\ UNCHANGED <<run, mgr, store, secret, host, regs, late, spent>>

ResultFromPhase ==
    /\ Called /\ machine.state = "Provisioning" /\ run.phase # "" /\ ~RestartOnFailure
    /\ machine' =
          IF run.phase = "Succeeded" THEN Complete(machine, "Provisioned")
          ELSE IF run.phase = "Failed" \/ run.stalled THEN Failed(machine, "Restart")
          ELSE Continuing(machine, FALSE)
    /\ UNCHANGED <<run, mgr, store, secret, host, regs, late, spent>>

\* The Machine controller starts a DeployRun for a claim or a new intent
\* (module MachineLifecycle).
NewRun ==
    /\ mgr.pc = "idle" /\ machine.state \in {"Available", "Provisioned", "Provisioning"}
    /\ run.uid < MaxRuns
    /\ machine' = Complete(machine, "Provisioning")
    /\ run' = [uid |-> run.uid + 1, phase |-> "", stalled |-> FALSE]
    /\ UNCHANGED <<mgr, store, secret, host, regs, late, spent>>

\* Re-inspection deletes the MachineHardware and walks from Inspecting again.
Reinspect ==
    /\ mgr.pc = "idle" /\ machine.state = "Available"
    /\ machine' = [Complete(machine, "Inspecting") EXCEPT !.hardware = FALSE]
    /\ UNCHANGED <<run, mgr, store, secret, host, regs, late, spent>>

\* The manager's process ends, and with it the token store and every handler.
Crash ==
    /\ Mishap
    /\ mgr' = Idle /\ store' = 0 /\ regs' = {} /\ late' = {}
    /\ UNCHANGED <<machine, run, secret, host>>

-----------------------------------------------------------------------------
(* Registration (internal/agentserver, internal/agent/run.go).             *)

\* An agent without a token idles.  One with a token tries until it has an
\* answer; a try whose answer does not come may still be handled.
Retries == {r \in regs : r.token = host.token}

\* ensureMachineHardware.
EnsureHardware(m) == [m EXCEPT !.hardware = TRUE]

\* ingestRegistration: the token is used up, the session takes its place.
Ingested(m, session) ==
    [m EXCEPT !.token = 0, !.session = session, !.registered = TRUE]

\* handleRegister up to ensureMachineHardware: the token is looked up once.
AcceptRegistration ==
    /\ host.power = "agent" /\ host.token # 0 /\ host.session = 0
    /\ host.token = machine.token /\ ~machine.expired
    /\ Cardinality(regs) < 2
    /\ IF Retries = {} THEN UNCHANGED spent ELSE Mishap
    /\ regs' = {[r EXCEPT !.awaited = FALSE] : r \in regs}
                  \cup {[token |-> host.token, awaited |-> TRUE]}
    /\ machine' = EnsureHardware(machine)
    /\ UNCHANGED <<run, mgr, store, secret, host, late>>

\* The rest of it: ingestRegistration on the Machine as it is by now, retried
\* past conflicts, and the answer, if somebody still waits for it.
IngestRegistration ==
    \E r \in regs :
      /\ regs' = regs \ {r}
      /\ LET session == Fresh(Sessions) IN
         /\ machine' = Ingested(machine, session)
         /\ \/ /\ IF r.awaited /\ host.power = "agent" /\ host.token = r.token
                THEN host' = [host EXCEPT !.session = session]
                ELSE UNCHANGED host
              /\ UNCHANGED spent
            \/ Mishap /\ UNCHANGED host
      /\ UNCHANGED <<run, mgr, store, secret, late>>

-----------------------------------------------------------------------------
(* The deploy (internal/agentserver, internal/agent).                      *)

\* lookupMachineBySession: only the session registered last is anybody's.
Authenticated == host.session # 0 /\ host.session = machine.session

DeployRunExpectsAgent(phase) ==
    phase \in {"Pending", "Partitioning", "WritingContent", "RunningPostHook", "Finalizing"}

\* /agent/next answers with a plan, and the agent executes it at once.
NextPlan ==
    /\ host.power \in {"agent", "leaving"} /\ host.uid = 0 /\ Authenticated
    /\ run.uid # 0 /\ DeployRunExpectsAgent(run.phase)
    /\ host' = [host EXCEPT !.uid = run.uid, !.last = NoReport, !.disk = 0]
    /\ UNCHANGED <<machine, run, mgr, store, secret, regs, late, spent>>

\* applyProgressToDeployRun.  A report of a run that is not the Machine's
\* current one does not reach it.
ApplyAnyRun(r, uid, report) ==
    [r EXCEPT !.stalled = FALSE,
              !.phase = IF report[2] = "failed" THEN "Failed" ELSE report[1]]

Apply(r, uid, report) ==
    IF r.uid # uid THEN r
    ELSE [r EXCEPT !.stalled = FALSE,
                   !.phase = IF report[2] = "failed" THEN "Failed" ELSE report[1]]

\* One report of Execute.  It arrives, is lost, or is still being handled when
\* the agent gives up on it; a session that is not current gets it refused.
\* A report of a superseded run is answered with abort, which ends the deploy.
Report ==
    /\ host.uid # 0 /\ host.power \in {"agent", "leaving"}
    /\ \E r \in D!After(host.last) \ {host.last} :
          LET failed == r[2] = "failed"
              stop == [host EXCEPT !.uid = 0, !.last = NoReport]
              sent == IF failed THEN stop
                      ELSE [host EXCEPT !.last = r,
                                        !.disk = IF r[1] = "Succeeded" THEN host.uid ELSE @]
              cost == IF failed THEN 1 ELSE 0
          IN \/ /\ Authenticated
                /\ run' = Apply(run, host.uid, r)
                /\ host' = IF run.uid # host.uid THEN stop ELSE sent
                /\ Mishaps(cost)
                /\ UNCHANGED late
             \/ /\ Authenticated /\ spent.late < MaxLate
                /\ spent.mishaps + cost < MaxMishaps
                /\ late' = late \cup {<<host.uid, r>>}
                /\ host' = sent
                /\ spent' = [mishaps |-> spent.mishaps + cost + 1, late |-> spent.late + 1]
                /\ UNCHANGED run
             \/ /\ Mishaps(cost + (IF Authenticated THEN 1 ELSE 0))
                /\ host' = sent
                /\ UNCHANGED <<run, late>>
    /\ UNCHANGED <<machine, mgr, store, secret, regs>>

LateReportLands ==
    /\ \E l \in late : run' = Apply(run, l[1], l[2]) /\ late' = late \ {l}
    /\ UNCHANGED <<machine, mgr, store, secret, host, regs, spent>>

\* rebootOrPowerOff: Execute returns, the poll loop goes on until the system
\* is down.
HandOver ==
    /\ host.uid # 0 /\ host.power = "agent" /\ host.last = <<"Succeeded", "succeeded">>
    /\ host' = [host EXCEPT !.power = "leaving", !.uid = 0, !.last = NoReport]
    /\ UNCHANGED <<machine, run, mgr, store, secret, regs, late, spent>>

GoDown ==
    /\ host.power = "leaving"
    /\ host' = [host EXCEPT !.power = "booting", !.pxe = FALSE, !.token = 0, !.session = 0,
                            !.uid = 0, !.last = NoReport]
    /\ UNCHANGED <<machine, run, mgr, store, secret, regs, late, spent>>

\* The Machine controller's reboot annotation, or somebody at the machine.
Reboot ==
    /\ host.power = "agent"
    /\ Mishap
    /\ host' = [host EXCEPT !.power = "booting", !.token = 0, !.session = 0,
                            !.uid = 0, !.last = NoReport]
    /\ UNCHANGED <<machine, run, mgr, store, secret, regs, late>>

-----------------------------------------------------------------------------
(* Time.                                                                   *)

\* The agent of the armed boot can still come to register.
AgentComing ==
    \/ mgr.pc # "idle" \/ regs # {}
    \/ host.power = "booting" /\ host.pxe /\ LookupToken # 0
    \/ host.power = "agent" /\ host.session = 0 /\ host.token # 0 /\ host.token = machine.token

BootTokenExpires ==
    /\ ~machine.expired
    /\ IF AgentComing THEN Mishap ELSE UNCHANGED spent
    /\ machine' = [machine EXCEPT !.expired = TRUE]
    /\ UNCHANGED <<run, mgr, store, secret, host, regs, late>>

\* The agent can still report on the current run.
AgentWorking ==
    \/ late # {}
    \/ host.power \in {"agent", "leaving"} /\ Authenticated /\ host.uid \in {0, run.uid}

RunStalls ==
    /\ DeployRunExpectsAgent(run.phase) /\ ~run.stalled
    /\ IF AgentWorking THEN Mishap ELSE UNCHANGED spent
    /\ run' = [run EXCEPT !.stalled = TRUE]
    /\ UNCHANGED <<machine, mgr, store, secret, host, regs, late>>

-----------------------------------------------------------------------------
Init ==
    /\ machine = [state |-> "Inspecting", op |-> "OK", errorType |-> "", restarts |-> 0,
                  token |-> 0, expired |-> FALSE, session |-> 0, registered |-> FALSE,
                  hardware |-> FALSE, armed |-> FALSE, marker |-> NoMarker, booted |-> FALSE]
    /\ run = [uid |-> 0, phase |-> "", stalled |-> FALSE]
    /\ mgr = Idle /\ store = 0 /\ secret = 0
    /\ host = [power |-> "os", pxe |-> FALSE, token |-> 0, session |-> 0, uid |-> 0,
               last |-> NoReport, disk |-> 0, meant |-> 0]
    /\ regs = {} /\ late = {}
    /\ spent = [mishaps |-> 0, late |-> 0]

Manager ==
    \/ StartArming \/ WriteBootTokenSecret \/ UpdateNetBootStatus \/ ArmMarker
    \/ PowerOnForNetBoot \/ PollAgentRegistration \/ CommitProvisionPending
    \/ DisarmProvisionBoot \/ AwaitAgentBoot \/ ResultFromPhase

Agent ==
    \/ FetchGrubConfig \/ AcceptRegistration \/ NextPlan \/ Report \/ HandOver \/ GoDown

Faults ==
    \/ ConnectFails \/ AwaitDHCP \/ PowerFails \/ CallFails \/ PlanNotReady \/ Crash \/ Reboot

Next ==
    \/ Manager \/ Agent \/ Faults
    \/ IngestRegistration \/ LateReportLands
    \/ BootTokenExpires \/ RunStalls
    \/ NewRun \/ Reinspect

Spec == Init /\ [][Next]_vars

\* The manager requeues every call that did not complete, the agent retries
\* and polls for ever, handlers finish, and time passes.
FairSpec ==
    /\ Spec
    /\ WF_vars(Manager) /\ WF_vars(Agent) /\ WF_vars(IngestRegistration)
    /\ WF_vars(LateReportLands) /\ WF_vars(BootTokenExpires) /\ WF_vars(RunStalls)

-----------------------------------------------------------------------------
(* Properties.                                                             *)

TypeOK ==
    /\ machine \in [state : {"Inspecting", "Available", "Provisioning", "Provisioned"},
                     op : {"OK", "delayed", "error"}, errorType : {"", "Transient", "Restart"},
                     restarts : 0..MaxRestartFailures, token : 0..Pool, expired : BOOLEAN,
                     session : 0..Pool, registered : BOOLEAN, hardware : BOOLEAN,
                     armed : BOOLEAN, marker : (0..Pool) \cup {NoMarker}, booted : BOOLEAN]
    /\ run.uid \in 0..MaxRuns
    /\ run.phase \in {"", "Pending", "Failed"} \cup {D!Phases[i] : i \in DOMAIN D!Phases}
    /\ host.power \in {"booting", "agent", "leaving", "os"}
    /\ store \in 0..Pool /\ secret \in 0..Pool
    /\ spent \in [mishaps : 0..MaxMishaps, late : 0..MaxLate]

\* A Machine that is Provisioned carries on its disk what its current run
\* wanted, and nobody has begun to write there again: whatever was restarted,
\* lost or cut short on the way, Complete comes from a finished plan of this
\* very run.
AlwaysWhole == machine.state = "Provisioned" => host.disk = run.uid

\* So it is as long as no report's handler outlives the agent's wait for it
\* (with one that does, see AgentLate.cfg).
ProvisionedIsWhole == spent.late = 0 => AlwaysWhole

\* A machine on its way into an armed boot is given its token, however often
\* the manager restarts on the way: one that was minted in full can be had from
\* memory or from the Secret until the next one is minted (issueBootToken
\* writes the Secret before status.netBoot for that reason).
BootGetsItsToken ==
    host.power = "booting" /\ host.pxe /\ host.meant # 0 /\ NeedsNetBoot
    /\ machine.token = host.meant /\ ~machine.expired
        => LookupToken = host.meant

\* The same of every boot: it does not hold of one whose token was kept after a
\* mint that was cut short between the Secret and status.netBoot.
EveryBootGetsAToken ==
    host.power = "booting" /\ host.pxe /\ mgr.pc = "idle" /\ NeedsNetBoot
    /\ ~RestartOnFailure /\ machine.token # 0 /\ ~machine.expired
        => LookupToken = machine.token

\* A Machine that is to be provisioned gets there, or is held after its third
\* failure: a lost answer, a dead session, a crash or a silent agent costs a
\* deadline and never the deploy.
ProvisioningEnds ==
    machine.state = "Provisioning"
        ~> machine.state = "Provisioned" \/ machine.restarts = MaxRestartFailures

\* Every failure counted towards the hold stands for a boot that was tried:
\* "markDelayed" promises that a delay "never joins the error backoff/reset
\* accounting", and recordFailure counts attempts.  A BMC that cannot be
\* reached while an attempt is to be started over breaks it.
RestartsFollowBoots ==
    [][machine'.restarts > machine.restarts => machine.booted]_vars
=============================================================================
