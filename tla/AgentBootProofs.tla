-------------------------- MODULE AgentBootProofs --------------------------
(***************************************************************************)
(* Proofs about AgentBoot, for any number of runs, mishaps and tokens: a   *)
(* Machine that is Provisioned carries the disk of its own run, and a boot *)
(* that was armed in full is given its token.                              *)
(***************************************************************************)
EXTENDS AgentBoot, Sequences, TLAPS

-----------------------------------------------------------------------------
(* The records.  A field whose values do not matter here may hold anything. *)

IsHost(h) ==
    h \in [power : {h.power}, pxe : {h.pxe}, token : {h.token}, session : {h.session},
           uid : {h.uid}, last : {h.last}, disk : {h.disk}, meant : {h.meant}]

IsRun(r) == r \in [uid : {r.uid}, phase : {r.phase}, stalled : {r.stalled}]

IsMgr(g) ==
    g \in [pc : {g.pc}, restart : {g.restart}, session : {g.session},
           registered : {g.registered}, token : {g.token}]

IsMachine(m) ==
    m \in [state : {m.state}, op : {m.op}, errorType : {m.errorType}, restarts : {m.restarts},
           token : {m.token}, expired : {m.expired}, session : {m.session},
           registered : {m.registered}, hardware : {m.hardware}, armed : {m.armed},
           marker : {m.marker}, booted : {m.booted}]

Shapes ==
    /\ IsHost(host) /\ IsRun(run) /\ IsMgr(mgr) /\ IsMachine(machine)
    /\ spent \in [mishaps : Nat, late : Nat]

\* What the outcome bookkeeping does to a Machine: it stays in its state, unless
\* the call completed.
LEMMA OutcomesKeepState ==
    ASSUME NEW m, IsMachine(m)
    PROVE  /\ \A b : IsMachine(Continuing(m, b)) /\ Continuing(m, b).state = m.state
           /\ IsMachine(Delayed(m)) /\ Delayed(m).state = m.state
           /\ \A type : IsMachine(Failed(m, type)) /\ Failed(m, type).state = m.state
           /\ IsMachine(Disarmed(m)) /\ Disarmed(m).state = m.state
           /\ \A state : IsMachine(Complete(m, state)) /\ Complete(m, state).state = state
<1> USE DEF IsMachine
<1>1. \A b : IsMachine(Continuing(m, b)) /\ Continuing(m, b).state = m.state
    BY Zenon DEF Continuing
<1>2. IsMachine(Delayed(m)) /\ Delayed(m).state = m.state
    BY DEF Delayed
<1>3. \A type : IsMachine(Failed(m, type)) /\ Failed(m, type).state = m.state
    BY Zenon DEF Failed
<1>4. IsMachine(Disarmed(m)) /\ Disarmed(m).state = m.state
    BY Zenon DEF Disarmed
<1>5. \A state : IsMachine(Complete(m, state)) /\ Complete(m, state).state = state
    BY Zenon DEF Complete
<1> QED
    BY <1>1, <1>2, <1>3, <1>4, <1>5

\* The reports an executor can have sent last: the terminal phase is never open.
LastReport == <<"Succeeded", "succeeded">>

SentReports == (D!Reports \ {<<"Succeeded", "running">>}) \cup {NoReport}

\* What may follow the report sent last: the terminal phase is entered only with
\* its one success, and after that only a failure can come.
LEMMA NextReport ==
    ASSUME NEW l \in SentReports, NEW r \in D!After(l), r[2] # "failed"
    PROVE  /\ r \in SentReports
           /\ r[1] = "Succeeded" => r = LastReport
           /\ l # LastReport
<1>1. D!Phases = <<"Partitioning", "WritingContent", "RunningPostHook", "Finalizing", "Succeeded">>
      /\ DOMAIN D!Phases = 1..5 /\ Len(D!Phases) = 5
    BY DEF D!Phases
<1>2. \A i \in 1..5 : D!Phases[i] = "Succeeded" <=> i = 5
    BY <1>1
<1>3. r \in D!Reports /\ r = <<r[1], r[2]>> /\ r[2] \in {"running", "succeeded"}
    BY DEF D!After, D!Reports, D!States
<1>4. CASE l = NoReport
    <2>1. l[1] = "" /\ l[2] = ""
        BY <1>4, Zenon DEF NoReport
    <2>2. r \in {D!Opens(1), <<D!Phases[1], "failed">>}
        BY <2>1, Zenon DEF D!After
    <2>3. r = <<"Partitioning", "running">>
        BY <1>1, <1>3, <2>2 DEF D!Opens
    <2> QED
        BY <1>3, <1>4, <2>3, Zenon DEF SentReports, LastReport, NoReport
<1>5. CASE l # NoReport
    <2>1. l \in D!Reports /\ l = <<l[1], l[2]>> /\ l # <<"Succeeded", "running">>
        BY <1>5 DEF SentReports, D!Reports
    <2>2. PICK i \in 1..5 : l[1] = D!Phases[i]
        BY <1>1, <2>1 DEF D!Reports
    <2>3. CASE l[2] = "running"
        <3>1. l[1] # "Succeeded"
            BY <2>1, <2>3
        <3>2. r[1] = l[1]
            BY <1>5, <2>3, Zenon DEF D!After, NoReport, D!NoReport
        <3> QED
            BY <1>3, <2>3, <3>1, <3>2 DEF SentReports, LastReport
    <2>4. CASE l[2] # "running"
        <3>1. D!PhaseOf(l) \in 1..5 /\ D!Phases[D!PhaseOf(l)] = l[1]
            BY <1>1, <2>2 DEF D!PhaseOf
        <3>2. r = IF D!PhaseOf(l) < 5 THEN D!Opens(D!PhaseOf(l) + 1) ELSE <<l[1], "failed">>
            BY <1>1, <1>5, <2>4, Zenon DEF D!After, NoReport, D!NoReport
        <3>3. D!PhaseOf(l) < 5 /\ r = D!Opens(D!PhaseOf(l) + 1)
            BY <1>3, <3>1, <3>2
        <3>4. l[1] # "Succeeded"
            BY <1>2, <3>1, <3>3
        <3>5. CASE D!PhaseOf(l) + 1 = 5
            BY <1>1, <1>3, <3>3, <3>4, <3>5 DEF D!Opens, SentReports, LastReport
        <3>6. CASE D!PhaseOf(l) + 1 # 5
            <4>1. r = <<D!Phases[D!PhaseOf(l) + 1], "running">>
                BY <1>1, <3>3, <3>6 DEF D!Opens
            <4>2. D!Phases[D!PhaseOf(l) + 1] # "Succeeded"
                BY <1>2, <3>1, <3>3, <3>6
            <4> QED
                BY <1>3, <3>4, <4>1, <4>2 DEF SentReports, LastReport
        <3> QED
            BY <3>5, <3>6
    <2> QED
        BY <2>3, <2>4
<1> QED
    BY <1>4, <1>5

-----------------------------------------------------------------------------
(* Steps that write no disk.  All but three do: NextPlan starts a plan,    *)
(* Report goes on with one, and LateReportLands applies what nobody waits  *)
(* for any more.                                                           *)

Rests ==
    /\ Shapes'
    /\ host'.disk = host.disk /\ host'.uid \in {0, host.uid}
    /\ host'.last = host.last \/ (host'.uid = 0 /\ host'.last = NoReport)
    /\ \/ run'.uid = run.uid /\ run'.phase = run.phase
       \/ run'.phase \in {"", "Pending"} /\ machine'.state = "Provisioning"
    /\ \/ machine'.state \in {machine.state, "Inspecting", "Available", "Provisioning"}
       \/ machine'.state = "Provisioned" /\ run.phase = "Succeeded"
    /\ late' \subseteq late /\ spent'.late = spent.late

\* A fault is counted and leaves the other counter alone.
LEMMA MishapFacts ==
    ASSUME Shapes, NEW n \in Nat, Mishaps(n)
    PROVE  spent' \in [mishaps : Nat, late : Nat] /\ spent'.late = spent.late
    BY DEF Shapes, Mishaps

\* A step that leaves host and run alone.
LEMMA MachineStepRests ==
    ASSUME Shapes, UNCHANGED <<run, host>>, IsMachine(machine'), IsMgr(mgr'),
           machine'.state = machine.state, late' \subseteq late,
           UNCHANGED spent \/ Mishap
    PROVE  Rests
<1>1. spent' \in [mishaps : Nat, late : Nat] /\ spent'.late = spent.late
    BY MishapFacts DEF Mishap, Shapes
<1> QED
    BY <1>1 DEF Rests, Shapes

\* The manager between two calls.
LEMMA IdleIsMgr == IsMgr(Idle)
    BY DEF IsMgr, Idle

\* The arm sequence.
LEMMA ArmingRests ==
    ASSUME Shapes,
           \/ StartArming \/ WriteBootTokenSecret \/ UpdateNetBootStatus \/ ArmMarker
           \/ PowerOnForNetBoot \/ ConnectFails \/ AwaitDHCP \/ PowerFails \/ CallFails
    PROVE  Rests
<1>1. IsHost(host) /\ IsRun(run) /\ IsMgr(mgr) /\ IsMachine(machine)
      /\ spent \in [mishaps : Nat, late : Nat]
    BY DEF Shapes
<1>2. RunAfterReset = run
      \/ (/\ machine.state = "Provisioning" /\ IsRun(RunAfterReset)
          /\ RunAfterReset.phase = "")
    BY <1>1, Zenon DEF RunAfterReset, Reset, IsRun
<1>3. CASE StartArming
    <2>1. IsMgr(mgr')
        BY <1>3 DEF StartArming, IsMgr
    <2>2. IsHost(host') /\ host'.disk = host.disk /\ host'.uid = host.uid /\ host'.last = host.last
        BY <1>1, <1>3 DEF StartArming, IsHost
    <2>3. UNCHANGED <<machine, late, spent>> /\ run' = RunAfterReset
        BY <1>3 DEF StartArming
    <2> QED
        BY <1>1, <1>2, <2>1, <2>2, <2>3, Zenon DEF Rests, Shapes
<1>4. CASE WriteBootTokenSecret
    <2>1. IsMgr(mgr')
        BY <1>1, <1>4 DEF WriteBootTokenSecret, IsMgr
    <2> QED
        BY <1>1, <1>4, <2>1, MachineStepRests DEF WriteBootTokenSecret
<1>5. CASE UpdateNetBootStatus
    <2>1. IsMgr(mgr')
        BY <1>1, <1>5 DEF UpdateNetBootStatus, IsMgr
    <2>2. IsHost(host') /\ host'.disk = host.disk /\ host'.uid = host.uid /\ host'.last = host.last
        BY <1>1, <1>5 DEF UpdateNetBootStatus, IsHost
    <2>3. IsMachine(machine') /\ machine'.state = machine.state
        BY <1>1, <1>5, Zenon DEF UpdateNetBootStatus, IsMachine
    <2>4. UNCHANGED <<run, late, spent>>
        BY <1>5 DEF UpdateNetBootStatus
    <2> QED
        BY <1>1, <2>1, <2>2, <2>3, <2>4 DEF Rests, Shapes
<1>6. CASE ArmMarker
    <2>1. IsMgr(mgr')
        BY <1>1, <1>6 DEF ArmMarker, IsMgr
    <2>2. IsMachine(machine') /\ machine'.state = machine.state
        BY <1>1, <1>6, Zenon DEF ArmMarker, IsMachine
    <2> QED
        BY <1>6, <2>1, <2>2, MachineStepRests DEF ArmMarker
<1>7. CASE PowerOnForNetBoot
    <2>1. IsHost(host') /\ host'.disk = host.disk /\ host'.uid = 0 /\ host'.last = NoReport
        BY <1>1, <1>7, Zenon DEF PowerOnForNetBoot, IsHost
    <2>2. IsMachine(machine') /\ machine'.state = machine.state
        <3>1. PICK m : m = Continuing(machine, mgr.restart)
            OBVIOUS
        <3>2. IsMachine(m) /\ m.state = machine.state
            BY <1>1, <3>1, OutcomesKeepState
        <3>3. machine' = [m EXCEPT !.booted = TRUE]
            BY <1>7, <3>1 DEF PowerOnForNetBoot
        <3> QED
            BY <3>2, <3>3, Zenon DEF IsMachine
    <2>3. UNCHANGED <<run, late, spent>> /\ mgr' = Idle
        BY <1>7 DEF PowerOnForNetBoot
    <2> QED
        BY <1>1, <2>1, <2>2, <2>3, IdleIsMgr DEF Rests, Shapes
<1>8. CASE ConnectFails \/ AwaitDHCP
    <2>1. IsMachine(machine') /\ machine'.state = machine.state
        BY <1>1, <1>8, OutcomesKeepState DEF ConnectFails, AwaitDHCP
    <2>2. UNCHANGED <<mgr, host, late>> /\ run' = RunAfterReset
        BY <1>8 DEF ConnectFails, AwaitDHCP
    <2>3. spent' \in [mishaps : Nat, late : Nat] /\ spent'.late = spent.late
        BY <1>8, MishapFacts DEF ConnectFails, AwaitDHCP, Mishap
    <2> QED
        BY <1>1, <1>2, <2>1, <2>2, <2>3, Zenon DEF Rests, Shapes
<1>9. CASE PowerFails
    <2>1. PICK m : m = Disarmed(machine)
        OBVIOUS
    <2>2. IsMachine(m) /\ m.state = machine.state
        BY <1>1, <2>1, OutcomesKeepState
    <2>3. machine' \in {Delayed(m), Failed(m, "Transient")}
        BY <1>9, <2>1 DEF PowerFails
    <2>4. IsMachine(machine') /\ machine'.state = machine.state
        BY <2>2, <2>3, OutcomesKeepState
    <2> QED
        BY <1>9, <2>4, IdleIsMgr, MachineStepRests DEF PowerFails
<1>10. CASE CallFails
    BY <1>1, <1>10, IdleIsMgr, MachineStepRests DEF CallFails
<1> QED
    BY <1>3, <1>4, <1>5, <1>6, <1>7, <1>8, <1>9, <1>10

\* Waiting for the agent, and the Machine's walk around it.
LEMMA WaitingRests ==
    ASSUME Shapes,
           \/ PollAgentRegistration \/ CommitProvisionPending \/ PlanNotReady
           \/ DisarmProvisionBoot \/ AwaitAgentBoot \/ ResultFromPhase
           \/ NewRun \/ Reinspect \/ Crash \/ BootTokenExpires \/ RunStalls
    PROVE  Rests
<1>1. IsHost(host) /\ IsRun(run) /\ IsMgr(mgr) /\ IsMachine(machine)
      /\ spent \in [mishaps : Nat, late : Nat]
    BY DEF Shapes
<1>2. CASE PollAgentRegistration
    <2>1. PICK m : m = Complete(machine, "Available")
        OBVIOUS
    <2>2. IsMachine(m) /\ m.state = "Available"
        BY <1>1, <2>1, OutcomesKeepState
    <2>3. IsMachine([m EXCEPT !.armed = FALSE]) /\ [m EXCEPT !.armed = FALSE].state = "Available"
        BY <2>2, Zenon DEF IsMachine
    <2>4. \/ machine' = [m EXCEPT !.armed = FALSE]
          \/ machine' \in {Failed(machine, "Restart"), Continuing(machine, FALSE)}
        BY <1>2, <2>1 DEF PollAgentRegistration
    <2>5. IsMachine(machine') /\ machine'.state \in {machine.state, "Available"}
        <3>1. CASE machine' = [m EXCEPT !.armed = FALSE]
            BY <2>3, <3>1
        <3>2. CASE machine' = Failed(machine, "Restart")
            BY <1>1, <3>2, OutcomesKeepState
        <3>3. CASE machine' = Continuing(machine, FALSE)
            <4>1. \A b : IsMachine(Continuing(machine, b)) /\ Continuing(machine, b).state = machine.state
                BY <1>1, OutcomesKeepState
            <4> QED
                BY <3>3, <4>1, Zenon
        <3> QED
            BY <2>4, <3>1, <3>2, <3>3, Zenon
    <2> QED
        BY <1>1, <1>2, <2>5, Zenon DEF PollAgentRegistration, Rests, Shapes
<1>3. CASE CommitProvisionPending
    <2>1. IsRun(run') /\ run'.phase = "Pending"
        BY <1>1, <1>3, Zenon DEF CommitProvisionPending, IsRun
    <2>2. IsMgr(mgr')
        BY <1>3, Zenon DEF CommitProvisionPending, IsMgr, Idle
    <2> QED
        BY <1>1, <1>3, <2>1, <2>2, Zenon DEF CommitProvisionPending, AwaitsBoot, Rests, Shapes
<1>4. CASE PlanNotReady
    <2>1. IsMachine(machine') /\ machine'.state = machine.state
        BY <1>1, <1>4, OutcomesKeepState DEF PlanNotReady
    <2> QED
        BY <1>1, <1>4, <2>1, MachineStepRests DEF PlanNotReady
<1>5. CASE DisarmProvisionBoot
    <2>1. PICK m : m = Disarmed(machine)
        OBVIOUS
    <2>2. IsMachine(m) /\ m.state = machine.state
        BY <1>1, <2>1, OutcomesKeepState
    <2>3. machine' = Continuing(m, FALSE)
        BY <1>5, <2>1 DEF DisarmProvisionBoot
    <2>4. IsMachine(machine') /\ machine'.state = machine.state
        BY <2>2, <2>3, OutcomesKeepState, Zenon
    <2> QED
        BY <1>5, <2>4, IdleIsMgr, MachineStepRests DEF DisarmProvisionBoot
<1>6. CASE AwaitAgentBoot
    <2>1. IsMachine(machine') /\ machine'.state = machine.state
        BY <1>1, <1>6, OutcomesKeepState, Zenon DEF AwaitAgentBoot
    <2> QED
        BY <1>1, <1>6, <2>1, MachineStepRests DEF AwaitAgentBoot
<1>7. CASE ResultFromPhase
    <2>1. CASE run.phase = "Succeeded"
        <3>1. IsMachine(machine') /\ machine'.state = "Provisioned"
            BY <1>1, <1>7, <2>1, OutcomesKeepState DEF ResultFromPhase
        <3> QED
            BY <1>1, <1>7, <2>1, <3>1 DEF ResultFromPhase, Rests, Shapes
    <2>2. CASE run.phase # "Succeeded"
        <3>1. IsMachine(machine') /\ machine'.state = machine.state
            BY <1>1, <1>7, <2>2, OutcomesKeepState, Zenon DEF ResultFromPhase
        <3> QED
            BY <1>1, <1>7, <3>1, MachineStepRests, Zenon DEF ResultFromPhase
    <2> QED
        BY <2>1, <2>2
<1>8. CASE NewRun
    <2>1. IsMachine(machine') /\ machine'.state = "Provisioning"
        BY <1>1, <1>8, OutcomesKeepState, Zenon DEF NewRun
    <2>2. IsRun(run') /\ run'.phase = ""
        BY <1>8, Zenon DEF NewRun, IsRun
    <2> QED
        BY <1>1, <1>8, <2>1, <2>2, Zenon DEF NewRun, Rests, Shapes
<1>9. CASE Reinspect
    <2>1. PICK m : m = Complete(machine, "Inspecting")
        OBVIOUS
    <2>2. IsMachine(m) /\ m.state = "Inspecting"
        BY <1>1, <2>1, OutcomesKeepState
    <2>3. machine' = [m EXCEPT !.hardware = FALSE]
        BY <1>9, <2>1 DEF Reinspect
    <2>4. IsMachine(machine') /\ machine'.state = "Inspecting"
        BY <2>2, <2>3, Zenon DEF IsMachine
    <2> QED
        BY <1>1, <1>9, <2>4 DEF Reinspect, Rests, Shapes
<1>10. CASE Crash
    BY <1>1, <1>10, IdleIsMgr, MachineStepRests DEF Crash
<1>11. CASE BootTokenExpires
    <2>1. IsMachine(machine') /\ machine'.state = machine.state
        BY <1>1, <1>11, Zenon DEF BootTokenExpires, IsMachine
    <2>2. UNCHANGED spent \/ Mishap
        BY <1>11 DEF BootTokenExpires
    <2> QED
        BY <1>1, <1>11, <2>1, <2>2, MachineStepRests DEF BootTokenExpires
<1>12. CASE RunStalls
    <2>1. IsRun(run') /\ run'.uid = run.uid /\ run'.phase = run.phase
        BY <1>1, <1>12, Zenon DEF RunStalls, IsRun
    <2>2. spent' \in [mishaps : Nat, late : Nat] /\ spent'.late = spent.late
        BY <1>1, <1>12, MishapFacts DEF RunStalls, Mishap
    <2> QED
        BY <1>1, <1>12, <2>1, <2>2 DEF RunStalls, Rests, Shapes
<1> QED
    BY <1>2, <1>3, <1>4, <1>5, <1>6, <1>7, <1>8, <1>9, <1>10, <1>11, <1>12

\* The machine's boots and registrations.
LEMMA BootingRests ==
    ASSUME Shapes,
           \/ FetchGrubConfig \/ AcceptRegistration \/ IngestRegistration
           \/ HandOver \/ GoDown \/ Reboot
    PROVE  Rests
<1>1. IsHost(host) /\ IsRun(run) /\ IsMgr(mgr) /\ IsMachine(machine)
      /\ spent \in [mishaps : Nat, late : Nat]
    BY DEF Shapes
<1>2. ASSUME IsHost(host'), host'.disk = host.disk, host'.uid \in {0, host.uid},
             host'.last = host.last \/ (host'.uid = 0 /\ host'.last = NoReport),
             UNCHANGED <<machine, run, mgr>>, late' \subseteq late, UNCHANGED spent \/ Mishap
      PROVE  Rests
    <2>1. spent' \in [mishaps : Nat, late : Nat] /\ spent'.late = spent.late
        BY <1>1, <1>2, MishapFacts DEF Mishap
    <2> QED
        BY <1>1, <1>2, <2>1 DEF Rests, Shapes
<1>3. CASE FetchGrubConfig
    <2>1. IsHost(host') /\ host'.disk = host.disk /\ host'.uid = host.uid /\ host'.last = host.last
        BY <1>1, <1>3, Zenon DEF FetchGrubConfig, IsHost
    <2> QED
        BY <1>2, <1>3, <2>1 DEF FetchGrubConfig
<1>4. CASE AcceptRegistration
    <2>1. IsMachine(machine') /\ machine'.state = machine.state
        BY <1>1, <1>4, Zenon DEF AcceptRegistration, EnsureHardware, IsMachine
    <2>2. UNCHANGED spent \/ Mishap
        BY <1>4 DEF AcceptRegistration
    <2> QED
        BY <1>1, <1>4, <2>1, <2>2, MachineStepRests DEF AcceptRegistration
<1>5. CASE IngestRegistration
    <2>1. PICK session :
            /\ machine' = Ingested(machine, session)
            /\ UNCHANGED host \/ host' = [host EXCEPT !.session = session]
            /\ UNCHANGED spent \/ Mishap
        BY <1>5 DEF IngestRegistration
    <2>2. IsMachine(machine') /\ machine'.state = machine.state
        BY <1>1, <2>1, Zenon DEF Ingested, IsMachine
    <2>3. IsHost(host') /\ host'.disk = host.disk /\ host'.uid = host.uid /\ host'.last = host.last
        BY <1>1, <2>1 DEF IsHost
    <2>4. UNCHANGED <<run, mgr, late>>
        BY <1>5 DEF IngestRegistration
    <2>5. spent' \in [mishaps : Nat, late : Nat] /\ spent'.late = spent.late
        BY <1>1, <2>1, MishapFacts DEF Mishap
    <2> QED
        BY <1>1, <2>2, <2>3, <2>4, <2>5 DEF Rests, Shapes
<1>6. CASE HandOver
    <2>1. IsHost(host') /\ host'.disk = host.disk /\ host'.uid = 0 /\ host'.last = NoReport
        BY <1>1, <1>6, Zenon DEF HandOver, IsHost
    <2> QED
        BY <1>2, <1>6, <2>1 DEF HandOver
<1>7. CASE GoDown
    <2>1. IsHost(host') /\ host'.disk = host.disk /\ host'.uid = 0 /\ host'.last = NoReport
        BY <1>1, <1>7, Zenon DEF GoDown, IsHost
    <2> QED
        BY <1>2, <1>7, <2>1 DEF GoDown
<1>8. CASE Reboot
    <2>1. IsHost(host') /\ host'.disk = host.disk /\ host'.uid = 0 /\ host'.last = NoReport
        BY <1>1, <1>8, Zenon DEF Reboot, IsHost
    <2> QED
        BY <1>2, <1>8, <2>1 DEF Reboot
<1> QED
    BY <1>3, <1>4, <1>5, <1>6, <1>7, <1>8

-----------------------------------------------------------------------------
(* The disk.  A run that Succeeded, and the Machine that is Provisioned by *)
(* it, have their disk written, and the agent that wrote it, if it is      *)
(* still there, has nothing to say but that the reboot failed.             *)

Written ==
    /\ host.disk = run.uid
    /\ host.uid # 0 => host.uid = run.uid /\ host.last = LastReport

WholeInv ==
    /\ host.last \in SentReports
    /\ spent.late = 0 =>
          /\ late = {}
          /\ run.phase = "Succeeded" => Written
          /\ machine.state = "Provisioned" => Written /\ run.phase \in {"Succeeded", "Failed"}

\* A step that rests cannot unmake a written disk.
LEMMA RestsKeepsWhole ==
    ASSUME WholeInv, Rests
    PROVE  WholeInv'
<1>1. host'.last \in SentReports
    BY Zenon DEF WholeInv, Rests, SentReports
<1>2. SUFFICES ASSUME spent'.late = 0
               PROVE  /\ late' = {}
                      /\ run'.phase = "Succeeded" => Written'
                      /\ machine'.state = "Provisioned" =>
                            Written' /\ run'.phase \in {"Succeeded", "Failed"}
    BY <1>1 DEF WholeInv
<1>3. spent.late = 0 /\ late' = {}
    BY <1>2, Zenon DEF WholeInv, Rests
<1>4. ASSUME Written, run'.uid = run.uid
      PROVE  Written'
    BY <1>4, Zenon DEF Written, Rests
<1> QED
    BY <1>3, <1>4, Zenon DEF WholeInv, Rests

\* A new plan is handed out only while the run expects an agent.
LEMMA NextPlanKeepsWhole ==
    ASSUME Shapes, WholeInv, NextPlan
    PROVE  Shapes' /\ WholeInv'
<1>1. IsHost(host') /\ host'.last = NoReport
    BY Zenon DEF NextPlan, Shapes, IsHost
<1>2. run.phase \notin {"Succeeded", "Failed"} /\ UNCHANGED <<machine, run, mgr, late, spent>>
    BY DEF NextPlan, DeployRunExpectsAgent
<1>3. Shapes'
    BY <1>1, <1>2 DEF Shapes
<1>4. WholeInv'
    BY <1>1, <1>2 DEF WholeInv, SentReports
<1> QED
    BY <1>3, <1>4

\* A report that arrives late can be of any run: the invariant says nothing then.
LEMMA LateReportKeepsWhole ==
    ASSUME Shapes, WholeInv, LateReportLands
    PROVE  Shapes' /\ WholeInv'
<1>1. PICK l \in late : run' = Apply(run, l[1], l[2])
    BY DEF LateReportLands
<1>2. IsRun(run')
    BY <1>1, ZenonT(40) DEF Apply, IsRun, Shapes
<1>3. UNCHANGED <<machine, mgr, host, spent>>
    BY DEF LateReportLands
<1>4. spent.late # 0
    BY <1>1 DEF WholeInv
<1> QED
    BY <1>2, <1>3, <1>4 DEF Shapes, WholeInv

\* Every report of the agent keeps the invariant, whether it arrives, is lost or
\* is left behind.
LEMMA ReportKeepsWhole ==
    ASSUME Shapes, WholeInv, Report
    PROVE  Shapes' /\ WholeInv'
<1> DEFINE stop == [host EXCEPT !.uid = 0, !.last = NoReport]
           sent(r) == IF r[2] = "failed" THEN stop
                      ELSE [host EXCEPT !.last = r,
                                        !.disk = IF r[1] = "Succeeded" THEN host.uid ELSE @]
           cost(r) == IF r[2] = "failed" THEN 1 ELSE 0
<1>1. PICK r \in D!After(host.last) :
        \/ /\ run' = Apply(run, host.uid, r)
           /\ host' = IF run.uid # host.uid THEN stop ELSE sent(r)
           /\ Mishaps(cost(r)) /\ UNCHANGED late
        \/ /\ host' = sent(r)
           /\ spent' = [mishaps |-> spent.mishaps + cost(r) + 1, late |-> spent.late + 1]
           /\ UNCHANGED run
        \/ /\ Mishaps(cost(r) + (IF Authenticated THEN 1 ELSE 0))
           /\ host' = sent(r)
           /\ UNCHANGED <<run, late>>
    BY Zenon DEF Report
<1>2. host.uid # 0 /\ UNCHANGED <<machine, mgr>>
    BY DEF Report
<1>3. /\ IsHost(stop) /\ stop.uid = 0 /\ stop.last = NoReport /\ stop.disk = host.disk
      /\ cost(r) \in Nat
    BY Zenon DEF Shapes, IsHost
<1>4. ASSUME r[2] # "failed"
      PROVE  /\ IsHost(sent(r)) /\ sent(r).uid = host.uid /\ sent(r).last = r
             /\ sent(r).disk = IF r[1] = "Succeeded" THEN host.uid ELSE host.disk
    BY <1>4, Zenon DEF Shapes, IsHost
<1>5. r[2] # "failed" => /\ r \in SentReports
                         /\ r[1] = "Succeeded" => r = LastReport
                         /\ host.last # LastReport
    BY NextReport DEF WholeInv
<1>6. r[2] = "failed" => sent(r) = stop
    OBVIOUS
<1> HIDE DEF stop, sent, cost
<1>7. IsHost(host') /\ host'.last \in SentReports
    BY <1>1, <1>3, <1>4, <1>5, <1>6 DEF SentReports
<1>8. CASE /\ spent' = [mishaps |-> spent.mishaps + cost(r) + 1, late |-> spent.late + 1]
           /\ UNCHANGED run
    <2>1. spent' \in [mishaps : Nat, late : Nat] /\ spent'.late # 0
        BY <1>3, <1>8 DEF Shapes
    <2> QED
        BY <1>2, <1>7, <1>8, <2>1 DEF Shapes, WholeInv
<1>9. CASE /\ Mishaps(cost(r) + (IF Authenticated THEN 1 ELSE 0))
           /\ host' = sent(r) /\ UNCHANGED <<run, late>>
    <2>1. cost(r) + (IF Authenticated THEN 1 ELSE 0) \in Nat
        BY <1>3
    <2>2. spent' \in [mishaps : Nat, late : Nat] /\ spent'.late = spent.late
        BY <1>9, <2>1, MishapFacts
    <2>3. ASSUME Written PROVE Written'
        BY <1>2, <1>3, <1>5, <1>6, <1>9, <2>3 DEF Written
    <2> QED
        BY <1>2, <1>7, <1>9, <2>2, <2>3 DEF Shapes, WholeInv
<1>10. CASE /\ run' = Apply(run, host.uid, r)
            /\ host' = IF run.uid # host.uid THEN stop ELSE sent(r)
            /\ Mishaps(cost(r)) /\ UNCHANGED late
    <2>1. spent' \in [mishaps : Nat, late : Nat] /\ spent'.late = spent.late
        BY <1>3, <1>10, MishapFacts
    <2>2. CASE run.uid # host.uid
        <3>1. run' = run /\ host' = stop
            BY <1>10, <2>2 DEF Apply
        <3>2. ASSUME Written PROVE Written'
            BY <1>2, <2>2, <3>2 DEF Written
        <3> QED
            BY <1>2, <1>7, <1>10, <2>1, <3>1, <3>2 DEF Shapes, WholeInv
    <2>3. CASE run.uid = host.uid
        <3>1. /\ IsRun(run') /\ run'.uid = run.uid
              /\ run'.phase = IF r[2] = "failed" THEN "Failed" ELSE r[1]
            BY <1>10, <2>3, Zenon DEF Apply, Shapes, IsRun
        <3>2. host' = sent(r)
            BY <1>10, <2>3
        <3>3. CASE r[2] = "failed"
            <4>1. ASSUME Written PROVE Written'
                BY <1>3, <1>6, <3>1, <3>2, <3>3, <4>1 DEF Written
            <4> QED
                BY <1>2, <1>7, <1>10, <2>1, <3>1, <3>3, <4>1 DEF Shapes, WholeInv
        <3>4. CASE r[2] # "failed"
            <4>1. ~Written
                BY <1>2, <1>5, <3>4 DEF Written
            <4>2. run'.phase = "Succeeded" => Written'
                BY <1>4, <1>5, <2>3, <3>1, <3>2, <3>4 DEF Written
            <4> QED
                BY <1>2, <1>7, <1>10, <2>1, <3>1, <4>1, <4>2 DEF Shapes, WholeInv
        <3> QED
            BY <3>3, <3>4
    <2> QED
        BY <2>2, <2>3
<1> QED
    BY <1>1, <1>8, <1>9, <1>10

\* Every step keeps the invariant.
LEMMA NextKeepsWhole == Shapes /\ WholeInv /\ [Next]_vars => Shapes' /\ WholeInv'
<1> SUFFICES ASSUME Shapes, WholeInv, [Next]_vars PROVE Shapes' /\ WholeInv'
    OBVIOUS
<1>1. CASE Rests
    BY <1>1, RestsKeepsWhole, Zenon DEF Rests
<1>2. CASE UNCHANGED vars
    BY <1>2 DEF vars, Shapes, WholeInv, Written
<1> QED
    BY <1>1, <1>2, ArmingRests, WaitingRests, BootingRests, NextPlanKeepsWhole,
       LateReportKeepsWhole, ReportKeepsWhole
    DEF Next, Manager, Agent, Faults

\* At first nothing is provisioned and nothing has been reported.
LEMMA InitEstablishesWhole == Init => Shapes /\ WholeInv
<1> SUFFICES ASSUME Init PROVE Shapes /\ WholeInv
    OBVIOUS
<1>1. IsHost(host) /\ host.last = NoReport
    BY Zenon DEF Init, IsHost
<1>2. IsRun(run) /\ run.phase = ""
    BY Zenon DEF Init, IsRun
<1>3. IsMachine(machine) /\ machine.state = "Inspecting"
    BY Zenon DEF Init, IsMachine
<1>4. IsMgr(mgr) /\ spent \in [mishaps : Nat, late : Nat] /\ late = {}
    BY IdleIsMgr, Zenon DEF Init
<1> QED
    BY <1>1, <1>2, <1>3, <1>4, Zenon DEF Shapes, WholeInv, SentReports

\* A Machine becomes Provisioned, and stays so, only with its disk written by a
\* finished plan of its current run, after any number of runs, restarts, crashes,
\* reboots and lost reports, as long as no report's handler outlives the agent's
\* wait for it.
THEOREM ProvisionedMeansWritten == Spec => []ProvisionedIsWhole
<1>1. Shapes /\ WholeInv => ProvisionedIsWhole
    BY DEF WholeInv, Written, ProvisionedIsWhole, AlwaysWhole
<1> QED
    BY <1>1, InitEstablishesWhole, NextKeepsWhole, PTL DEF Spec

-----------------------------------------------------------------------------
(* The boot token.  From the Secret's write to the next mint, the Secret   *)
(* holds the token that status.netBoot was given.                          *)

TokenInv ==
    /\ host.meant # 0 => secret = host.meant
    /\ mgr.pc \in {"secret", "status"} => host.meant = 0
    /\ mgr.pc = "status" => secret = mgr.token

\* The order of the writes that mint a token keeps the Secret right.
LEMMA NextKeepsToken == Shapes /\ TokenInv /\ [Next]_vars => TokenInv'
<1> SUFFICES ASSUME Shapes, TokenInv, [Next]_vars PROVE TokenInv'
    OBVIOUS
<1>1. IsHost(host) /\ IsMgr(mgr)
    BY DEF Shapes
<1>2. ASSUME UNCHANGED secret, host'.meant = host.meant,
             UNCHANGED mgr \/ mgr'.pc \notin {"secret", "status"}
      PROVE  TokenInv'
    BY <1>2 DEF TokenInv
<1>3. CASE StartArming
    <2>1. CASE mgr'.pc = "secret"
        <3>1. host' = [host EXCEPT !.meant = 0]
            BY <1>3, <2>1 DEF StartArming
        <3>2. host'.meant = 0
            BY <1>1, <3>1 DEF IsHost
        <3> QED
            BY <2>1, <3>2 DEF TokenInv
    <2>2. CASE mgr'.pc # "secret"
        <3>1. mgr'.pc = "mark" /\ UNCHANGED <<secret, host>>
            BY <1>3, <2>2 DEF StartArming
        <3> QED
            BY <1>2, <3>1
    <2> QED
        BY <2>1, <2>2
<1>4. CASE WriteBootTokenSecret
    <2>1. mgr'.pc = "status" /\ mgr'.token = mgr.token
        BY <1>1, <1>4 DEF WriteBootTokenSecret, IsMgr
    <2> QED
        BY <1>4, <2>1 DEF WriteBootTokenSecret, TokenInv
<1>5. CASE UpdateNetBootStatus
    <2>1. mgr'.pc = "mark"
        BY <1>1, <1>5 DEF UpdateNetBootStatus, IsMgr
    <2>2. host'.meant = mgr.token
        BY <1>1, <1>5 DEF UpdateNetBootStatus, IsHost
    <2> QED
        BY <1>5, <2>1, <2>2 DEF UpdateNetBootStatus, TokenInv
<1>6. CASE ArmMarker
    <2>1. mgr'.pc = "power"
        BY <1>1, <1>6 DEF ArmMarker, IsMgr
    <2> QED
        BY <1>2, <1>6, <2>1 DEF ArmMarker
<1>7. CASE PowerOnForNetBoot \/ PowerFails \/ CallFails \/ DisarmProvisionBoot \/ Crash
    <2>1. mgr' = Idle /\ UNCHANGED secret /\ host'.meant = host.meant
        BY <1>1, <1>7, Zenon DEF PowerOnForNetBoot, PowerFails, CallFails, DisarmProvisionBoot, Crash, IsHost
    <2> QED
        BY <1>2, <2>1 DEF Idle
<1>8. CASE CommitProvisionPending
    <2>1. mgr'.pc = "disarm" /\ UNCHANGED <<secret, host>>
        BY <1>8 DEF CommitProvisionPending, Idle
    <2> QED
        BY <1>2, <2>1
<1>9. CASE \/ PollAgentRegistration \/ AwaitAgentBoot \/ ResultFromPhase \/ ConnectFails
           \/ AwaitDHCP \/ PlanNotReady \/ AcceptRegistration \/ LateReportLands
           \/ BootTokenExpires \/ RunStalls \/ NewRun \/ Reinspect
    BY <1>2, <1>9, Zenon DEF PollAgentRegistration, AwaitAgentBoot, ResultFromPhase, ConnectFails,
       AwaitDHCP, PlanNotReady, AcceptRegistration, LateReportLands, BootTokenExpires,
       RunStalls, NewRun, Reinspect
<1>10. CASE FetchGrubConfig \/ NextPlan \/ HandOver \/ GoDown \/ Reboot
    <2>1. host'.meant = host.meant
        BY <1>1, <1>10, Zenon DEF FetchGrubConfig, NextPlan, HandOver, GoDown, Reboot, IsHost
    <2> QED
        BY <1>2, <1>10, <2>1 DEF FetchGrubConfig, NextPlan, HandOver, GoDown, Reboot
<1>11. CASE IngestRegistration
    <2>1. PICK session : UNCHANGED host \/ host' = [host EXCEPT !.session = session]
        BY <1>11 DEF IngestRegistration
    <2>2. host'.meant = host.meant
        BY <1>1, <2>1 DEF IsHost
    <2> QED
        BY <1>2, <1>11, <2>2 DEF IngestRegistration
<1>12. CASE Report
    <2>1. PICK r, d : \/ host' = [host EXCEPT !.uid = 0, !.last = NoReport]
                      \/ host' = [host EXCEPT !.last = r, !.disk = d]
        BY <1>12, Zenon DEF Report
    <2>2. host'.meant = host.meant
        BY <1>1, <2>1, Zenon DEF IsHost
    <2> QED
        BY <1>2, <1>12, <2>2 DEF Report
<1>13. CASE UNCHANGED vars
    BY <1>2, <1>13 DEF vars
<1> QED
    BY <1>3, <1>4, <1>5, <1>6, <1>7, <1>8, <1>9, <1>10, <1>11, <1>12, <1>13
    DEF Next, Manager, Agent, Faults

\* A boot that was armed with a token minted in full is given that token, however
\* often the manager restarts before the firmware asks: the Secret is written
\* before status.netBoot and outlives the memory of the token store.
THEOREM ArmedBootHasItsToken == Spec => []BootGetsItsToken
<1> DEFINE Inv == Shapes /\ WholeInv /\ TokenInv
<1>1. Init => Inv
    <2>1. Init => TokenInv
        <3> SUFFICES ASSUME Init PROVE TokenInv
            OBVIOUS
        <3>1. host.meant = 0
            BY Zenon DEF Init
        <3>2. mgr.pc = "idle"
            BY Zenon DEF Init, Idle
        <3> QED
            BY <3>1, <3>2 DEF TokenInv
    <2> QED
        BY <2>1, InitEstablishesWhole
<1>2. Inv /\ [Next]_vars => Inv'
    BY NextKeepsWhole, NextKeepsToken
<1>3. Inv => BootGetsItsToken
    BY DEF TokenInv, BootGetsItsToken, LookupToken, InSecret
<1> QED
    BY <1>1, <1>2, <1>3, PTL DEF Spec
=============================================================================
