------------------------------ MODULE SiteProofs ------------------------------
(***************************************************************************)
(* What a Site's services promise: the DHCP reservations of its Subnet,    *)
(* bootd's hostsfile, and the seeders of its Images.                       *)
(*                                                                         *)
(* First the reservation table, for any Machines, MACs and address pool:   *)
(* no address is promised twice, and nobody loses an address while its     *)
(* Machine is on the way through a net boot.  NoAddressTwice is not        *)
(* inductive: a writer starts from its own copy of the table, and only a   *)
(* fresh copy is the stored table.  DhcpInv adds that link, which every    *)
(* write must break and only a delivery restores.                          *)
(***************************************************************************)
EXTENDS DhcpReservation, Sequences, TLAPS

\* A table in which nothing is promised twice.
Sound(table) ==
    /\ \A r, s \in table : (r.address = s.address \/ r.machine = s.machine) => r = s
    /\ Held(table) \subseteq LeaseRange \ ReservedAddresses

FreshIsStored == mgr.fresh => mgr.subnet = subnet

DhcpInv == TypeOK /\ NoAddressTwice /\ FreshIsStored

-----------------------------------------------------------------------------
(* The operations on tables.                                               *)

\* A reservation leaves a table as it is or adds one entry, for a Machine
\* that had none, with an address nobody holds.
LEMMA ReserveFacts ==
    ASSUME NEW table \in SUBSET Entry, NEW m \in Machines, NEW mac \in MACs,
           NEW next, Reserve(table, m, mac, next)
    PROVE  /\ next \in SUBSET Entry
           /\ table \subseteq next
           /\ Sound(table) => Sound(next)
<1>1. CASE next = table
    BY <1>1
<1>2. CASE OfMachine(table, m) = {} /\ next # table
  <2>1. PICK a \in Free(table) :
            next = table \cup {[machine |-> m, mac |-> mac, address |-> a]}
      BY <1>2 DEF Reserve
  <2> DEFINE e == [machine |-> m, mac |-> mac, address |-> a]
  <2>2. a \in Int /\ a \in LeaseRange \ ReservedAddresses /\ a \notin Held(table)
      BY RangeAssumption DEF Free, LeaseRange
  <2>3. e \in Entry /\ e.machine = m /\ e.address = a
      BY <2>2 DEF Entry
  <2>4. \A r \in table : r.machine # m /\ r.address # a
      BY <1>2, <2>2 DEF OfMachine, Held
  <2>5. Sound(table) => \A r, s \in next :
            (r.address = s.address \/ r.machine = s.machine) => r = s
      BY <2>1, <2>3, <2>4 DEF Sound
  <2>6. Sound(table) => Held(next) \subseteq LeaseRange \ ReservedAddresses
      BY <2>1, <2>2, <2>3 DEF Sound, Held
  <2> QED
      BY <2>1, <2>3, <2>5, <2>6, Zenon DEF Sound
<1> QED
    BY <1>1, <1>2 DEF Reserve

\* Dropping entries keeps a table sound.
LEMMA SubsetIsSound ==
    ASSUME NEW table, NEW next \in SUBSET table, Sound(table)
    PROVE  Sound(next)
BY DEF Sound, Held

\* What a step that goes through UpdateTable can do to the Subnet and to the
\* manager's copy of it.
LEMMA UpdateTableFacts ==
    ASSUME TypeOK, FreshIsStored, NEW table \in SUBSET Entry, UpdateTable(table)
    PROVE  /\ subnet' \in SubnetStatus
           /\ mgr' \in [machine : [Machines -> MachineSpec], subnet : SubnetStatus,
                        fresh : BOOLEAN]
           /\ mgr'.machine = mgr.machine
           /\ FreshIsStored'
           /\ \/ subnet' = subnet /\ table = mgr.subnet.reservations
              \/ mgr.subnet = subnet /\ subnet'.reservations = table
<1>1. CASE table = mgr.subnet.reservations
    BY <1>1 DEF UpdateTable, TypeOK, FreshIsStored
<1>2. CASE table # mgr.subnet.reservations
  <2>1. mgr.fresh /\ mgr.subnet = subnet
      BY <1>2 DEF UpdateTable, FreshIsStored
  <2>2. /\ subnet' = [subnet EXCEPT !.reservations = table]
        /\ mgr' = [mgr EXCEPT !.fresh = FALSE]
      BY <1>2 DEF UpdateTable
  <2>3. subnet' \in SubnetStatus /\ subnet'.reservations = table
      BY <2>2 DEF TypeOK, SubnetStatus
  <2>4. /\ mgr' \in [machine : [Machines -> MachineSpec], subnet : SubnetStatus,
                     fresh : BOOLEAN]
        /\ mgr'.machine = mgr.machine /\ mgr'.fresh = FALSE
      BY <2>2, Zenon DEF TypeOK
  <2> QED
      BY <2>1, <2>3, <2>4 DEF FreshIsStored
<1> QED
    BY <1>1, <1>2

\* A step that leaves the Subnet and the manager's copy alone keeps them sound.
LEMMA Untouched ==
    ASSUME DhcpInv, UNCHANGED <<subnet, mgr>>
    PROVE  NoAddressTwice' /\ FreshIsStored'
BY DEF DhcpInv, NoAddressTwice, FreshIsStored

-----------------------------------------------------------------------------
(* One lemma per writer of the table: what it writes, and that it is sound. *)

LEMMA ReserveStep ==
    ASSUME DhcpInv, NEW m \in Machines, ReserveAndAwaitDHCP(m)
    PROVE  /\ DhcpInv'
           /\ subnet.reservations \subseteq subnet'.reservations
<1>1. deploy' \in [Machines -> {"idle", "reserving", "booted"}]
    BY DEF ReserveAndAwaitDHCP, DhcpInv, TypeOK
<1>2. CASE UNCHANGED <<subnet, mgr>>
    BY <1>1, <1>2, Untouched DEF ReserveAndAwaitDHCP, DhcpInv, TypeOK
<1>3. CASE ~UNCHANGED <<subnet, mgr>> /\ RecordPoolExhausted
  <2>1. /\ subnet' = [subnet EXCEPT !.exhausted = TRUE]
        /\ mgr' = [mgr EXCEPT !.fresh = FALSE]
      BY <1>3 DEF RecordPoolExhausted
  <2>2. subnet' \in SubnetStatus /\ subnet'.reservations = subnet.reservations
      BY <2>1, Zenon DEF DhcpInv, TypeOK, SubnetStatus
  <2> QED
      BY <1>1, <2>1, <2>2, Zenon
      DEF ReserveAndAwaitDHCP, DhcpInv, TypeOK, NoAddressTwice, FreshIsStored
<1>4. CASE ~UNCHANGED <<subnet, mgr>> /\ ~RecordPoolExhausted
  <2>1. /\ mgr.machine[m] \in MachineSpec /\ mgr.subnet \in SubnetStatus
        /\ mgr.subnet.reservations \in SUBSET Entry
      BY DEF DhcpInv, TypeOK, SubnetStatus
  <2>2. PICK next : /\ HasBootMAC(mgr.machine[m])
                    /\ Reserve(mgr.subnet.reservations, m, mgr.machine[m].mac, next)
                    /\ UpdateTable(next)
      BY <1>4 DEF ReserveAndAwaitDHCP
  <2>3. mgr.machine[m].mac \in MACs
      BY <2>1, <2>2 DEF HasBootMAC, MachineSpec
  <2>4. /\ next \in SUBSET Entry
        /\ mgr.subnet.reservations \subseteq next
        /\ Sound(mgr.subnet.reservations) => Sound(next)
    <3>1. PICK table, mac : table = mgr.subnet.reservations /\ mac = mgr.machine[m].mac
        OBVIOUS
    <3>2. table \in SUBSET Entry /\ mac \in MACs /\ Reserve(table, m, mac, next)
        BY <2>1, <2>2, <2>3, <3>1
    <3>3. next \in SUBSET Entry /\ table \subseteq next /\ (Sound(table) => Sound(next))
        BY <3>2, ReserveFacts
    <3> QED
        BY <3>1, <3>3
  <2>5. /\ subnet' \in SubnetStatus
        /\ mgr' \in [machine : [Machines -> MachineSpec], subnet : SubnetStatus,
                     fresh : BOOLEAN]
        /\ FreshIsStored'
        /\ \/ subnet' = subnet
           \/ mgr.subnet = subnet /\ subnet'.reservations = next
      BY <2>2, <2>4, UpdateTableFacts DEF DhcpInv
  <2>6. NoAddressTwice' /\ subnet.reservations \subseteq subnet'.reservations
      BY <2>4, <2>5 DEF DhcpInv, NoAddressTwice, Sound, Held
  <2> QED
      BY <1>1, <2>5, <2>6 DEF ReserveAndAwaitDHCP, DhcpInv, TypeOK
<1> QED
    BY <1>2, <1>3, <1>4

\* Every write that only drops entries.
LEMMA DropStep ==
    ASSUME DhcpInv, NEW table \in SUBSET mgr.subnet.reservations, UpdateTable(table)
    PROVE  /\ subnet' \in SubnetStatus
           /\ mgr' \in [machine : [Machines -> MachineSpec], subnet : SubnetStatus,
                        fresh : BOOLEAN]
           /\ NoAddressTwice' /\ FreshIsStored'
           /\ \/ subnet' = subnet
              \/ mgr.subnet = subnet /\ subnet'.reservations = table
<1>1. table \in SUBSET Entry
    BY DEF DhcpInv, TypeOK, SubnetStatus
<1>2. /\ subnet' \in SubnetStatus
      /\ mgr' \in [machine : [Machines -> MachineSpec], subnet : SubnetStatus,
                   fresh : BOOLEAN]
      /\ FreshIsStored'
      /\ \/ subnet' = subnet
         \/ mgr.subnet = subnet /\ subnet'.reservations = table
    BY <1>1, UpdateTableFacts DEF DhcpInv
<1>3. Sound(subnet.reservations)
    BY DEF DhcpInv, NoAddressTwice, Sound
<1>4. Sound(subnet'.reservations)
    BY <1>2, <1>3, SubsetIsSound
<1> QED
    BY <1>2, <1>4 DEF NoAddressTwice, Sound, Held

LEMMA ReleasedFacts ==
    ASSUME NEW m
    PROVE  /\ Released(m) \in SUBSET mgr.subnet.reservations
           /\ \A r \in mgr.subnet.reservations : r.machine # m => r \in Released(m)
BY DEF Released, Release, OfMachine

LEMMA KeptFacts ==
    ASSUME NEW table, NEW machines
    PROVE  Kept(table, machines) \in SUBSET table
BY DEF Kept
-----------------------------------------------------------------------------
(* The invariant and the action property, one step per action.             *)

\* What KeepsItsAddress says of one step.
KeepsStep ==
    \A r \in Kept(subnet.reservations, mgr.machine) :
        (deploy[r.machine] # "idle" /\ deploy'[r.machine] # "idle")
            => r \in subnet'.reservations

\* The initial table is empty and the manager's copy of it fresh.
LEMMA InitEstablishes == Init => DhcpInv
<1> SUFFICES ASSUME Init PROVE DhcpInv
    OBVIOUS
<1>1. Unenrolled \in MachineSpec /\ {} \in SUBSET Entry
    BY DEF Unenrolled, MachineSpec
<1>2. TypeOK
    BY <1>1, BoundsAssumption DEF Init, TypeOK, SubnetStatus
<1>3. NoAddressTwice /\ FreshIsStored
    BY DEF Init, NoAddressTwice, Held, FreshIsStored
<1> QED
    BY <1>2, <1>3 DEF DhcpInv

\* Users and the deploy steps that only start something touch no table.
LEMMA UserStep ==
    ASSUME DhcpInv, NEW m \in Machines, Users(m) \/ StartNetBoot(m)
    PROVE  DhcpInv' /\ UNCHANGED subnet
<1>1. CASE StartNetBoot(m)
  <2>1. UNCHANGED <<machine, subnet, mgr, bootd>>
      BY <1>1 DEF StartNetBoot
  <2>2. deploy' \in [Machines -> {"idle", "reserving", "booted"}]
      BY <1>1 DEF StartNetBoot, DhcpInv, TypeOK
  <2>3. spent' \in [boots : 0..MaxBoots, edits : 0..MaxEdits]
      BY <1>1, BoundsAssumption DEF StartNetBoot, DhcpInv, TypeOK
  <2> QED
      BY <2>1, <2>2, <2>3, Untouched DEF DhcpInv, TypeOK
<1>2. CASE Users(m)
  <2>1. PICK spec \in MachineSpec : Edit(m, spec)
    <3>1. CASE CreateMachine(m)
        BY <3>1, Zenon DEF CreateMachine, MachineSpec
    <3>2. CASE EditMachine(m)
        BY <3>2 DEF EditMachine, MachineSpec
    <3>3. CASE DeleteMachine(m)
      <4>1. machine[m] \in MachineSpec
          BY DEF DhcpInv, TypeOK
      <4>2. [machine[m] EXCEPT !.life = "deleting"] \in MachineSpec
          BY <4>1 DEF MachineSpec
      <4> QED
          BY <3>3, <4>2 DEF DeleteMachine
    <3> QED
        BY <1>2, <3>1, <3>2, <3>3 DEF Users
  <2>2. UNCHANGED <<subnet, mgr, deploy, bootd>>
      BY <2>1 DEF Edit
  <2>3. machine' \in [Machines -> MachineSpec]
      BY <2>1 DEF Edit, DhcpInv, TypeOK
  <2>4. spent' \in [boots : 0..MaxBoots, edits : 0..MaxEdits]
      BY <2>1, BoundsAssumption DEF Edit, DhcpInv, TypeOK
  <2> QED
      BY <2>2, <2>3, <2>4, Untouched DEF DhcpInv, TypeOK
<1> QED
    BY <1>1, <1>2

\* Deliveries and bootd's acknowledgement leave the table itself alone.
LEMMA CacheStep ==
    ASSUME DhcpInv,
           \/ DeliverSubnetToManager \/ DeliverMachinesToManager
           \/ BootdSees \/ BootdAcknowledges
    PROVE  DhcpInv' /\ subnet'.reservations = subnet.reservations
<1>1. CASE DeliverSubnetToManager
    BY <1>1, Zenon DEF DeliverSubnetToManager, DhcpInv, TypeOK, NoAddressTwice, FreshIsStored
<1>2. CASE DeliverMachinesToManager
    BY <1>2 DEF DeliverMachinesToManager, DhcpInv, TypeOK, NoAddressTwice, FreshIsStored
<1>3. CASE BootdSees
    BY <1>3 DEF BootdSees, DhcpInv, TypeOK, NoAddressTwice, FreshIsStored, SubnetStatus
<1>4. CASE BootdAcknowledges
  <2>1. subnet' \in SubnetStatus /\ subnet'.reservations = subnet.reservations
      BY <1>4 DEF BootdAcknowledges, DhcpInv, TypeOK, SubnetStatus
  <2> QED
      BY <1>4, <2>1, Zenon DEF BootdAcknowledges, DhcpInv, TypeOK, NoAddressTwice, FreshIsStored
<1> QED
    BY <1>1, <1>2, <1>3, <1>4

\* A step that ends takes only its own Machine's entry out.
LEMMA ReleaseStep ==
    ASSUME DhcpInv, NEW m \in Machines, CompleteStep(m) \/ Deprovision(m)
    PROVE  DhcpInv' /\ KeepsStep
<1>1. UpdateTable(Released(m)) /\ deploy' = [deploy EXCEPT ![m] = "idle"]
    BY DEF CompleteStep, Deprovision
<1>2. /\ subnet' \in SubnetStatus
      /\ mgr' \in [machine : [Machines -> MachineSpec], subnet : SubnetStatus,
                   fresh : BOOLEAN]
      /\ NoAddressTwice' /\ FreshIsStored'
      /\ \/ subnet' = subnet
         \/ mgr.subnet = subnet /\ subnet'.reservations = Released(m)
    BY <1>1, ReleasedFacts, DropStep
<1>3. Unenrolled \in MachineSpec
    BY DEF Unenrolled, MachineSpec
<1>4. TypeOK'
    BY <1>1, <1>2, <1>3 DEF CompleteStep, Deprovision, DhcpInv, TypeOK
<1>5. \A r \in subnet.reservations : r.machine # m => r \in subnet'.reservations
    BY <1>2, ReleasedFacts
<1>6. deploy'[m] = "idle"
    BY <1>1 DEF DhcpInv, TypeOK
<1>7. KeepsStep
    BY <1>5, <1>6 DEF KeepsStep, Kept
<1> QED
    BY <1>2, <1>4, <1>7 DEF DhcpInv

\* Garbage collection takes only entries nobody is entitled to any more.
LEMMA CollectStep ==
    ASSUME DhcpInv, ReconcileSubnet
    PROVE  DhcpInv' /\ KeepsStep
<1> DEFINE kept == Kept(mgr.subnet.reservations, mgr.machine)
<1>1. kept \in SUBSET mgr.subnet.reservations
    BY KeptFacts
<1>2. UpdateTable(kept)
    BY DEF ReconcileSubnet
<1> HIDE DEF kept
<1>3. /\ subnet' \in SubnetStatus
      /\ mgr' \in [machine : [Machines -> MachineSpec], subnet : SubnetStatus,
                   fresh : BOOLEAN]
      /\ NoAddressTwice' /\ FreshIsStored'
      /\ \/ subnet' = subnet
         \/ mgr.subnet = subnet /\ subnet'.reservations = kept
    BY <1>1, <1>2, DropStep
<1>4. TypeOK'
    BY <1>3 DEF ReconcileSubnet, DhcpInv, TypeOK
<1>5. KeepsStep
    BY <1>3 DEF KeepsStep, Kept, kept
<1> QED
    BY <1>3, <1>4, <1>5 DEF DhcpInv

\* Every step keeps the invariant and takes no address from a Machine that is
\* on its way through a net boot.
LEMMA NextPreserves ==
    ASSUME DhcpInv, [Next]_vars
    PROVE  DhcpInv' /\ [KeepsStep]_vars
<1>1. CASE UNCHANGED vars
    BY <1>1 DEF vars, DhcpInv, TypeOK, NoAddressTwice, FreshIsStored
<1>2. ASSUME DeliverSubnetToManager \/ DeliverMachinesToManager
             \/ BootdSees \/ BootdAcknowledges
      PROVE  DhcpInv' /\ KeepsStep
    BY <1>2, CacheStep DEF KeepsStep, Kept
<1>3. ASSUME ReconcileSubnet PROVE DhcpInv' /\ KeepsStep
    BY <1>3, CollectStep
<1>4. ASSUME NEW m \in Machines, Users(m) \/ StartNetBoot(m)
      PROVE  DhcpInv' /\ KeepsStep
    BY <1>4, UserStep DEF KeepsStep, Kept
<1>5. ASSUME NEW m \in Machines, ReserveAndAwaitDHCP(m)
      PROVE  DhcpInv' /\ KeepsStep
    BY <1>5, ReserveStep DEF KeepsStep, Kept
<1>6. ASSUME NEW m \in Machines, CompleteStep(m) \/ Deprovision(m)
      PROVE  DhcpInv' /\ KeepsStep
    BY <1>6, ReleaseStep
<1> QED
    BY <1>1, <1>2, <1>3, <1>4, <1>5, <1>6 DEF Next, DeployStep

LEMMA Invariance == Spec => []DhcpInv
<1>1. DhcpInv /\ [Next]_vars => DhcpInv'
    BY NextPreserves
<1> QED
    BY InitEstablishes, <1>1, PTL DEF Spec

\* The reservation table, the caches and the deploy steps keep their types
\* under every interleaving of deployer, Subnet controller, bootd and users.
THEOREM TypeCorrect == Spec => []TypeOK
<1>1. DhcpInv => TypeOK
    BY DEF DhcpInv
<1> QED
    BY Invariance, <1>1, PTL

\* For any number of Machines and any pool, no address of a Subnet is
\* promised to two Machines and none lies outside the lease range.
THEOREM AddressesAreExclusive == Spec => []NoAddressTwice
<1>1. DhcpInv => NoAddressTwice
    BY DEF DhcpInv
<1> QED
    BY Invariance, <1>1, PTL

\* For any number of Machines and any pool, a Machine on its way through a
\* net boot keeps the address it was given until its own step lets it go.
THEOREM AddressesAreKept == Spec => KeepsItsAddress
<1>1. DhcpInv /\ [Next]_vars => [KeepsStep]_vars
    BY NextPreserves
<1>2. Spec => [][KeepsStep]_vars
    BY Invariance, <1>1, PTL DEF Spec
<1> QED
    BY <1>2 DEF KeepsItsAddress, KeepsStep

(***************************************************************************)
(* bootd's hostsfile loop, for every allowlist, address pool and number of *)
(* writes and faults: an acknowledgement never runs ahead of the file on   *)
(* disk.  Its MACs are those of the reservation table.                     *)
(***************************************************************************)
CONSTANTS Addresses, NoAddress, MaxWrites, MaxEnrols, MaxFaults, MaxLines

VARIABLES history, applied, allowed, cache, sink, loop, dns, faults

B == INSTANCE BootdHostsfile WITH spent <- faults

Value == Addresses \cup {NoAddress}

Hostsfile == UNION {[macs -> Value] : macs \in SUBSET MACs}

Push == [pc : {"idle", "got", "marked"}, table : Nat]

CacheType == [pc : {"start", "first", "synced"}, table : Nat, applied : Nat, revision : Nat,
              event : Push, tick : Push]

SinkType == [macs : SUBSET MACs, table : Nat, macsSet : BOOLEAN, revSet : BOOLEAN, dirty : BOOLEAN]

LoopType == [pc : {"idle", "wait", "ack", "patch"}, table : Nat, revSet : BOOLEAN,
             confirmed : BOOLEAN, acked : Nat, ackedSet : BOOLEAN]

DnsType == [file : Hostsfile, served : Hostsfile, child : {"none", "up", "dead"},
            hup : BOOLEAN, lines : Nat, seen : BOOLEAN]

\* Every copy of a table is one the manager has written.
CopiesInv ==
    /\ history \in Seq(B!Table) /\ history # <<>> /\ applied \in Nat
    /\ allowed \in SUBSET MACs
    /\ cache \in CacheType /\ sink \in SinkType /\ loop \in LoopType /\ dns \in DnsType
    /\ {cache.table, cache.revision, cache.event.table, cache.tick.table, sink.table,
        loop.table} \subseteq DOMAIN history

\* From the rewrite to the acknowledgement the file is that of the table at hand.
FileInv ==
    loop.pc # "idle" => \A mac \in DOMAIN dns.file : dns.file[mac] = history[loop.table][mac]

BootdInv == CopiesInv /\ FileInv

\* A hostsfile gives every allowed MAC what its table gives it.
LEMMA RenderFacts ==
    ASSUME NEW macs \in SUBSET MACs, NEW table \in B!Table
    PROVE  /\ B!RenderHostsfile(macs, table) \in Hostsfile
           /\ \A mac \in DOMAIN B!RenderHostsfile(macs, table) :
                 B!RenderHostsfile(macs, table)[mac] = table[mac]
  <1>1. B!RenderHostsfile(macs, table) \in [macs -> Value]
    BY DEF B!RenderHostsfile, B!Table, Value
  <1>2. B!RenderHostsfile(macs, table) \in Hostsfile
    BY <1>1 DEF Hostsfile
  <1>3. QED
    BY <1>2 DEF B!RenderHostsfile

\* A pod that has just started holds the table before any reservation.
LEMMA FreshPod ==
    /\ B!NewCache \in CacheType /\ B!NewSink \in SinkType /\ B!NewLoop \in LoopType
    /\ B!NewDns \in DnsType
    /\ {B!NewCache.table, B!NewCache.revision, B!NewCache.event.table, B!NewCache.tick.table,
        B!NewSink.table, B!NewLoop.table} = {1}
    /\ B!NewLoop.pc = "idle"
  <1>1. B!EmptyHostsfile \in Hostsfile
    <2>1. B!EmptyHostsfile \in [{} -> Value]
      BY DEF B!EmptyHostsfile
    <2>2. QED
      BY <2>1, Zenon DEF Hostsfile
  <1>2. B!NewDns \in DnsType
    BY <1>1 DEF B!NewDns, DnsType
  <1>3. B!NewCache \in CacheType /\ B!NewSink \in SinkType /\ B!NewLoop \in LoopType
    <2>1. B!IdlePush \in Push
      BY DEF B!IdlePush, Push
    <2>2. B!NewCache \in CacheType
      BY <2>1 DEF B!NewCache, CacheType
    <2>3. B!NewSink \in SinkType
      BY DEF B!NewSink, SinkType
    <2>4. B!NewLoop \in LoopType
      BY DEF B!NewLoop, LoopType
    <2>5. QED
      BY <2>2, <2>3, <2>4
  <1>4. {B!NewCache.table, B!NewCache.revision, B!NewCache.event.table, B!NewCache.tick.table,
         B!NewSink.table, B!NewLoop.table} = {1} /\ B!NewLoop.pc = "idle"
    BY DEF B!NewCache, B!IdlePush, B!NewSink, B!NewLoop
  <1>5. QED
    BY <1>2, <1>3, <1>4

\* The manager's writes leave every position what it was.
LEMMA WriteKeeps ==
    ASSUME BootdInv, B!WriteTable
    PROVE  BootdInv'
  <1>1. PICK table \in B!Table : history' = Append(history, table)
    BY DEF B!WriteTable
  <1>2. /\ history' \in Seq(B!Table) /\ history' # <<>> /\ DOMAIN history \subseteq DOMAIN history'
        /\ \A i \in DOMAIN history : history'[i] = history[i]
    BY <1>1 DEF BootdInv, CopiesInv
  <1>3. UNCHANGED <<applied, allowed, cache, sink, loop, dns>>
    BY DEF B!WriteTable
  <1>4. QED
    BY <1>2, <1>3 DEF BootdInv, CopiesInv, FileInv

\* The caches pass positions on and leave loop and file alone.
LEMMA CachesKeep ==
    ASSUME BootdInv, B!Caches
    PROVE  BootdInv'
  <1> DEFINE P == DOMAIN history
  <1>1. B!Stored \in P /\ P \subseteq Nat
    BY DEF B!Stored, BootdInv, CopiesInv
  <1>2. /\ cache \in CacheType /\ sink \in SinkType /\ applied \in Nat
        /\ cache.table \in P /\ cache.revision \in P /\ cache.event.table \in P
        /\ cache.tick.table \in P /\ sink.table \in P
    BY DEF BootdInv, CopiesInv
  <1>3. SUFFICES /\ UNCHANGED <<history, applied, allowed, loop, dns>>
                 /\ cache' \in CacheType /\ sink' \in SinkType
                 /\ {cache'.table, cache'.revision, cache'.event.table, cache'.tick.table,
                     sink'.table} \subseteq P
    BY DEF BootdInv, CopiesInv, FileInv
  <1>4. CASE B!PushAllowedMACs
    <2>1. allowed \in SUBSET MACs
      BY DEF BootdInv, CopiesInv
    <2>2. QED
      BY <1>2, <1>4, <2>1, Zenon DEF B!PushAllowedMACs, SinkType
  <1>5. CASE B!StartSubnetCache
    BY <1>1, <1>2, <1>5, Zenon DEF B!StartSubnetCache, CacheType, Push
  <1>6. CASE B!DeliverSubnet
    BY <1>1, <1>2, <1>6, Zenon DEF B!DeliverSubnet, CacheType, Push
  <1>7. CASE B!ResyncTick
    BY <1>1, <1>2, <1>7 DEF B!ResyncTick, CacheType, Push
  <1>8. ASSUME NEW who \in B!Pushers, B!PushRevision(who)
        PROVE  cache' \in CacheType /\ {cache'.table, cache'.revision, cache'.event.table,
                                        cache'.tick.table} \subseteq P
    BY <1>1, <1>2, <1>8, ZenonT(40) DEF B!PushRevision, B!Pushers, CacheType, Push
  <1>9. ASSUME NEW who \in B!Pushers, B!SetReservations(who)
        PROVE  /\ cache' \in CacheType /\ {cache'.table, cache'.revision, cache'.event.table,
                                           cache'.tick.table} \subseteq P
               /\ sink' \in SinkType /\ sink'.table \in P
    <2>1. B!IdlePush \in Push /\ B!IdlePush.table = 1 /\ 1 \in P
      BY DEF B!IdlePush, Push, BootdInv, CopiesInv
    <2>2. cache' = [cache EXCEPT ![who] = B!IdlePush, !.pc = IF @ = "first" THEN "synced" ELSE @]
      BY <1>9, Zenon DEF B!SetReservations
    <2>3. /\ cache' \in CacheType
          /\ {cache'.table, cache'.revision, cache'.event.table, cache'.tick.table} \subseteq P
      BY <1>2, <2>1, <2>2, Zenon DEF B!Pushers, CacheType
    <2>4. cache[who].table \in P
      BY <1>2 DEF B!Pushers
    <2>5. sink' = [sink EXCEPT !.table = cache[who].table, !.revSet = TRUE, !.dirty = TRUE]
      BY <1>9, Zenon DEF B!SetReservations
    <2>6. sink' \in SinkType /\ sink'.table \in P
      BY <1>1, <1>2, <2>4, <2>5, Zenon DEF SinkType
    <2>7. QED
      BY <2>3, <2>6
  <1>10. QED
    BY <1>2, <1>4, <1>5, <1>6, <1>7, <1>8, <1>9, Zenon DEF B!Caches, B!PushRevision, B!SetReservations

\* A rewritten file is that of the sink's table, at the position the loop takes over.
LEMMA TickKeeps ==
    ASSUME BootdInv, B!HostsfileTick
    PROVE  BootdInv'
  <1> DEFINE content == B!RenderHostsfile(sink.macs, history[sink.table])
             known == content = dns.file /\ loop.confirmed
  <1>1. /\ loop' = [loop EXCEPT !.pc = IF known THEN "ack" ELSE "wait", !.table = sink.table,
                               !.revSet = sink.revSet, !.confirmed = known]
        /\ dns' = IF known THEN dns
                  ELSE [dns EXCEPT !.file = content, !.seen = FALSE, !.hup = @ \/ dns.child = "up"]
        /\ sink' = [sink EXCEPT !.dirty = FALSE]
        /\ UNCHANGED <<history, applied, allowed, cache>>
    BY DEF B!HostsfileTick
  <1>2. sink \in SinkType /\ sink.table \in DOMAIN history /\ history \in Seq(B!Table)
    BY DEF BootdInv, CopiesInv
  <1>3. sink.macs \in SUBSET MACs /\ history[sink.table] \in B!Table
    BY <1>2 DEF SinkType
  <1>4. /\ content \in Hostsfile
        /\ \A mac \in DOMAIN content : content[mac] = history[sink.table][mac]
    BY <1>3, RenderFacts
  <1> HIDE DEF content
  <1>5. sink' \in SinkType /\ sink'.table = sink.table
    BY <1>1, <1>2, Zenon DEF SinkType
  <1>6. loop' \in LoopType /\ loop'.table = sink.table
    BY <1>1, <1>2, Zenon DEF LoopType, SinkType, BootdInv, CopiesInv
  <1>7. dns' \in DnsType /\ dns'.file = content
    BY <1>1, <1>4, Zenon DEF DnsType, BootdInv, CopiesInv
  <1>8. FileInv'
    BY <1>1, <1>4, <1>6, <1>7 DEF FileInv
  <1>9. QED
    BY <1>1, <1>2, <1>5, <1>6, <1>7, <1>8 DEF BootdInv, CopiesInv

\* Between rewrites the loop keeps its table, and the file stays.
LEMMA LoopKeeps ==
    ASSUME BootdInv, B!HostsfileLoop
    PROVE  BootdInv'
  <1>1. CASE B!HostsfileTick
    BY <1>1, TickKeeps
  <1>2. CASE B!HostsfileTickNoChild
    <2> DEFINE content == B!RenderHostsfile(sink.macs, history[sink.table])
    <2>1. /\ loop.pc = "idle" /\ loop' = [loop EXCEPT !.confirmed = FALSE]
          /\ dns' = [dns EXCEPT !.file = content]
          /\ UNCHANGED <<history, applied, allowed, cache, sink>>
      BY <1>2 DEF B!HostsfileTickNoChild
    <2>2. sink \in SinkType /\ sink.table \in DOMAIN history /\ history \in Seq(B!Table)
      BY DEF BootdInv, CopiesInv
    <2>3. content \in Hostsfile
      <3>1. sink.macs \in SUBSET MACs /\ history[sink.table] \in B!Table
        BY <2>2 DEF SinkType
      <3>2. QED
        BY <3>1, RenderFacts
    <2> HIDE DEF content
    <2>4. loop' \in LoopType /\ loop'.table = loop.table /\ loop'.pc = "idle"
      BY <2>1, Zenon DEF LoopType, BootdInv, CopiesInv
    <2>5. dns' \in DnsType
      BY <2>1, <2>3 DEF DnsType, BootdInv, CopiesInv
    <2>6. QED
      BY <2>1, <2>4, <2>5 DEF BootdInv, CopiesInv, FileInv
  <1>3. CASE B!ReloadConfirmed \/ B!Acknowledge \/ B!PatchAppliedRevision
    <2>1. /\ loop.pc # "idle" /\ UNCHANGED <<history, allowed, cache, sink, dns>>
          /\ applied' \in {applied, loop.table}
      BY <1>3 DEF B!ReloadConfirmed, B!Acknowledge, B!PatchAppliedRevision
    <2>2. loop \in LoopType
      BY DEF BootdInv, CopiesInv
    <2>3. loop' \in LoopType /\ loop'.table = loop.table
      BY <1>3, <2>2, ZenonT(40) DEF B!ReloadConfirmed, B!Acknowledge, B!PatchAppliedRevision, LoopType
    <2>4. applied' \in Nat
      BY <2>1, <2>2 DEF LoopType, BootdInv, CopiesInv
    <2>5. QED
      BY <2>1, <2>3, <2>4 DEF BootdInv, CopiesInv, FileInv
  <1>4. QED
    BY <1>1, <1>2, <1>3 DEF B!HostsfileLoop

\* The child never writes the file.
LEMMA ChildKeeps ==
    ASSUME BootdInv, B!Child \/ B!ChildExits
    PROVE  BootdInv'
  <1>1. UNCHANGED <<history, applied, allowed, cache, sink, loop>>
    BY DEF B!Child, B!StartChild, B!HandleSighup, B!NoteHostsfileRead, B!ReapChild, B!ChildExits
  <1>2. dns \in DnsType /\ dns.lines \in Nat /\ dns.file \in Hostsfile
    BY DEF BootdInv, CopiesInv, DnsType
  <1>3. dns' \in DnsType /\ dns'.file = dns.file
    <2>1. CASE B!StartChild
      <3>1. /\ dns.lines + 1 \in Nat
            /\ dns' = [dns EXCEPT !.child = "up", !.served = dns.file, !.hup = FALSE,
                                  !.lines = dns.lines + 1]
        BY <1>2, <2>1 DEF B!StartChild
      <3>2. QED
        BY <1>2, <3>1, Zenon DEF DnsType
    <2>2. CASE B!HandleSighup
      <3>1. /\ dns.lines + 1 \in Nat
            /\ dns' = [dns EXCEPT !.served = dns.file, !.hup = FALSE, !.lines = dns.lines + 1]
        BY <1>2, <2>2 DEF B!HandleSighup
      <3>2. QED
        BY <1>2, <3>1, Zenon DEF DnsType
    <2>3. CASE B!NoteHostsfileRead
      <3>1. /\ dns.lines - 1 \in Nat
            /\ dns' = [dns EXCEPT !.lines = dns.lines - 1, !.seen = TRUE]
        BY <1>2, <2>3 DEF B!NoteHostsfileRead
      <3>2. QED
        BY <1>2, <3>1, Zenon DEF DnsType
    <2>4. CASE B!ReapChild \/ B!ChildExits
      BY <1>2, <2>4, Zenon DEF B!ReapChild, B!ChildExits, DnsType
    <2>5. QED
      BY <2>1, <2>2, <2>3, <2>4 DEF B!Child
  <1>4. QED
    BY <1>1, <1>3 DEF BootdInv, CopiesInv, FileInv

\* A fault ends an iteration, or everything.
LEMMA FaultsKeep ==
    ASSUME BootdInv, B!Faults
    PROVE  BootdInv'
  <1>1. CASE B!HostsfileWriteFails
    <2>1. UNCHANGED <<history, applied, allowed, cache, loop, dns>>
      BY <1>1 DEF B!HostsfileWriteFails
    <2>2. sink' \in SinkType /\ sink'.table = sink.table
      BY <1>1, Zenon DEF B!HostsfileWriteFails, SinkType, BootdInv, CopiesInv
    <2>3. QED
      BY <2>1, <2>2 DEF BootdInv, CopiesInv, FileInv
  <1>2. CASE B!ReloadTimeout \/ B!PatchFails
    <2>1. UNCHANGED <<history, applied, allowed, cache, dns>>
      BY <1>2 DEF B!ReloadTimeout, B!PatchFails
    <2>2. sink' \in SinkType /\ sink'.table = sink.table
      BY <1>2, Zenon DEF B!ReloadTimeout, B!PatchFails, SinkType, BootdInv, CopiesInv
    <2>3. loop' \in LoopType /\ loop'.table = loop.table /\ loop'.pc = "idle"
      BY <1>2 DEF B!ReloadTimeout, B!PatchFails, LoopType, BootdInv, CopiesInv
    <2>4. QED
      BY <2>1, <2>2, <2>3 DEF BootdInv, CopiesInv, FileInv
  <1>3. CASE B!ChildExits
    BY <1>3, ChildKeeps
  <1>4. CASE B!RestartBootd
    <2>1. /\ cache' = B!NewCache /\ sink' = B!NewSink /\ loop' = B!NewLoop /\ dns' = B!NewDns
          /\ UNCHANGED <<history, applied, allowed>>
      BY <1>4 DEF B!RestartBootd
    <2>2. 1 \in DOMAIN history
      BY DEF BootdInv, CopiesInv
    <2>3. QED
      BY <2>1, <2>2, FreshPod, Zenon DEF BootdInv, CopiesInv, FileInv
  <1>5. QED
    BY <1>1, <1>2, <1>3, <1>4 DEF B!Faults

\* Every copy stays one of the manager's tables, and the file that of the loop's.
LEMMA InvariantHolds == B!Spec => []BootdInv
  <1>1. B!Init => BootdInv
    <2>1. ASSUME B!Init PROVE BootdInv
      <3>1. history \in Seq(B!Table) /\ history # <<>> /\ DOMAIN history = {1}
        BY <2>1 DEF B!Init, B!EmptyTable, B!Table
      <3>2. QED
        BY <2>1, <3>1, FreshPod DEF B!Init, BootdInv, CopiesInv, FileInv
    <2>2. QED
      BY <2>1
  <1>2. BootdInv /\ [B!Next]_(B!vars) => BootdInv'
    <2>1. ASSUME BootdInv, B!Enrol PROVE BootdInv'
      BY <2>1 DEF B!Enrol, BootdInv, CopiesInv, FileInv
    <2>2. ASSUME BootdInv, UNCHANGED B!vars PROVE BootdInv'
      BY <2>2 DEF B!vars, BootdInv, CopiesInv, FileInv
    <2>3. QED
      BY <2>1, <2>2, WriteKeeps, CachesKeep, LoopKeeps, ChildKeeps, FaultsKeep DEF B!Next
  <1>3. QED
    BY <1>1, <1>2, PTL DEF B!Spec

\* When bootd acknowledges a table, the hostsfile on disk was rendered from it, whatever was
\* pushed, requeued, timed out or restarted meanwhile, for any number of tables and faults.
THEOREM AcknowledgementsAreOnDisk == B!Spec => B!AcknowledgesWhatIsOnDisk
  <1>1. ASSUME BootdInv, [B!Next]_(B!vars), applied' # applied
        PROVE  \A mac \in DOMAIN dns.file : dns.file[mac] = history[applied'][mac]
    <2>1. B!PatchAppliedRevision
      BY <1>1, Zenon DEF B!Next, B!vars, B!WriteTable, B!Enrol, B!Caches, B!PushAllowedMACs, B!StartSubnetCache,
                  B!DeliverSubnet, B!ResyncTick, B!PushRevision, B!SetReservations, B!HostsfileLoop,
                  B!HostsfileTick, B!HostsfileTickNoChild, B!ReloadConfirmed, B!Acknowledge, B!Child,
                  B!StartChild, B!HandleSighup, B!NoteHostsfileRead, B!ReapChild, B!Faults,
                  B!HostsfileWriteFails, B!ReloadTimeout, B!PatchFails, B!ChildExits, B!RestartBootd
    <2>2. QED
      BY <1>1, <2>1 DEF B!PatchAppliedRevision, BootdInv, FileInv
  <1>2. QED
    BY <1>1, InvariantHolds, PTL DEF B!Spec, B!AcknowledgesWhatIsOnDisk

(***************************************************************************)
(* The seeders at the Sites, for any Machines, Sites, grace period and     *)
(* bounds: a Deployment that a reconcile has served during its countdown   *)
(* is not deleted at the end of that countdown.                            *)
(*                                                                         *)
(* GraceInv is the argument.  A reconcile that sees demand either cancels  *)
(* the countdown it sees or, having read an old stamp, says so; what it    *)
(* lists is the Deployment that exists or an earlier state of it, because  *)
(* a new one is only created when nothing is listed; and what it does not  *)
(* list it has never stamped.                                              *)
(***************************************************************************)
CONSTANTS Sites, SiteOf, Grace, MaxClaims, MaxMishaps, MaxLag, SeederImage, None

VARIABLES obj, cached, site, dep, queued, timer, broken, used

S == INSTANCE Seeding WITH seen <- cached, spent <- used

\* What Seeding assumes of its constants.
SeedingConstants == Grace \in Nat \ {0} /\ None \notin S!Deployment

Deployments == S!Deployment \cup {None}
SiteShape == [seeds : BOOLEAN, ip : 0..2, url : 0..2]

Used == [claims : Nat, edits : Nat, mishaps : Nat, edited : SUBSET Sites, stale : BOOLEAN]

SeedingShape ==
    /\ dep \in [Sites -> Deployments]
    /\ cached = [obj |-> cached.obj, dep |-> cached.dep] /\ cached.dep \in [Sites -> Deployments]
    /\ site \in [Sites -> SiteShape]
    /\ broken \subseteq Sites
    /\ used \in Used

\* d, under the name of the seeder at s, is what the cache lists or came after it.
LinkedTo(s, d) ==
    S!Listed(s) # None /\ d # None => d.owner = "image" /\ (S!Listed(s).deleting => d.deleting)

\* What the cache does not list yet carries no stamp.
UnstampedBy(s, d) == S!Listed(s) = None /\ d # None /\ d.owner = "image" => d.empty = -1

\* d is not a seeder of the Image that is meant to stay.
Leaving(d) == d = None \/ d.deleting \/ d.owner # "image"

GraceInv ==
    /\ SeedingShape
    /\ \A s \in Sites : LinkedTo(s, dep[s]) /\ UnstampedBy(s, dep[s])
    /\ used.stale \/ \A s \in broken : Leaving(dep[s])

\* The reconcile of one Site read an old stamp.
ReadsOld(s) ==
    s \in S!Wanted /\ S!Listed(s) # None /\ dep[s] # None /\ S!Listed(s).empty # dep[s].empty

\* What a reconcile may leave at a Site.
Reconciled(s, d) ==
    /\ d \in Deployments /\ LinkedTo(s, d) /\ UnstampedBy(s, d)
    /\ (s \in S!Wanted \/ Leaving(dep[s])) /\ ~ReadsOld(s) /\ d # None /\ d.empty # -1
          => Leaving(d)

\* A reconcile that leaves the Deployment alone.
LEMMA LeftAlone ==
    ASSUME SeedingConstants, GraceInv, NEW s \in Sites,
           \/ S!Listed(s) = None
           \/ S!Listed(s).deleting
           \/ s \notin S!Wanted
    PROVE  Reconciled(s, dep[s])
<1>1. dep[s] \in Deployments /\ LinkedTo(s, dep[s]) /\ UnstampedBy(s, dep[s])
    BY DEF GraceInv, SeedingShape
<1>2. ASSUME s \in S!Wanted, dep[s] # None, dep[s].empty # -1
      PROVE  Leaving(dep[s])
    BY <1>1, <1>2 DEF LinkedTo, UnstampedBy, Leaving
<1> QED
    BY <1>1, <1>2 DEF Reconciled

\* A reconcile that serves the demand at the Site.
LEMMA Served ==
    ASSUME SeedingConstants, GraceInv, NEW s \in Sites, S!Listed(s) # None, dep[s] # None, s \in S!Wanted
    PROVE  Reconciled(s, S!Cancelled(s, S!Placed(s, dep[s])))
<1> DEFINE p == S!Placed(s, dep[s])
           d == S!Cancelled(s, p)
<1>1. /\ dep[s] \in S!Deployment /\ site[s].url \in 0..2
      /\ dep[s].owner = "image" /\ (S!Listed(s).deleting => dep[s].deleting)
    BY DEF GraceInv, SeedingShape, Deployments, SiteShape, LinkedTo
<1>2. /\ p \in S!Deployment /\ p.owner = dep[s].owner /\ p.deleting = dep[s].deleting
      /\ p.empty = dep[s].empty
    BY <1>1, Zenon DEF S!Placed, S!Deployment
<1> HIDE DEF p
<1>3. /\ d \in S!Deployment /\ d.owner = p.owner /\ d.deleting = p.deleting
      /\ d.empty = IF S!Listed(s).empty = -1 THEN p.empty ELSE -1
    BY <1>2 DEF S!Cancelled, S!Deployment, SeedingConstants
<1> HIDE DEF d
<1>4. LinkedTo(s, d) /\ UnstampedBy(s, d) /\ d \in Deployments
    BY <1>1, <1>2, <1>3 DEF LinkedTo, UnstampedBy, Deployments
<1>5. ~ReadsOld(s) => d.empty = -1
    BY <1>2, <1>3 DEF ReadsOld
<1> QED
    BY <1>4, <1>5 DEF Reconciled, d, p

\* A reconcile that creates, shuts down or finds nothing.
LEMMA SiteStepFacts ==
    ASSUME SeedingConstants, GraceInv, NEW s \in Sites
    PROVE  \/ Reconciled(s, S!SiteStep(s).dep)
           \/ S!SiteStep(s).err /\ S!SiteStep(s).dep = dep[s]
<1> DEFINE l == S!Listed(s)
<1>0. dep[s] \in Deployments /\ site[s].url \in 0..2
    BY DEF GraceInv, SeedingShape, SiteShape
<1>1. CASE l = None
    <2>1. CASE s \in S!Wanted /\ SeederImage /\ dep[s] = None
        <3>1. S!SiteStep(s).dep = S!NewDeployment(s)
            BY <1>1, <2>1 DEF S!Step, S!SiteStep, S!Create
        <3>2. /\ S!NewDeployment(s) \in S!Deployment /\ S!NewDeployment(s).empty = -1
            BY <1>0 DEF S!NewDeployment, S!Deployment, S!Owner, SeedingConstants
        <3>3. Reconciled(s, S!NewDeployment(s))
            BY <1>1, <3>2 DEF Reconciled, LinkedTo, UnstampedBy, Deployments
        <3> QED
            BY <3>1, <3>3
    <2>2. CASE ~(s \in S!Wanted /\ SeederImage /\ dep[s] = None)
        <3>1. S!SiteStep(s).dep = dep[s]
            BY <1>1, <2>2 DEF S!Step, S!SiteStep, S!Create
        <3> QED
            BY <1>1, <3>1, LeftAlone
    <2> QED
        BY <2>1, <2>2
<1>2. CASE l # None /\ l.deleting
    <2>1. S!SiteStep(s).dep = dep[s]
        BY <1>2 DEF S!Step, S!SiteStep
    <2> QED
        BY <1>2, <2>1, LeftAlone
<1>3. CASE l # None /\ ~l.deleting /\ s \in S!Wanted
    <2>1. S!SiteStep(s) = S!Serve(s)
        BY <1>3 DEF S!SiteStep
    <2>2. CASE dep[s] = None
        <3>1. S!Serve(s) = S!Step(None, None, "none", TRUE)
            BY <2>2 DEF S!Serve
        <3> QED
            BY <2>1, <2>2, <3>1 DEF S!Step
    <2>3. CASE dep[s] # None
        <3>1. S!SiteStep(s).dep = S!Cancelled(s, S!Placed(s, dep[s]))
            BY <2>1, <2>3 DEF S!Step, S!Serve
        <3> QED
            BY <1>3, <2>3, <3>1, Served
    <2> QED
        BY <2>2, <2>3
<1>4. CASE l # None /\ ~l.deleting /\ s \notin S!Wanted
    <2>1. S!SiteStep(s) = S!Shutdown(s)
        BY <1>4 DEF S!SiteStep
    <2>2. CASE S!Shutdown(s).dep = dep[s]
        BY <1>4, <2>1, <2>2, LeftAlone
    <2>3. CASE S!Shutdown(s).dep = None
        BY <1>4, <2>1, <2>3 DEF Reconciled, LinkedTo, UnstampedBy, Deployments
    <2>4. CASE dep[s] # None /\ S!Shutdown(s).dep = [dep[s] EXCEPT !.empty = 0]
        <3> DEFINE d == [dep[s] EXCEPT !.empty = 0]
        <3>1. dep[s].owner = "image"
            BY <1>4, <2>4 DEF GraceInv, LinkedTo
        <3>2. d \in S!Deployment /\ d.owner = "image" /\ d.deleting = dep[s].deleting
            BY <1>0, <2>4, <3>1 DEF Deployments, S!Deployment, SeedingConstants
        <3> HIDE DEF d
        <3>3. Reconciled(s, d)
            BY <1>4, <2>4, <3>1, <3>2 DEF Reconciled, LinkedTo, UnstampedBy, Deployments, Leaving
        <3> QED
            BY <2>1, <2>4, <3>3 DEF d
    <2>5. \/ S!Shutdown(s).dep \in {dep[s], None}
          \/ dep[s] # None /\ S!Shutdown(s).dep = [dep[s] EXCEPT !.empty = 0]
        BY DEF S!Step, S!Shutdown
    <2> QED
        BY <2>2, <2>3, <2>4, <2>5
<1> QED
    BY <1>1, <1>2, <1>3, <1>4

\* What a reconcile writes keeps the invariant, whichever calls fail.
LEMMA ReconcileKeepsGrace ==
    ASSUME SeedingConstants, GraceInv, NEW fails \in SUBSET Sites, S!ReconcileImage(fails)
    PROVE  GraceInv'
<1> DEFINE st == [s \in Sites |-> IF s \in fails THEN S!Step(dep[s], None, "none", TRUE)
                                  ELSE S!SiteStep(s)]
           old == \E s \in S!Wanted : /\ S!Listed(s) # None /\ dep[s] # None
                                      /\ S!Listed(s).empty # dep[s].empty
<1>1. /\ UNCHANGED <<obj, cached, site>>
      /\ dep' = [s \in Sites |-> st[s].dep]
      /\ broken' = {s \in Sites : /\ st[s].dep # None /\ st[s].dep.empty # -1
                                  /\ s \in broken \/ (s \in S!Wanted /\ ~st[s].err)}
      /\ used' = [used EXCEPT !.mishaps = IF fails = {} THEN @ ELSE @ + 1, !.stale = @ \/ old]
    BY DEF S!ReconcileImage
<1>2. ASSUME NEW s \in Sites
      PROVE  Reconciled(s, st[s].dep) \/ (st[s].err /\ st[s].dep = dep[s])
    <2>1. CASE s \in fails
        <3>1. st[s] = S!Step(dep[s], None, "none", TRUE)
            BY <2>1
        <3> QED
            BY <3>1 DEF S!Step
    <2>2. CASE s \notin fails
        BY <2>2, SiteStepFacts
    <2> QED
        BY <2>1, <2>2, Zenon
<1>3. used' \in Used /\ used'.stale = (used.stale \/ old)
    <2>1. used \in Used
        BY DEF GraceInv, SeedingShape
    <2>2. PICK b \in BOOLEAN : b = (used.stale \/ old)
        BY <2>1, Zenon DEF Used
    <2>3. PICK n \in Nat : n = IF fails = {} THEN used.mishaps ELSE used.mishaps + 1
        BY <2>1 DEF Used
    <2>4. used' = [used EXCEPT !.mishaps = n, !.stale = b]
        BY <1>1, <2>2, <2>3
    <2> HIDE DEF old
    <2> QED
        BY <2>1, <2>2, <2>4, Zenon DEF Used
<1> HIDE DEF st
<1>4. \A s \in Sites : dep'[s] = st[s].dep /\ dep'[s] \in Deployments
    BY <1>1, <1>2 DEF GraceInv, SeedingShape, Reconciled
<1>5. SeedingShape'
    BY <1>1, <1>3, <1>4 DEF GraceInv, SeedingShape
<1>6. \A s \in Sites : S!Listed(s)' = S!Listed(s)
    BY <1>1 DEF S!Listed
<1>7. \A s \in Sites : LinkedTo(s, dep'[s]) /\ UnstampedBy(s, dep'[s])
    BY <1>2, <1>4 DEF Reconciled, GraceInv
<1>8. \A s \in Sites : LinkedTo(s, dep[s])' /\ UnstampedBy(s, dep[s])'
    BY <1>6, <1>7 DEF LinkedTo, UnstampedBy
<1>9. ASSUME ~used'.stale, NEW s \in broken'
      PROVE  Leaving(dep'[s])
    <2>1. /\ s \in Sites /\ st[s].dep # None /\ st[s].dep.empty # -1
          /\ s \in broken \/ (s \in S!Wanted /\ ~st[s].err)
        BY <1>1, <1>9
    <2>2. ~ReadsOld(s) /\ (s \in broken => Leaving(dep[s]))
        BY <1>3, <1>9, Zenon DEF ReadsOld, GraceInv
    <2>3. CASE Reconciled(s, st[s].dep)
        BY <1>4, <2>1, <2>2, <2>3 DEF Reconciled
    <2>4. CASE st[s].err /\ st[s].dep = dep[s]
        BY <1>4, <2>1, <2>2, <2>4
    <2> QED
        BY <1>2, <2>1, <2>3, <2>4
<1> QED
    BY <1>5, <1>8, <1>9 DEF GraceInv, Leaving

\* A step that leaves the record of stale reads alone.
UsedStays == used' \in Used /\ used'.stale = used.stale

\* What users, mishaps and bounds count.
LEMMA UsedFacts ==
    ASSUME GraceInv
    PROVE  /\ UNCHANGED used => UsedStays
           /\ S!Mishap => UsedStays
           /\ \A X \in SUBSET Sites : S!Edit(X) => UsedStays
           /\ used' = [used EXCEPT !.claims = @ + 1] => UsedStays
<1>1. used \in Used
    BY DEF GraceInv, SeedingShape
<1>2. ASSUME NEW X \in SUBSET Sites, S!Edit(X)
      PROVE  UsedStays
    <2>1. PICK e \in SUBSET Sites : e = used.edited \cup X
        BY <1>1, Zenon DEF Used
    <2>2. PICK n \in Nat : n = used.edits + 1
        BY <1>1 DEF Used
    <2>3. used' = [used EXCEPT !.edits = n, !.edited = e]
        BY <1>2, <2>1, <2>2 DEF S!Edit
    <2> QED
        BY <1>1, <2>3, Zenon DEF UsedStays, Used
<1> QED
    BY <1>1, <1>2 DEF UsedStays, Used, S!Mishap

\* Steps that touch no Deployment, stored or cached.
LEMMA FrameKeepsGrace ==
    ASSUME GraceInv, UNCHANGED <<dep, broken>>, UsedStays,
           cached' = [obj |-> cached'.obj, dep |-> cached.dep], site' \in [Sites -> SiteShape]
    PROVE  GraceInv'
<1>1. cached'.dep = cached.dep
    OBVIOUS
<1>2. \A s \in Sites : S!Listed(s)' = S!Listed(s)
    BY <1>1 DEF S!Listed
<1>3. SeedingShape'
    BY <1>1 DEF GraceInv, SeedingShape, UsedStays
<1>4. \A s \in Sites : LinkedTo(s, dep[s])' /\ UnstampedBy(s, dep[s])'
    BY <1>2 DEF LinkedTo, UnstampedBy, GraceInv
<1> QED
    BY <1>3, <1>4 DEF GraceInv, Leaving, UsedStays

\* A Deployment that others change, or remove, once the cache shows it.
LEMMA ChangeDepKeepsGrace ==
    ASSUME SeedingConstants, GraceInv, NEW s \in Sites, NEW d \in Deployments, S!ChangeDep(s, d),
           dep[s] # None, UsedStays,
           d # None => d.owner = dep[s].owner /\ (dep[s].deleting => d.deleting)
    PROVE  GraceInv'
<1>1. /\ UNCHANGED <<cached, site, broken>> /\ cached.dep[s] = dep[s]
      /\ dep' = [dep EXCEPT ![s] = d]
    BY DEF S!ChangeDep
<1>2. \A t \in Sites : S!Listed(t)' = S!Listed(t)
    BY <1>1 DEF S!Listed
<1>3. dep \in [Sites -> Deployments]
    BY DEF GraceInv, SeedingShape
<1>4. dep' \in [Sites -> Deployments] /\ \A t \in Sites : dep'[t] = IF t = s THEN d ELSE dep[t]
    BY <1>1, <1>3
<1>5. SeedingShape'
    BY <1>1, <1>4 DEF GraceInv, SeedingShape, UsedStays
<1>6. LinkedTo(s, d) /\ UnstampedBy(s, d)
    BY <1>1 DEF LinkedTo, UnstampedBy, S!Listed
<1>7. \A t \in Sites : LinkedTo(t, dep'[t]) /\ UnstampedBy(t, dep'[t])
    BY <1>4, <1>6 DEF GraceInv
<1>8. \A t \in Sites : LinkedTo(t, dep[t])' /\ UnstampedBy(t, dep[t])'
    BY <1>2, <1>7 DEF LinkedTo, UnstampedBy
<1>9. \A t \in Sites : Leaving(dep[t]) => Leaving(dep'[t])
    BY <1>4 DEF Leaving
<1> QED
    BY <1>1, <1>5, <1>8, <1>9 DEF GraceInv, Leaving, SeedingShape, UsedStays

\* The cache catches up, at some Sites.
LEMMA CacheKeepsGrace ==
    ASSUME GraceInv, UNCHANGED <<dep, site, broken>>, UsedStays,
           cached' = [obj |-> cached'.obj, dep |-> cached'.dep],
           cached'.dep \in [Sites -> Deployments],
           \A s \in Sites : cached'.dep[s] \in {cached.dep[s], dep[s]}
    PROVE  GraceInv'
<1>1. SeedingShape'
    BY DEF GraceInv, SeedingShape, UsedStays
<1>2. ASSUME NEW s \in Sites
      PROVE  LinkedTo(s, dep[s])' /\ UnstampedBy(s, dep[s])'
    <2>1. CASE cached'.dep[s] = cached.dep[s]
        <3>1. S!Listed(s)' = S!Listed(s)
            BY <2>1 DEF S!Listed
        <3> QED
            BY <3>1 DEF GraceInv, LinkedTo, UnstampedBy
    <2>2. CASE cached'.dep[s] = dep[s]
        BY <2>2 DEF S!Listed, LinkedTo, UnstampedBy
    <2> QED
        BY <2>1, <2>2
<1> QED
    BY <1>1, <1>2 DEF GraceInv, Leaving, UsedStays

\* A stamp grows older in the store and in the cache alike.
LEMMA OlderFacts ==
    ASSUME SeedingConstants, NEW d \in Deployments
    PROVE  /\ S!Older(d) \in Deployments /\ (S!Older(d) = None <=> d = None)
           /\ d # None => /\ S!Older(d).owner = d.owner /\ S!Older(d).deleting = d.deleting
                          /\ d.empty = -1 => S!Older(d).empty = -1
<1>1. CASE d # None /\ d.empty \in 0..(Grace - 1)
    <2>1. d \in S!Deployment /\ d.empty + 1 \in -1..Grace
        BY <1>1 DEF Deployments, SeedingConstants
    <2>2. S!Older(d) = [d EXCEPT !.empty = d.empty + 1]
        BY <1>1 DEF S!Older
    <2>3. /\ S!Older(d) \in S!Deployment
          /\ S!Older(d).owner = d.owner /\ S!Older(d).deleting = d.deleting
        BY <2>1, <2>2 DEF S!Deployment
    <2> QED
        BY <1>1, <2>3 DEF Deployments, SeedingConstants
<1>2. CASE ~(d # None /\ d.empty \in 0..(Grace - 1))
    BY <1>2 DEF S!Older
<1> QED
    BY <1>1, <1>2

LEMMA TickKeepsGrace ==
    ASSUME SeedingConstants, GraceInv, S!Tick
    PROVE  GraceInv'
<1>0. dep \in [Sites -> Deployments] /\ cached.dep \in [Sites -> Deployments]
    BY DEF GraceInv, SeedingShape
<1>1. /\ UNCHANGED <<site, broken, used>> /\ dep' = [s \in Sites |-> S!Older(dep[s])]
      /\ cached' = [cached EXCEPT !.dep = [s \in Sites |-> S!Older(cached.dep[s])]]
    BY DEF S!Tick
<1>2. \A s \in Sites : /\ dep'[s] = S!Older(dep[s]) /\ dep'[s] \in Deployments
                       /\ S!Older(cached.dep[s]) \in Deployments
    BY <1>0, <1>1, OlderFacts
<1>3. PICK c \in [Sites -> Deployments] : c = [s \in Sites |-> S!Older(cached.dep[s])]
    BY <1>2, Zenon
<1>4. cached' = [obj |-> cached.obj, dep |-> c]
    BY <1>1, <1>3 DEF GraceInv, SeedingShape
<1>5. SeedingShape'
    BY <1>1, <1>2, <1>4 DEF GraceInv, SeedingShape
<1>6. ASSUME NEW s \in Sites
      PROVE  /\ LinkedTo(s, dep[s])' /\ UnstampedBy(s, dep[s])'
             /\ Leaving(dep[s]) => Leaving(dep'[s])
    <2>1. PICK d \in Deployments, l \in Deployments : d = dep[s] /\ l = cached.dep[s]
        BY <1>0
    <2>2. PICK d1 \in Deployments, l1 \in Deployments : d1 = S!Older(d) /\ l1 = S!Older(l)
        BY OlderFacts
    <2>3. dep'[s] = d1 /\ cached'.dep[s] = l1
        BY <1>2, <1>3, <1>4, <2>1, <2>2
    <2>4. /\ d1 = None <=> d = None
          /\ d # None => /\ d1.owner = d.owner /\ d1.deleting = d.deleting
                         /\ d.empty = -1 => d1.empty = -1
          /\ l1 = None <=> l = None
          /\ l # None => l1.owner = l.owner /\ l1.deleting = l.deleting
        BY <2>2, OlderFacts
    <2>5. LinkedTo(s, dep[s]) /\ UnstampedBy(s, dep[s])
        BY DEF GraceInv
    <2> QED
        BY <2>1, <2>3, <2>4, <2>5, Zenon DEF LinkedTo, UnstampedBy, Leaving, S!Listed
<1> QED
    BY <1>1, <1>5, <1>6 DEF GraceInv, SeedingShape, Leaving

\* Users, controllers and watches that touch no Deployment.
LEMMA WorldKeepsGrace ==
    ASSUME GraceInv,
           \/ S!World \/ S!TimerFires
           \/ \E m \in Machines : S!ClaimEvent(m) \/ S!MachineEvent(m) \/ S!RunEvent(m)
           \/ \E s \in Sites : S!RecordTracker(s) \/ \E ip \in 0..2 : S!EditSite(s, ip)
    PROVE  GraceInv'
<1>0. /\ cached = [obj |-> cached.obj, dep |-> cached.dep] /\ site \in [Sites -> SiteShape]
      /\ used \in Used
    BY DEF GraceInv, SeedingShape
<1>1. CASE S!World \/ S!TimerFires
    <2>1. UNCHANGED <<dep, broken, cached, site>>
        BY <1>1, ZenonT(40) DEF S!World, S!TimerFires, S!CreateClaim, S!Bind, S!StartRun, S!EndRun, S!RecordRun,
                    S!FailRun, S!EditClaim, S!DeleteClaim, S!Unbind, S!RemoveClaim, S!Write
    <2>2. \/ UNCHANGED used \/ S!Mishap \/ S!Edit({})
          \/ used' = [used EXCEPT !.claims = @ + 1]
        BY <1>1, Zenon DEF S!World, S!TimerFires, S!CreateClaim, S!Bind, S!StartRun, S!EndRun, S!RecordRun,
                    S!FailRun, S!EditClaim, S!DeleteClaim, S!Unbind, S!RemoveClaim
    <2>3. UsedStays
        BY <2>2, UsedFacts
    <2> QED
        BY <1>0, <2>1, <2>3, FrameKeepsGrace
<1>2. CASE \E m \in Machines : S!ClaimEvent(m) \/ S!MachineEvent(m) \/ S!RunEvent(m)
    <2>1. UNCHANGED <<dep, broken, site, used>>
        BY <1>2, Zenon DEF S!ClaimEvent, S!MachineEvent, S!RunEvent, S!Deliver
    <2>2. PICK m \in Machines : S!ClaimEvent(m) \/ S!MachineEvent(m) \/ S!RunEvent(m)
        BY <1>2
    <2>3. PICK a, b : cached = [obj |-> a, dep |-> b]
        BY <1>0
    <2>4. cached' = [obj |-> cached'.obj, dep |-> b]
        <3>1. CASE S!ClaimEvent(m)
            <4>1. cached' = [cached EXCEPT !.obj[m].claim = obj[m].claim]
                BY <3>1 DEF S!ClaimEvent, S!Deliver
            <4> QED
                BY <2>3, <4>1
        <3>2. CASE S!MachineEvent(m)
            <4>1. cached' = [cached EXCEPT !.obj[m].bound = obj[m].bound,
                                           !.obj[m].state = obj[m].state, !.obj[m].last = obj[m].last]
                BY <3>2, Zenon DEF S!MachineEvent, S!Deliver
            <4> QED
                BY <2>3, <4>1, Zenon
        <3>3. CASE S!RunEvent(m)
            <4>1. cached' = [cached EXCEPT !.obj[m].run = obj[m].run, !.obj[m].active = obj[m].active]
                BY <3>3, Zenon DEF S!RunEvent, S!Deliver
            <4> QED
                BY <2>3, <4>1, Zenon
        <3> QED
            BY <2>2, <3>1, <3>2, <3>3
    <2>5. cached' = [obj |-> cached'.obj, dep |-> cached.dep]
        BY <2>3, <2>4
    <2> QED
        BY <1>0, <2>1, <2>5, UsedFacts, FrameKeepsGrace
<1>3. ASSUME NEW s \in Sites, S!RecordTracker(s) \/ \E ip \in 0..2 : S!EditSite(s, ip)
      PROVE  GraceInv'
    <2>1. PICK r : S!ChangeSite(s, r) /\ r \in SiteShape
        <3>1. site[s] \in SiteShape
            BY <1>0
        <3>2. CASE S!RecordTracker(s)
            <4>1. PICK r : r = [site[s] EXCEPT !.url = site[s].ip]
                BY Zenon
            <4>2. S!ChangeSite(s, r)
                BY <3>2, <4>1 DEF S!RecordTracker
            <4>3. r \in SiteShape
                BY <3>1, <4>1 DEF SiteShape
            <4> QED
                BY <4>2, <4>3
        <3>3. CASE \E ip \in 0..2 : S!EditSite(s, ip)
            <4>1. PICK ip \in 0..2 : S!EditSite(s, ip)
                BY <3>3
            <4>2. PICK r : r = [site[s] EXCEPT !.seeds = ip # 0, !.ip = ip]
                OBVIOUS
            <4>3. S!ChangeSite(s, r)
                BY <4>1, <4>2, Zenon DEF S!EditSite
            <4>4. r \in SiteShape
                BY <3>1, <4>2, Zenon DEF SiteShape
            <4> QED
                BY <4>3, <4>4
        <3> QED
            BY <1>3, <3>2, <3>3
    <2>2. UNCHANGED <<dep, broken, cached>> /\ site' \in [Sites -> SiteShape]
        BY <1>0, <2>1 DEF S!ChangeSite
    <2>3. UNCHANGED used \/ S!Edit({s})
        BY <1>3, Zenon DEF S!RecordTracker, S!EditSite
    <2>4. UsedStays
        BY <2>3, UsedFacts
    <2> QED
        BY <1>0, <2>2, <2>4, FrameKeepsGrace
<1> QED
    BY <1>1, <1>2, <1>3

\* The cluster and operators change Deployments.
LEMMA ClusterKeepsGrace ==
    ASSUME SeedingConstants, GraceInv, NEW s \in Sites,
           \/ S!PodReady(s) \/ S!PodStalls(s) \/ S!PodDies(s) \/ S!DeleteDeployment(s)
           \/ S!RemoveStranger(s) \/ S!Collect(s)
    PROVE  GraceInv'
<1>0. dep[s] # None /\ dep[s] \in S!Deployment
    BY DEF S!PodReady, S!PodStalls, S!PodDies, S!DeleteDeployment, S!RemoveStranger, S!Collect,
           GraceInv, SeedingShape, Deployments
<1>1. UsedStays
    <2>1. UNCHANGED used \/ S!Mishap \/ S!Edit({}) \/ S!Edit({s})
        BY DEF S!PodReady, S!PodStalls, S!PodDies, S!DeleteDeployment, S!RemoveStranger, S!Collect
    <2> QED
        BY <2>1, UsedFacts
<1>2. CASE S!RemoveStranger(s) \/ S!Collect(s)
    <2>1. S!ChangeDep(s, None)
        BY <1>2 DEF S!RemoveStranger, S!Collect
    <2> QED
        BY <1>0, <1>1, <2>1, ChangeDepKeepsGrace DEF Deployments
<1>3. CASE S!PodReady(s) \/ S!PodStalls(s) \/ S!PodDies(s) \/ S!DeleteDeployment(s)
    <2>1. PICK d : /\ S!ChangeDep(s, d)
                   /\ \/ \E u \in {"starting", "available", "stalled"} : d = [dep[s] EXCEPT !.up = u]
                      \/ d = [dep[s] EXCEPT !.deleting = TRUE, !.up = "starting"]
        BY <1>3 DEF S!PodReady, S!PodStalls, S!PodDies, S!DeleteDeployment
    <2>2. d \in S!Deployment /\ d.owner = dep[s].owner /\ (dep[s].deleting => d.deleting)
        BY <1>0, <2>1, ZenonT(40) DEF S!Deployment
    <2> QED
        BY <1>0, <1>1, <2>1, <2>2, ChangeDepKeepsGrace DEF Deployments
<1> QED
    BY <1>2, <1>3

LEMMA InitHasGrace == SeedingConstants /\ S!Init => GraceInv
<1> SUFFICES ASSUME SeedingConstants, S!Init
             PROVE  GraceInv
    OBVIOUS
<1>1. PICK seeds \in [Sites -> BOOLEAN] :
         site = [s \in Sites |->
                   [seeds |-> seeds[s], ip |-> IF seeds[s] THEN 1 ELSE 0, url |-> 0]]
    BY ZenonT(40) DEF S!Init
<1>2. PICK old \in [Sites -> {"survivor", "stranger", None}] :
         dep = [s \in Sites |-> IF old[s] = None THEN None
                                ELSE [owner |-> old[s], deleting |-> FALSE, up |-> "starting",
                                      url |-> 1, empty |-> -1]]
    BY Zenon DEF S!Init
<1>3. /\ cached = [obj |-> obj, dep |-> dep] /\ broken = {}
      /\ used = [claims |-> 0, edits |-> 0, mishaps |-> 0, edited |-> {}, stale |-> FALSE]
    BY Zenon DEF S!Init
<1>4. site \in [Sites -> SiteShape]
    BY <1>1 DEF SiteShape
<1>5. dep \in [Sites -> Deployments]
    BY <1>2 DEF Deployments, S!Deployment, S!Owner, SeedingConstants
<1>6. used \in Used
    BY <1>3 DEF Used
<1>7. SeedingShape
    BY <1>3, <1>4, <1>5, <1>6 DEF SeedingShape
<1>8. \A s \in Sites : LinkedTo(s, dep[s]) /\ UnstampedBy(s, dep[s])
    BY <1>3 DEF LinkedTo, UnstampedBy, S!Listed
<1> QED
    BY <1>3, <1>7, <1>8 DEF GraceInv

\* Every step.
LEMMA NextKeepsGrace == SeedingConstants /\ GraceInv /\ [S!Next]_(S!vars) => GraceInv'
<1> SUFFICES ASSUME SeedingConstants, GraceInv, [S!Next]_(S!vars)
             PROVE  GraceInv'
    OBVIOUS
<1>0. /\ cached = [obj |-> cached.obj, dep |-> cached.dep] /\ site \in [Sites -> SiteShape]
      /\ cached.dep \in [Sites -> Deployments] /\ dep \in [Sites -> Deployments]
    BY DEF GraceInv, SeedingShape
<1>1. CASE UNCHANGED S!vars
    BY <1>0, <1>1, UsedFacts, FrameKeepsGrace DEF S!vars
<1>2. CASE \E fails \in SUBSET Sites : S!ReconcileImage(fails)
    BY <1>2, ReconcileKeepsGrace
<1>3. CASE S!Restart
    <2>1. UNCHANGED <<dep, site, broken>> /\ S!Mishap /\ cached' = [obj |-> obj, dep |-> dep]
        BY <1>3 DEF S!Restart
    <2> QED
        BY <1>0, <2>1, UsedFacts, CacheKeepsGrace
<1>4. ASSUME NEW s \in Sites, S!DeploymentEvent(s)
      PROVE  GraceInv'
    <2>1. /\ UNCHANGED <<dep, site, broken, used>>
          /\ cached' = [cached EXCEPT !.dep[s] = dep[s]]
        BY <1>4 DEF S!DeploymentEvent, S!Deliver
    <2>2. PICK a, b : cached = [obj |-> a, dep |-> b] /\ b \in [Sites -> Deployments]
        BY <1>0
    <2>3. cached' = [obj |-> a, dep |-> [b EXCEPT ![s] = dep[s]]]
        BY <2>1, <2>2
    <2> QED
        BY <1>0, <2>1, <2>2, <2>3, UsedFacts, CacheKeepsGrace
<1>5. CASE S!Tick
    BY <1>5, TickKeepsGrace
<1>6. CASE \/ S!World \/ S!TimerFires
           \/ \E m \in Machines : S!ClaimEvent(m) \/ S!MachineEvent(m) \/ S!RunEvent(m)
           \/ \E s \in Sites : S!RecordTracker(s) \/ \E ip \in 0..2 : S!EditSite(s, ip)
    BY <1>6, WorldKeepsGrace
<1>7. CASE \E s \in Sites : \/ S!PodReady(s) \/ S!PodStalls(s) \/ S!PodDies(s)
                            \/ S!DeleteDeployment(s) \/ S!RemoveStranger(s) \/ S!Collect(s)
    BY <1>7, ClusterKeepsGrace
<1> QED
    BY <1>1, <1>2, <1>3, <1>4, <1>5, <1>6, <1>7
       DEF S!Next, S!Watches, S!Controllers, S!Cluster, S!Accidents, S!Operators

\* A countdown that a reconcile broke off by serving demand is never taken up again
\* (cancelSeederShutdown, shutdownImageSeederDeployment): however late each event reaches the
\* cache, whichever calls fail and whoever deletes what, a seeder that is deleted for want of
\* demand has been without it since its stamp, unless a reconcile read an old stamp.
THEOREM GraceIsAlwaysGiven == ASSUME SeedingConstants PROVE S!Spec => S!GraceIsGiven
<1>1. S!Init => GraceInv
    BY InitHasGrace
<1>2. GraceInv /\ [S!Next]_(S!vars) => GraceInv'
    BY NextKeepsGrace
<1>3. GraceInv => [\A s \in Sites :
                      dep[s] # None /\ dep[s].owner = "image" /\ ~dep[s].deleting /\ dep'[s] = None
                        => s \notin broken \/ used.stale]_(S!vars)
    BY DEF GraceInv, Leaving
<1> QED
    BY <1>1, <1>2, <1>3, PTL DEF S!Spec, S!GraceIsGiven

=============================================================================
