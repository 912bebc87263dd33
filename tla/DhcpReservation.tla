-------------------------- MODULE DhcpReservation --------------------------
(***************************************************************************)
(* DHCP reservations of a lease-mode Subnet, as the manager keeps them.    *)
(* Before it powers a Machine on for net boot, the deployer writes a fixed *)
(* address into the Subnet's status.dhcp.reservations and waits for bootd  *)
(* to acknowledge that table (internal/deployer/dhcpreserve.go,            *)
(* internal/subnetdhcp).  It releases the entry when the step is over, and *)
(* the Subnet controller drops the entries nobody will release             *)
(* (internal/controller/subnet_controller.go).  How bootd comes to its     *)
(* acknowledgement is module BootdHostsfile; here it acknowledges the last *)
(* table it has seen.                                                      *)
(*                                                                         *)
(* Machines and Subnet are read through the manager's caches.  The copy of *)
(* the Subnet carries a freshness bit, as in module Informer: an Update    *)
(* made with a stale copy is a Conflict.                                   *)
(*                                                                         *)
(* status.dhcp.revision is a digest of the table and nothing else, so a    *)
(* revision is represented by the table it digests, and the empty string   *)
(* by the empty table.                                                     *)
(***************************************************************************)
EXTENDS Integers, FiniteSets

CONSTANTS
    Machines,          \* Machine names
    MACs,              \* normalized boot MAC addresses
    LeaseRangeStart,   \* spec.dhcp's pool, addresses being numbers
    LeaseRangeEnd,
    ReservedAddresses, \* bootdServerIP and gateway, never handed out
    NoMAC,             \* a bootMACAddress that does not normalize
    MaxBoots,          \* bound: net boots the deploy steps ask for
    MaxEdits           \* bound: Machine creations, edits and deletions

ASSUME RangeAssumption ==
    /\ LeaseRangeStart \in Int /\ LeaseRangeEnd \in Int
    /\ ReservedAddresses \subseteq Int
ASSUME NamesAssumption == NoMAC \notin MACs
ASSUME BoundsAssumption == MaxBoots \in Nat /\ MaxEdits \in Nat

VARIABLES
    machine,  \* the Machines the API server stores
    subnet,   \* the Subnet's status
    mgr,      \* the manager's caches, and whether its Subnet is up to date
    deploy,   \* per Machine, where its deploy step is with the net boot
    bootd,    \* the table bootd will acknowledge next
    spent     \* what the bounds count

vars == <<machine, subnet, mgr, deploy, bootd, spent>>

-----------------------------------------------------------------------------
(* Objects.                                                                *)

\* Of a Machine: whether it exists or is being deleted, its boot MAC, and
\* whether spec.subnetRef names this Subnet.
MachineSpec == [life : {"absent", "live", "deleting"}, mac : MACs \cup {NoMAC},
                local : BOOLEAN]

\* One row of status.dhcp.reservations.
Entry == [machine : Machines, mac : MACs, address : Int]

\* status.dhcp, and whether the condition DHCPPoolExhausted is True.
SubnetStatus == [reservations : SUBSET Entry, appliedRevision : SUBSET Entry,
                 exhausted : BOOLEAN]

-----------------------------------------------------------------------------
(* The reservation table (internal/subnetdhcp).                            *)

LeaseRange == LeaseRangeStart..LeaseRangeEnd

\* The addresses of a table, and a Machine's row of it.
Held(table) == {r.address : r \in table}

OfMachine(table, m) == {r \in table : r.machine = m}

FreeIgnoresTable(table) == LeaseRange \ ReservedAddresses

Free(table) == LeaseRange \ (ReservedAddresses \cup Held(table))

\* nextFree: the lowest address not taken.
IsNextFree(table, a) == a \in Free(table) /\ \A b \in Free(table) : a <= b

\* Reserve: an entry the Machine already holds is used as it is.
Reserve(table, m, mac, next) ==
    \/ OfMachine(table, m) # {} /\ next = table
    \/ /\ OfMachine(table, m) = {}
       /\ \E a \in Free(table) :
            /\ IsNextFree(table, a)
            /\ next = table \cup {[machine |-> m, mac |-> mac, address |-> a]}

PoolExhausted(table, m) == OfMachine(table, m) = {} /\ Free(table) = {}

Release(table, m) == table \ OfMachine(table, m)

\* gcDHCPReservations keeps the entries whose Machine still exists, with the
\* same MAC and on this Subnet.
Kept(table, machines) ==
    {r \in table : /\ machines[r.machine].life # "absent"
                   /\ machines[r.machine].mac = r.mac
                   /\ machines[r.machine].local}

-----------------------------------------------------------------------------
Unenrolled == [life |-> "absent", mac |-> NoMAC, local |-> TRUE]

Init ==
    /\ machine = [m \in Machines |-> Unenrolled]
    /\ subnet = [reservations |-> {}, appliedRevision |-> {}, exhausted |-> FALSE]
    /\ mgr = [machine |-> machine, subnet |-> subnet, fresh |-> TRUE]
    /\ deploy = [m \in Machines |-> "idle"]
    /\ bootd = {}
    /\ spent = [boots |-> 0, edits |-> 0]

-----------------------------------------------------------------------------
(* Users, and the end of a deletion.                                       *)

Edit(m, spec) ==
    /\ spent.edits < MaxEdits
    /\ spec # machine[m]
    /\ machine' = [machine EXCEPT ![m] = spec]
    /\ spent' = [spent EXCEPT !.edits = @ + 1]
    /\ UNCHANGED <<subnet, mgr, deploy, bootd>>

CreateMachine(m) ==
    /\ machine[m].life = "absent"
    /\ \E mac \in MACs \cup {NoMAC} :
         Edit(m, [life |-> "live", mac |-> mac, local |-> TRUE])

EditMachine(m) ==
    /\ machine[m].life = "live"
    /\ \E mac \in MACs \cup {NoMAC}, local \in BOOLEAN :
         Edit(m, [life |-> "live", mac |-> mac, local |-> local])

DeleteMachine(m) ==
    /\ machine[m].life = "live"
    /\ Edit(m, [machine[m] EXCEPT !.life = "deleting"])

-----------------------------------------------------------------------------
(* The manager: its caches, the deployer's DHCP step and the Subnet        *)
(* controller's garbage collection.                                        *)

DeliverSubnetToManager ==
    /\ ~mgr.fresh
    /\ mgr' = [mgr EXCEPT !.subnet = subnet, !.fresh = TRUE]
    /\ UNCHANGED <<machine, subnet, deploy, bootd, spent>>

DeliverMachinesToManager ==
    /\ mgr.machine # machine
    /\ mgr' = [mgr EXCEPT !.machine = machine]
    /\ UNCHANGED <<machine, subnet, deploy, bootd, spent>>

UpdateByPatch(table) ==
    IF table = mgr.subnet.reservations
    THEN UNCHANGED <<subnet, mgr>>
    ELSE /\ subnet' = [subnet EXCEPT !.reservations = table]
         /\ mgr' = [mgr EXCEPT !.fresh = FALSE]

\* Status().Update with the manager's copy: a copy that is not up to date is
\* a Conflict, which every caller answers by reading and trying again.  A
\* write that changes nothing makes no new version.
UpdateTable(table) ==
    /\ table # mgr.subnet.reservations => mgr.fresh
    /\ IF table = mgr.subnet.reservations
       THEN UNCHANGED <<subnet, mgr>>
       ELSE /\ subnet' = [subnet EXCEPT !.reservations = table]
            /\ mgr' = [mgr EXCEPT !.fresh = FALSE]

\* recordDHCPPoolExhausted: nothing ever sets the condition back.
RecordPoolExhausted ==
    /\ ~mgr.subnet.exhausted => mgr.fresh
    /\ IF mgr.subnet.exhausted
       THEN UNCHANGED <<subnet, mgr>>
       ELSE /\ subnet' = [subnet EXCEPT !.exhausted = TRUE]
            /\ mgr' = [mgr EXCEPT !.fresh = FALSE]

\* A live Machine on this Subnet reaches a step that must net-boot it, or the
\* boot it is in came to nothing and is tried again.
StartNetBoot(m) ==
    /\ deploy[m] # "reserving"
    /\ mgr.machine[m].life = "live" /\ mgr.machine[m].local
    /\ spent.boots < MaxBoots
    /\ deploy' = [deploy EXCEPT ![m] = "reserving"]
    /\ spent' = [spent EXCEPT !.boots = @ + 1]
    /\ UNCHANGED <<machine, subnet, mgr, bootd>>

\* bootserver.NormalizeMAC accepts the Machine's boot MAC.
HasBootMAC(spec) == spec.mac # NoMAC

\* The revision the deployer compares is that of the table it just wrote or
\* found, the acknowledgement the one of the copy it read.
Acknowledged(table) == mgr.subnet.appliedRevision = table

\* reserveAndAwaitDHCP.  A Machine without a usable MAC proceeds without a
\* reservation, and one that moved away is another Subnet's; an exhausted
\* pool is recorded and the step Delayed; an unacknowledged table is Busy and
\* tried again.
ReserveAndAwaitDHCP(m) ==
    /\ deploy[m] = "reserving" /\ mgr.machine[m].life = "live"
    /\ LET spec == mgr.machine[m]
           table == mgr.subnet.reservations
       IN \/ /\ ~HasBootMAC(spec) \/ ~spec.local
             /\ deploy' = [deploy EXCEPT ![m] = "booted"]
             /\ UNCHANGED <<subnet, mgr>>
          \/ /\ HasBootMAC(spec) /\ spec.local /\ PoolExhausted(table, m)
             /\ RecordPoolExhausted
             /\ UNCHANGED deploy
          \/ /\ HasBootMAC(spec) /\ spec.local
             /\ \E next \in {table} \cup
                    {table \cup {[machine |-> m, mac |-> spec.mac, address |-> a]} :
                        a \in LeaseRange} :
                  /\ Reserve(table, m, spec.mac, next)
                  /\ UpdateTable(next)
                  /\ deploy' = IF Acknowledged(next)
                               THEN [deploy EXCEPT ![m] = "booted"] ELSE deploy
    /\ UNCHANGED <<machine, bootd, spent>>

\* releaseDHCPReservation looks at the Subnet the Machine names now.
Released(m) == IF mgr.machine[m].local THEN Release(mgr.subnet.reservations, m)
               ELSE mgr.subnet.reservations

\* Inspect reaching Complete, or Provision's Succeeded phase.
CompleteStep(m) ==
    /\ deploy[m] = "booted" /\ mgr.machine[m].life = "live"
    /\ UpdateTable(Released(m))
    /\ deploy' = [deploy EXCEPT ![m] = "idle"]
    /\ UNCHANGED <<machine, bootd, spent>>

\* The delete walk's Deprovision releases the reservation first; the Machine
\* goes once its walk is over.
Deprovision(m) ==
    /\ mgr.machine[m].life = "deleting" /\ machine[m].life = "deleting"
    /\ UpdateTable(Released(m))
    /\ machine' = [machine EXCEPT ![m] = Unenrolled]
    /\ deploy' = [deploy EXCEPT ![m] = "idle"]
    /\ UNCHANGED <<bootd, spent>>

ReconcileIgnoresSubnetRef ==
    LET kept == {r \in mgr.subnet.reservations :
                    /\ mgr.machine[r.machine].life # "absent"
                    /\ mgr.machine[r.machine].mac = r.mac}
    IN /\ kept # mgr.subnet.reservations
       /\ UpdateTable(kept)
       /\ UNCHANGED <<machine, deploy, bootd, spent>>

\* SubnetReconciler.onChange, as far as it concerns the table.
ReconcileSubnet ==
    /\ Kept(mgr.subnet.reservations, mgr.machine) # mgr.subnet.reservations
    /\ UpdateTable(Kept(mgr.subnet.reservations, mgr.machine))
    /\ UNCHANGED <<machine, deploy, bootd, spent>>

-----------------------------------------------------------------------------
(* bootd, seen from here.                                                  *)

BootdSees ==
    /\ bootd # subnet.reservations
    /\ bootd' = subnet.reservations
    /\ UNCHANGED <<machine, subnet, mgr, deploy, spent>>

AcknowledgesAdditions ==
    /\ subnet.appliedRevision # bootd /\ subnet.appliedRevision \subseteq bootd
    /\ subnet' = [subnet EXCEPT !.appliedRevision = bootd]
    /\ mgr' = [mgr EXCEPT !.fresh = FALSE]
    /\ UNCHANGED <<machine, deploy, bootd, spent>>

\* A merge patch: it carries no resourceVersion, and leaves the manager's
\* copy stale.
BootdAcknowledges ==
    /\ subnet.appliedRevision # bootd
    /\ subnet' = [subnet EXCEPT !.appliedRevision = bootd]
    /\ mgr' = [mgr EXCEPT !.fresh = FALSE]
    /\ UNCHANGED <<machine, deploy, bootd, spent>>

-----------------------------------------------------------------------------
Users(m) == CreateMachine(m) \/ EditMachine(m) \/ DeleteMachine(m)

\* What the Machine controller keeps coming back to.
DeployStep(m) == ReserveAndAwaitDHCP(m) \/ CompleteStep(m) \/ Deprovision(m)

Next ==
    \/ DeliverSubnetToManager \/ DeliverMachinesToManager \/ ReconcileSubnet
    \/ BootdSees \/ BootdAcknowledges
    \/ \E m \in Machines : Users(m) \/ StartNetBoot(m) \/ DeployStep(m)

Spec == Init /\ [][Next]_vars

\* Informers deliver, bootd answers, and both reconcilers come back to what
\* they could not finish.  Users owe nothing, and no net boot ever has to end
\* well.
Fairness ==
    /\ WF_vars(DeliverSubnetToManager)
    /\ WF_vars(DeliverMachinesToManager)
    /\ WF_vars(BootdSees) /\ WF_vars(BootdAcknowledges)
    /\ WF_vars(ReconcileSubnet)
    /\ \A m \in Machines :
         WF_vars(ReserveAndAwaitDHCP(m)) /\ WF_vars(Deprovision(m))

FairSpec == Spec /\ Fairness

-----------------------------------------------------------------------------
(* Properties.                                                             *)

TypeOK ==
    /\ machine \in [Machines -> MachineSpec]
    /\ subnet \in SubnetStatus
    /\ mgr \in [machine : [Machines -> MachineSpec], subnet : SubnetStatus,
                fresh : BOOLEAN]
    /\ deploy \in [Machines -> {"idle", "reserving", "booted"}]
    /\ bootd \in SUBSET Entry
    /\ spent \in [boots : 0..MaxBoots, edits : 0..MaxEdits]

\* No two Machines are ever promised one address, a Machine has at most one
\* reservation, and every address lies in the lease range and is neither
\* bootd's own nor the gateway's, whatever the caches show the writers.
NoAddressTwice ==
    /\ \A r, s \in subnet.reservations :
         (r.address = s.address \/ r.machine = s.machine) => r = s
    /\ Held(subnet.reservations) \subseteq LeaseRange \ ReservedAddresses

\* reserveOnSubnet retries on a conflict "rather than ever rewriting a
\* previously chosen address": while a Machine is on its way through a net
\* boot, no other Machine's reservation, no other Machine's release and no
\* garbage collection takes its address from it or changes it.
KeepsItsAddress ==
    [][\A r \in Kept(subnet.reservations, mgr.machine) :
         (deploy[r.machine] # "idle" /\ deploy'[r.machine] # "idle")
            => r \in subnet'.reservations]_vars

\* Nothing stays reserved for a Machine that is gone, changed its boot MAC or
\* moved to another Subnet, although no deploy step will ever release it.
AbandonedEntryGoes ==
    []<>(Kept(subnet.reservations, machine) = subnet.reservations)

\* A Machine waiting for its address is let go once bootd answers, unless the
\* pool has none left or the Machine is deleted.
WaitingMachineBoots ==
    \A m \in Machines :
        deploy[m] = "reserving" ~>
            \/ deploy[m] # "reserving"
            \/ machine[m].life # "live"
            \/ PoolExhausted(subnet.reservations, m)

\* The condition "is True while this Subnet's lease-mode DHCP address pool has
\* no free address left": once there is room again, it goes.
ExhaustionIsReported == []<>(subnet.exhausted => Free(subnet.reservations) = {})
=============================================================================
