--------------------------- MODULE BootdHostsfile ---------------------------
(***************************************************************************)
(* How a bootd pod turns its Subnet's DHCP reservations into what dnsmasq  *)
(* serves, and when it acknowledges them (internal/bootd/subnetdhcp.go,    *)
(* maccache.go, dnsmasq.go).  Informer handlers and a resync ticker push   *)
(* the table and the Machine allowlist to Dnsmasq, whose hostsfileLoop     *)
(* rewrites the hostsfile, sends SIGHUP, waits for dnsmasq to log that it  *)
(* read the file, and reports the revision; SubnetDHCPCache.MarkApplied    *)
(* then writes status.dhcp.appliedRevision, on which the deployer's net    *)
(* boots wait (module DhcpReservation).                                    *)
(*                                                                         *)
(* history is the sequence of tables the manager has written to the        *)
(* Subnet.  Whoever holds a table holds its position in history, so that a *)
(* property can ask which of two copies is older; the code itself knows    *)
(* only a digest of the content, and every comparison it makes compares    *)
(* the tables at the two positions.                                        *)
(***************************************************************************)
EXTENDS Naturals, Sequences

CONSTANTS
    MACs,       \* normalized boot MAC addresses
    Addresses,  \* what a reservation can give
    NoAddress,  \* no reservation, or a hostsfile line without one
    MaxWrites,  \* bound: changes of the table
    MaxEnrols,  \* bound: changes of the allowlist
    MaxFaults,  \* bound: crashes, restarts, timeouts, failed writes
    MaxLines    \* bound: dnsmasq log lines not yet read

ASSUME NoAddressAssumption == NoAddress \notin Addresses
ASSUME BoundsAssumption ==
    MaxWrites \in Nat /\ MaxEnrols \in Nat /\ MaxFaults \in Nat /\ MaxLines \in Nat

VARIABLES
    history,  \* the tables of the Subnet's status, the last one stored
    applied,  \* status.dhcp.appliedRevision
    allowed,  \* the boot MACs of the Machines
    cache,    \* SubnetDHCPCache, and the Subnet in bootd's informer
    sink,     \* what Dnsmasq was told and hostsfileLoop has not looked at
    loop,     \* hostsfileLoop
    dns,      \* the hostsfile on disk and the dnsmasq child
    spent     \* what the bounds count

vars == <<history, applied, allowed, cache, sink, loop, dns, spent>>

-----------------------------------------------------------------------------
Table == [MACs -> Addresses \cup {NoAddress}]

EmptyTable == [mac \in MACs |-> NoAddress]

\* A position in history; the first is the Subnet before any reservation.
Stored == Len(history)

SameRevision(i, j) == history[i] = history[j]

\* One line per allowed MAC, with its address when it has one.
RenderHostsfile(macs, table) == [mac \in macs |-> table[mac]]

EmptyHostsfile == [mac \in {} |-> NoAddress]

IdlePush == [pc |-> "idle", table |-> 1]

(* A pod that has just started: no cache has synced, and dnsmasq is held   *)
(* back until the allowlist is first pushed.                               *)

NewCache == [pc |-> "start", table |-> 1, applied |-> 1, revision |-> 1,
             event |-> IdlePush, tick |-> IdlePush]

NewSink == [macs |-> {}, table |-> 1, macsSet |-> FALSE, revSet |-> FALSE,
            dirty |-> FALSE]

NewLoop == [pc |-> "idle", table |-> 1, revSet |-> FALSE, confirmed |-> FALSE,
            acked |-> 1, ackedSet |-> FALSE]

NewDns == [file |-> EmptyHostsfile, served |-> EmptyHostsfile, child |-> "none",
           hup |-> FALSE, lines |-> 0, seen |-> FALSE]

Init ==
    /\ history = <<EmptyTable>> /\ applied = 1
    /\ allowed = {}
    /\ cache = NewCache /\ sink = NewSink /\ loop = NewLoop /\ dns = NewDns
    /\ spent = [enrols |-> 0, faults |-> 0]

Fault == /\ spent.faults < MaxFaults
         /\ spent' = [spent EXCEPT !.faults = @ + 1]

-----------------------------------------------------------------------------
(* The manager and the users.                                              *)

WriteTable ==
    /\ Len(history) <= MaxWrites
    /\ \E table \in Table \ {history[Stored]} : history' = Append(history, table)
    /\ UNCHANGED <<applied, allowed, cache, sink, loop, dns, spent>>

Enrol ==
    /\ spent.enrols < MaxEnrols
    /\ \E macs \in (SUBSET MACs) \ {allowed} : allowed' = macs
    /\ spent' = [spent EXCEPT !.enrols = @ + 1]
    /\ UNCHANGED <<history, applied, cache, sink, loop, dns>>

-----------------------------------------------------------------------------
(* bootd's caches.  push first records the revision, then hands the table  *)
(* to Dnsmasq, under two locks; the informer's handler and the resync      *)
(* ticker each run it on a goroutine of their own.                         *)

\* MACCache.Start's first push and every Machine event after it.
PushAllowedMACs ==
    /\ sink.macs # allowed \/ ~sink.macsSet
    /\ sink' = [sink EXCEPT !.macs = allowed, !.macsSet = TRUE,
                            !.dirty = TRUE]
    /\ UNCHANGED <<history, applied, allowed, cache, loop, dns, spent>>

\* SubnetDHCPCache.Start: the informer synced, the first snapshot is read and
\* pushed by the ticker's goroutine, and only then are events listened to.
StartSubnetCache ==
    /\ cache.pc = "start"
    /\ cache' = [cache EXCEPT !.pc = "first", !.table = Stored, !.applied = applied,
                              !.tick = [pc |-> "got", table |-> Stored]]
    /\ UNCHANGED <<history, applied, allowed, sink, loop, dns, spent>>

\* A Subnet event reaches the informer's store and, once synced, the handler.
DeliverSubnet ==
    /\ cache.pc # "start" /\ cache.event.pc = "idle"
    /\ <<cache.table, cache.applied>> # <<Stored, applied>>
    /\ cache' = [cache EXCEPT
                   !.table = Stored, !.applied = applied,
                   !.event = IF cache.pc = "synced"
                             THEN [pc |-> "got", table |-> Stored] ELSE @]
    /\ UNCHANGED <<history, applied, allowed, sink, loop, dns, spent>>

ResyncsLastPush ==
    /\ cache.pc = "synced" /\ cache.tick.pc = "idle"
    /\ cache' = [cache EXCEPT !.tick = [pc |-> "got", table |-> cache.revision]]
    /\ UNCHANGED <<history, applied, allowed, sink, loop, dns, spent>>

\* The resync ticker re-Gets the Subnet, from the informer's store.
ResyncTick ==
    /\ cache.pc = "synced" /\ cache.tick.pc = "idle"
    /\ cache' = [cache EXCEPT !.tick = [pc |-> "got", table |-> cache.table]]
    /\ UNCHANGED <<history, applied, allowed, sink, loop, dns, spent>>

\* push, first half: the revision MarkApplied will compare with.
PushRevision(who) ==
    /\ cache[who].pc = "got"
    /\ cache' = [cache EXCEPT ![who].pc = "marked", !.revision = cache[who].table]
    /\ UNCHANGED <<history, applied, allowed, sink, loop, dns, spent>>

\* push, second half: SetReservations.
SetReservations(who) ==
    /\ cache[who].pc = "marked"
    /\ sink' = [sink EXCEPT !.table = cache[who].table, !.revSet = TRUE,
                            !.dirty = TRUE]
    /\ cache' = [cache EXCEPT ![who] = IdlePush,
                              !.pc = IF @ = "first" THEN "synced" ELSE @]
    /\ UNCHANGED <<history, applied, allowed, loop, dns, spent>>

-----------------------------------------------------------------------------
(* hostsfileLoop.                                                          *)

\* One iteration: render, rewrite the file if it differs, and unless dnsmasq
\* is known to have read this content, signal it.
HostsfileTick ==
    /\ loop.pc = "idle" /\ sink.dirty
    /\ LET content == RenderHostsfile(sink.macs, history[sink.table])
           known == content = dns.file /\ loop.confirmed
       IN /\ known \/ dns.child # "none"
          /\ loop' = [loop EXCEPT !.pc = IF known THEN "ack" ELSE "wait",
                                  !.table = sink.table, !.revSet = sink.revSet,
                                  !.confirmed = known]
          /\ dns' = IF known THEN dns
                    ELSE [dns EXCEPT !.file = content, !.seen = FALSE,
                                     !.hup = @ \/ dns.child = "up"]
    /\ sink' = [sink EXCEPT !.dirty = FALSE]
    /\ UNCHANGED <<history, applied, allowed, cache, spent>>

\* The same with no child to signal: the file is rewritten and the iteration
\* queued again.
HostsfileTickNoChild ==
    /\ loop.pc = "idle" /\ sink.dirty /\ dns.child = "none" /\ sink.macsSet
    /\ LET content == RenderHostsfile(sink.macs, history[sink.table])
       IN /\ content # dns.file
          /\ dns' = [dns EXCEPT !.file = content]
    /\ loop' = [loop EXCEPT !.confirmed = FALSE]
    /\ UNCHANGED <<history, applied, allowed, cache, sink, spent>>

IgnoresWriteError ==
    /\ loop.pc = "idle" /\ sink.dirty /\ sink.macsSet
    /\ RenderHostsfile(sink.macs, history[sink.table]) # dns.file
    /\ sink' = [sink EXCEPT !.dirty = FALSE]
    /\ loop' = [loop EXCEPT !.pc = "ack", !.table = sink.table, !.revSet = sink.revSet]
    /\ Fault
    /\ UNCHANGED <<history, applied, allowed, cache, dns>>

\* writeFileAtomic fails: the iteration ends and is not queued again.
HostsfileWriteFails ==
    /\ loop.pc = "idle" /\ sink.dirty /\ sink.macsSet
    /\ RenderHostsfile(sink.macs, history[sink.table]) # dns.file
    /\ sink' = [sink EXCEPT !.dirty = FALSE]
    /\ Fault
    /\ UNCHANGED <<history, applied, allowed, cache, loop, dns>>

\* waitForHostsfileReadAfter sees a read logged after the baseline.
ReloadConfirmed ==
    /\ loop.pc = "wait" /\ dns.seen
    /\ loop' = [loop EXCEPT !.pc = "ack", !.confirmed = TRUE]
    /\ UNCHANGED <<history, applied, allowed, cache, sink, dns, spent>>

\* ReloadTimeout, or a SIGHUP that could not be sent: tried again.
ReloadTimeout ==
    /\ loop.pc = "wait"
    /\ loop' = [loop EXCEPT !.pc = "idle"]
    /\ sink' = [sink EXCEPT !.dirty = TRUE]
    /\ Fault
    /\ UNCHANGED <<history, applied, allowed, cache, dns>>

\* MarkApplied stops early when a newer revision was pushed, and when its
\* cached Subnet already carries the acknowledgement.
MarksApplied(table) ==
    /\ SameRevision(cache.revision, table)
    /\ ~SameRevision(cache.applied, table)

\* A revision is reported once: OnApplied, which is MarkApplied.
Acknowledge ==
    /\ loop.pc = "ack"
    /\ IF loop.revSet /\ (~loop.ackedSet \/ ~SameRevision(loop.table, loop.acked))
       THEN loop' = [loop EXCEPT
                       !.acked = loop.table, !.ackedSet = TRUE,
                       !.pc = IF MarksApplied(loop.table) THEN "patch" ELSE "idle"]
       ELSE loop' = [loop EXCEPT !.pc = "idle"]
    /\ UNCHANGED <<history, applied, allowed, cache, sink, dns, spent>>

\* MarkApplied's merge patch.
PatchAppliedRevision ==
    /\ loop.pc = "patch"
    /\ applied' = loop.table
    /\ loop' = [loop EXCEPT !.pc = "idle"]
    /\ UNCHANGED <<history, allowed, cache, sink, dns, spent>>

PatchFails ==
    /\ loop.pc = "patch"
    /\ loop' = [loop EXCEPT !.pc = "idle"]
    /\ Fault
    /\ UNCHANGED <<history, applied, allowed, cache, sink, dns>>

-----------------------------------------------------------------------------
(* The dnsmasq child (Start, runChild).                                    *)

\* Started once the allowlist is known, and again after an exit.
StartChild ==
    /\ dns.child = "none" /\ sink.macsSet
    /\ dns' = [dns EXCEPT !.child = "up", !.served = dns.file, !.hup = FALSE,
                          !.lines = @ + 1]
    /\ UNCHANGED <<history, applied, allowed, cache, sink, loop, spent>>

\* dnsmasq's event loop gets to the signal, reads the file and logs the read.
HandleSighup ==
    /\ dns.child = "up" /\ dns.hup /\ dns.lines < MaxLines
    /\ dns' = [dns EXCEPT !.served = dns.file, !.hup = FALSE, !.lines = @ + 1]
    /\ UNCHANGED <<history, applied, allowed, cache, sink, loop, spent>>

\* forwardLines reads one such line: noteHostsfileRead.
NoteHostsfileRead ==
    /\ dns.lines > 0
    /\ dns' = [dns EXCEPT !.lines = @ - 1, !.seen = TRUE]
    /\ UNCHANGED <<history, applied, allowed, cache, sink, loop, spent>>

ChildExits ==
    /\ dns.child = "up"
    /\ dns' = [dns EXCEPT !.child = "dead", !.hup = FALSE]
    /\ Fault
    /\ UNCHANGED <<history, applied, allowed, cache, sink, loop>>

\* runChild returns when the child's output has been read to its end.
ReapChild ==
    /\ dns.child = "dead" /\ dns.lines = 0
    /\ dns' = [dns EXCEPT !.child = "none"]
    /\ UNCHANGED <<history, applied, allowed, cache, sink, loop, spent>>

\* The pod is recreated; of its state only the Subnet's status remains.
RestartBootd ==
    /\ cache' = NewCache /\ sink' = NewSink /\ loop' = NewLoop /\ dns' = NewDns
    /\ Fault
    /\ UNCHANGED <<history, applied, allowed>>

-----------------------------------------------------------------------------
Pushers == {"event", "tick"}

Caches == \/ PushAllowedMACs \/ StartSubnetCache \/ DeliverSubnet \/ ResyncTick
          \/ \E who \in Pushers : PushRevision(who) \/ SetReservations(who)

HostsfileLoop == HostsfileTick \/ HostsfileTickNoChild \/ ReloadConfirmed
                 \/ Acknowledge \/ PatchAppliedRevision

Child == StartChild \/ HandleSighup \/ NoteHostsfileRead \/ ReapChild

Faults == HostsfileWriteFails \/ ReloadTimeout \/ PatchFails \/ ChildExits
          \/ RestartBootd

Next == WriteTable \/ Enrol \/ Caches \/ HostsfileLoop \/ Child \/ Faults

Spec == Init /\ [][Next]_vars

\* Informers deliver, goroutines run, the ticker ticks and dnsmasq answers
\* signals; no write of the manager and no fault is ever owed.
Fairness ==
    /\ WF_vars(PushAllowedMACs) /\ WF_vars(StartSubnetCache)
    /\ WF_vars(DeliverSubnet) /\ WF_vars(ResyncTick)
    /\ \A who \in Pushers : WF_vars(PushRevision(who) \/ SetReservations(who))
    /\ WF_vars(HostsfileLoop)
    /\ WF_vars(StartChild \/ HandleSighup \/ ReapChild)
    /\ WF_vars(NoteHostsfileRead)

FairSpec == Spec /\ Fairness

-----------------------------------------------------------------------------
(* Properties.                                                             *)

TypeOK ==
    /\ history \in Seq(Table) /\ applied \in DOMAIN history
    /\ allowed \in SUBSET MACs
    /\ {cache.table, cache.applied, cache.revision, cache.event.table,
        cache.tick.table, sink.table, loop.table, loop.acked} \subseteq DOMAIN history
    /\ sink.macs \in SUBSET MACs
    /\ loop.pc \in {"idle", "wait", "ack", "patch"}
    /\ dns.child \in {"none", "up", "dead"} /\ dns.lines \in 0..MaxLines

\* When bootd acknowledges a table, the hostsfile on disk was rendered from
\* it: whatever was pushed, requeued or timed out meanwhile, an
\* acknowledgement never runs ahead of the file.
AcknowledgesWhatIsOnDisk ==
    [][applied' # applied =>
         \A mac \in DOMAIN dns.file : dns.file[mac] = history[applied'][mac]]_vars

\* Whatever was missed, raced or failed, dnsmasq ends up serving the stored
\* table to the enrolled MACs: the resync is the backstop bootd says it is.
ServedConverges ==
    <>[](/\ dns.child = "up"
         /\ dns.served = RenderHostsfile(allowed, history[Stored]))

\* The deployer waits for the acknowledgement "so the machine never net-boots
\* into a hostsfile bootd has not actually rewritten yet".
AcknowledgedIsServed ==
    (SameRevision(applied, Stored) /\ dns.child = "up") =>
        \A mac \in sink.macs : history[Stored][mac] # NoAddress =>
            mac \in DOMAIN dns.served /\ dns.served[mac] = history[Stored][mac]

\* "so a callback for a since-superseded revision can never move
\* appliedRevision back past a newer one already reported".
AcknowledgementNeverGoesBack == [][applied' >= applied]_vars

\* "so a single missed or mishandled event can never stall DHCP reservations
\* until the next pod restart": a table that stays is acknowledged, so that
\* a deploy step waiting for it goes on.
AckArrives ==
    <>[](SameRevision(applied, Stored) \/ history[Stored] = EmptyTable)
=============================================================================
