------------------------------ MODULE DiskMatch ------------------------------
(***************************************************************************)
(* Choosing disks.  A claim's hints name the disk an image is written to,  *)
(* and a claim's hardware selector asks for distinct disks.                *)
(*                                                                         *)
(* A disk is [dev, serial, model, pad, size, rotational]; "" and None are  *)
(* what a disk did not report, pad is the blank space around its model.    *)
(* A hint is a function on the fields that are set.  The exact identifiers *)
(* (deviceName, wwn, pciePath, hctl) are compared alike and stand as dev,  *)
(* model and vendor as model, rotational and slotNumber as rotational.     *)
(*                                                                         *)
(* Sources: internal/diskmatch/diskmatch.go and                            *)
(* internal/controller/machineclaim_match.go.                              *)
(***************************************************************************)
EXTENDS Integers, Sequences, FiniteSetsExt

CONSTANTS
    GiB,      \* bytes of a gigabyte
    MaxInt,   \* the largest int64
    None

\* int64 multiplication: the product wraps.
Wrap(n) == ((n + MaxInt + 1) % (2 * (MaxInt + 1))) - MaxInt - 1
Bytes(gigabytes) == Wrap(gigabytes * GiB)

\* hintsMatch, one field
FieldMatches(d, h, f) ==
    CASE f = "min" -> d.size >= Bytes(h.min)
      [] f = "max" -> d.size <= Bytes(h.max)
      [] f = "model" -> d.model = h.model
      [] OTHER -> d[f] = h[f]
hintsMatch(d, h) == \A f \in DOMAIN h : FieldMatches(d, h, f)

\* Match: the index of the one disk the hints select, or None.
Matches(disks, h) == {i \in DOMAIN disks : hintsMatch(disks[i], h)}
Match(disks, h) ==
    LET m == Matches(disks, h) IN IF Cardinality(m) = 1 THEN CHOOSE i \in m : TRUE ELSE None

\* Mutant: disks are told apart by their device name.
identityByName(d) == d.dev
diskIdentity(d) == IF d.serial # "" THEN d.serial ELSE d.dev

\* CheckDistinct
CheckDistinct(selected) ==
    \A i, j \in DOMAIN selected :
      i # j => diskIdentity(selected[i]) # diskIdentity(selected[j])

(***************************************************************************)
(* The claim's hardware selector: Kuhn's algorithm.                        *)
(***************************************************************************)
\* diskMatchesRequirement: the model is compared with its blank space.
diskMatchesRequirement(d, req) ==
    \A f \in DOMAIN req :
      CASE f = "min" -> d.size >= Bytes(req.min)
        [] f = "model" -> d.model = req.model /\ d.pad = ""
        [] OTHER -> d[f] = req[f]

Adjacent(disks, reqs) ==
    [i \in DOMAIN reqs |->
       SelectSeq([j \in DOMAIN disks |-> j], LAMBDA j : diskMatchesRequirement(disks[j], reqs[i]))]

\* Mutant: no earlier requirement is moved to another disk.
noAugment(req, adj, held) ==
    LET free == {j \in DOMAIN adj[req] : held[adj[req][j]] = 0}
    IN IF free = {} THEN [ok |-> FALSE, held |-> held]
       ELSE [ok |-> TRUE, held |-> [held EXCEPT ![adj[req][Min(free)]] = req]]

\* tryAugmentDiskMatch: held is matchOfDisk, seen the visited disks; try[r, h, s, k] is the
\* call for requirement r from candidate k on.
tryAugment(req, adj, held) ==
    LET try[r \in DOMAIN adj, h \in [DOMAIN held -> Nat], seen \in SUBSET DOMAIN held, k \in Nat] ==
          IF k > Len(adj[r]) THEN [ok |-> FALSE, held |-> h, seen |-> seen]
          ELSE LET disk == adj[r][k]
                   moved == try[h[disk], h, seen \cup {disk}, 1]
               IN IF disk \in seen THEN try[r, h, seen, k + 1]
                  ELSE IF h[disk] = 0
                  THEN [ok |-> TRUE, held |-> [h EXCEPT ![disk] = r], seen |-> seen]
                  ELSE IF moved.ok THEN [moved EXCEPT !.held[disk] = r]
                  ELSE try[r, moved.held, moved.seen, k + 1]
    IN try[req, held, {}, 1]

\* disksSatisfy: all[i, held] is the loop from requirement i on.
disksSatisfy(disks, reqs) ==
    LET adj == Adjacent(disks, reqs)
        all[i \in Nat, held \in [DOMAIN disks -> Nat]] ==
          i > Len(reqs) \/ LET r == tryAugment(i, adj, held) IN r.ok /\ all[i + 1, r.held]
    IN Len(reqs) = 0 \/ (Len(reqs) <= Len(disks) /\ all[1, [j \in DOMAIN disks |-> 0]])

\* hardwareMatchesSelector
hardwareMatchesSelector(hw, sel) ==
    /\ sel.minCPU = None \/ hw.cpu >= sel.minCPU
    /\ disksSatisfy(hw.disks, sel.disks)
==============================================================================
