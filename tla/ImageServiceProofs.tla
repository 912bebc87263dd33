------------------------- MODULE ImageServiceProofs -------------------------
(***************************************************************************)
(* Theorems about the staging area, for every number of clients, names and *)
(* uploads, every quota and every volume: what was admitted fits, the      *)
(* quota is kept, and an acknowledged upload stays what it was.            *)
(***************************************************************************)
EXTENDS ImageService, FiniteSetTheorems, TLAPS

(***************************************************************************)
(* Sums.                                                                   *)
(***************************************************************************)
Column(f, x) == {x} \X (1..f[x])

\* One value's blocks are as many as the value says.
LEMMA ColumnSize ==
    ASSUME NEW f, NEW x, f[x] \in Nat
    PROVE  IsFiniteSet(Column(f, x)) /\ Cardinality(Column(f, x)) = f[x]
  <1>1. IsFiniteSet(1..f[x]) /\ Cardinality(1..f[x]) = f[x]
    <2>1. PICK k \in Nat : k = f[x]
      BY Zenon
    <2>2. IsFiniteSet(1..k) /\ Cardinality(1..k) = IF 1 > k THEN 0 ELSE k - 1 + 1
      <3>1. 1 \in Int /\ k \in Int
        OBVIOUS
      <3>2. QED
        BY <3>1, FS_Interval, Zenon
    <2>3. Cardinality(1..k) = k
      BY <2>2
    <2>4. QED
      BY <2>1, <2>2, <2>3, Zenon
  <1>2. IsFiniteSet({x}) /\ Cardinality({x}) = 1
    BY FS_Singleton, Zenon
  <1>3. /\ IsFiniteSet({x} \X (1..f[x]))
        /\ Cardinality({x} \X (1..f[x])) = Cardinality({x}) * Cardinality(1..f[x])
    BY <1>1, <1>2, FS_Product
  <1>4. Cardinality({x} \X (1..f[x])) = 1 * f[x]
    BY <1>1, <1>2, <1>3
  <1>5. QED
    BY <1>3, <1>4 DEF Column

\* Finitely many values have finitely many blocks.
LEMMA TotalType ==
    ASSUME NEW S, IsFiniteSet(S), NEW f \in [S -> Nat]
    PROVE  IsFiniteSet(Blocks(f)) /\ Total(f) \in Nat
  <1> DEFINE g == [x \in S |-> Column(f, x)]
             T == {Column(f, x) : x \in S}
  <1>1. g \in Surjection(S, T)
    BY DEF Surjection
  <1>2. IsFiniteSet(T)
    BY <1>1, FS_Surjection
  <1>3. \A t \in T : IsFiniteSet(t)
    BY ColumnSize
  <1>4. IsFiniteSet(UNION T)
    BY <1>2, <1>3, FS_UNION
  <1>5. Blocks(f) = UNION T
    BY DEF Blocks, Column
  <1>6. QED
    BY <1>4, <1>5, FS_CardinalityType DEF Total

\* Where every value is at least as large, so is the sum.
LEMMA TotalGrows ==
    ASSUME NEW S, IsFiniteSet(S), NEW f \in [S -> Nat], NEW g \in [S -> Nat],
           \A x \in S : f[x] <= g[x]
    PROVE  Total(f) <= Total(g)
  <1>1. Blocks(f) \subseteq Blocks(g)
    <2>1. ASSUME NEW b \in Blocks(f) PROVE b \in Blocks(g)
      <3>1. PICK x \in S : b \in {x} \X (1..f[x])
        BY <2>1 DEF Blocks
      <3>2. 1..f[x] \subseteq 1..g[x]
        OBVIOUS
      <3>3. b \in {x} \X (1..g[x])
        BY <3>1, <3>2
      <3>4. QED
        BY <3>3 DEF Blocks
    <2>2. QED
      BY <2>1
  <1>2. QED
    BY <1>1, TotalType, FS_Subset DEF Total

\* Nothing sums up to nothing.
LEMMA TotalZero ==
    ASSUME NEW S, NEW f \in [S -> Nat], \A x \in S : f[x] = 0
    PROVE  Total(f) = 0
  <1>1. Blocks(f) = {}
    <2>1. ASSUME NEW b \in Blocks(f) PROVE FALSE
      <3>1. PICK x \in S : b \in {x} \X (1..f[x])
        BY <2>1 DEF Blocks
      <3>2. 1..f[x] = {}
        OBVIOUS
      <3>3. QED
        BY <3>1, <3>2
    <2>2. QED
      BY <2>1
  <1>2. QED
    BY <1>1, FS_EmptySet DEF Total

\* One value's blocks and the others'.
LEMMA TotalSplit ==
    ASSUME NEW S, IsFiniteSet(S), NEW f \in [S -> Nat], NEW x \in S
    PROVE  /\ IsFiniteSet(Blocks(f) \ Column(f, x))
           /\ Total(f) = f[x] + Cardinality(Blocks(f) \ Column(f, x))
  <1> DEFINE B == Blocks(f)
             C == Column(f, x)
  <1>1. IsFiniteSet(B)
    BY TotalType
  <1>2. IsFiniteSet(C) /\ Cardinality(C) = f[x]
    BY ColumnSize
  <1>3. B \cap C = C
    BY DEF Blocks, Column
  <1>4. IsFiniteSet(B \ C) /\ Cardinality(B \ C) = Cardinality(B) - Cardinality(B \cap C)
    BY <1>1, FS_Difference, Zenon
  <1>5. Cardinality(B) \in Nat /\ Cardinality(B \ C) \in Nat
    BY <1>1, <1>4, FS_CardinalityType
  <1> HIDE DEF B, C
  <1>6. Cardinality(B) = f[x] + Cardinality(B \ C)
    BY <1>2, <1>3, <1>4, <1>5
  <1>7. QED
    BY <1>4, <1>6 DEF Total, B, C

\* A sum follows the one value that changes.
LEMMA TotalMoves ==
    ASSUME NEW S, IsFiniteSet(S), NEW f \in [S -> Nat], NEW g \in [S -> Nat], NEW x \in S,
           \A y \in S : y # x => g[y] = f[y]
    PROVE  Total(g) = Total(f) - f[x] + g[x]
  <1>1. Blocks(f) \ Column(f, x) = Blocks(g) \ Column(g, x)
    <2>1. \A y \in S : y # x => {y} \X (1..g[y]) = {y} \X (1..f[y])
      OBVIOUS
    <2>2. Blocks(f) \ Column(f, x) = UNION {{y} \X (1..f[y]) : y \in S \ {x}}
      BY DEF Blocks, Column
    <2>3. Blocks(g) \ Column(g, x) = UNION {{y} \X (1..g[y]) : y \in S \ {x}}
      BY DEF Blocks, Column
    <2>4. QED
      BY <2>1, <2>2, <2>3
  <1>2. IsFiniteSet(Blocks(f) \ Column(f, x))
    BY TotalSplit
  <1>3. Total(f) = f[x] + Cardinality(Blocks(f) \ Column(f, x))
    BY TotalSplit
  <1>4. Total(g) = g[x] + Cardinality(Blocks(f) \ Column(f, x))
    BY <1>1, TotalSplit
  <1>5. PICK k \in Nat : k = Cardinality(Blocks(f) \ Column(f, x))
    BY <1>2, FS_CardinalityType
  <1>6. QED
    BY <1>3, <1>4, <1>5

(***************************************************************************)
(* The inductive invariant.                                                *)
(***************************************************************************)
Handler == [pc : {"idle", "scanned", "stream", "hashed", "renamed", "marking", "stored",
                  "refused"},
            name : Names \cup {None}, body : Contents \cup {None}, linked : BOOLEAN, used : Nat]

\* An upload that is somewhere has a name and a body, and so has a Job.
UploadsInv ==
    /\ \A c \in Clients : up[c].pc \notin {"idle", "refused"} =>
                            up[c].name \in Names /\ up[c].body \in Contents
    /\ \A c \in Clients : up[c].pc = "idle" => up[c].body = None
    /\ job.pc # "none" => job.name \in Names
    /\ job.pc = "removing" => job.name \in spent.removed

Reserving == Promised \cup {"stored", "refused"}

\* The ledger is the sum of the bodies admitted and not released.  Whoever has scanned the
\* markers holds mu, and what has been finished since its scan is still reserved.
LedgerInv ==
    /\ reserved = Total(BodiesAt(Reserving))
    /\ \A c \in Clients : up[c].pc = "scanned" =>
         mu = c /\ UsedBytes + Total(BodiesAt(Promised)) <= up[c].used + reserved

\* What a handler is doing to a name: renamed and marking hold finalizeMu.
Doing(c, n) ==
    /\ up[c].pc = "renamed" => data[n] = up[c].body /\ marker[n] = None
    /\ up[c].pc = "marking" => data[n] = up[c].body /\ marker[n] = Torn
    /\ up[c].pc = "stored" => data[n] = up[c].body /\ marker[n] = up[c].body

\* Of a name nothing was ever removed from: a marker names the file beside it, and so do the
\* handlers on their way.
NamesInv ==
    /\ \A c \in Clients : up[c].pc \in {"renamed", "marking"} => final = c
    /\ \A n \in Names \ spent.removed :
         /\ Complete(n) => data[n] = marker[n]
         /\ \A c \in Clients : up[c].name = n => Doing(c, n)

Inv ==
    /\ TypeOK /\ UploadsInv /\ LedgerInv /\ QuotaKept /\ AdmittedFits
    /\ NamesInv /\ AckedUploadStays

(***************************************************************************)
(* Types.                                                                  *)
(***************************************************************************)
LEMMA IdleIsHandler ==
    /\ Idle \in Handler /\ Idle.pc = "idle" /\ Idle.body = None /\ Idle.name = None
    /\ [Idle EXCEPT !.pc = "refused"] \in Handler
    /\ [Idle EXCEPT !.pc = "refused"].pc = "refused"
    /\ [Idle EXCEPT !.pc = "refused"].body = None
  BY Zenon DEF Idle, Handler

LEMMA BytesType == \A x : Bytes(x) \in Nat /\ (x \in Contents => Bytes(x) = Size[x])
  BY SizesArePositive DEF Bytes

\* What a handler adds to the sum of the bodies at the given places.
Share(h, pcs) == IF h.pc \in pcs THEN Bytes(h.body) ELSE 0

LEMMA SumTypes ==
    ASSUME NEW pcs
    PROVE  /\ MarkedBytes \in [Names -> Nat] /\ StoredBytes \in [Names -> Nat]
           /\ TempBytes \in [Clients -> Nat] /\ BodiesAt(pcs) \in [Clients -> Nat]
           /\ UsedBytes \in Nat /\ Total(StoredBytes) \in Nat /\ Total(TempBytes) \in Nat
           /\ Total(BodiesAt(pcs)) \in Nat
  <1>1. /\ MarkedBytes \in [Names -> Nat] /\ StoredBytes \in [Names -> Nat]
        /\ TempBytes \in [Clients -> Nat] /\ BodiesAt(pcs) \in [Clients -> Nat]
    BY BytesType DEF MarkedBytes, StoredBytes, TempBytes, BodiesAt
  <1>2. QED
    BY <1>1, FinitelyMany, TotalType DEF UsedBytes

\* The sum of the bodies follows the one handler that moves.
LEMMA BodiesMove ==
    ASSUME TypeOK, NEW c \in Clients, NEW r \in Handler, up' = [up EXCEPT ![c] = r], NEW pcs
    PROVE  Total(BodiesAt(pcs))' = Total(BodiesAt(pcs)) - Share(up[c], pcs) + Share(r, pcs)
  <1>1. up'[c] = r /\ \A d \in Clients : d # c => up'[d] = up[d]
    BY DEF TypeOK
  <1>2. BodiesAt(pcs) \in [Clients -> Nat] /\ BodiesAt(pcs)' \in [Clients -> Nat]
    BY BytesType DEF BodiesAt
  <1>3. BodiesAt(pcs)[c] = Share(up[c], pcs) /\ BodiesAt(pcs)'[c] = Share(r, pcs)
    BY <1>1 DEF BodiesAt, Share
  <1>4. \A d \in Clients : d # c => BodiesAt(pcs)'[d] = BodiesAt(pcs)[d]
    BY <1>1 DEF BodiesAt
  <1>5. Total(BodiesAt(pcs)') = Total(BodiesAt(pcs)) - BodiesAt(pcs)[c] + BodiesAt(pcs)'[c]
    <2>1. PICK f \in [Clients -> Nat] : f = BodiesAt(pcs)
      BY <1>2
    <2>2. PICK g \in [Clients -> Nat] : g = BodiesAt(pcs)'
      BY <1>2
    <2>3. Total(g) = Total(f) - f[c] + g[c]
      BY <1>4, <2>1, <2>2, FinitelyMany, TotalMoves
    <2>4. QED
      BY <2>1, <2>2, <2>3
  <1>6. Total(BodiesAt(pcs))' = Total(BodiesAt(pcs)')
    OBVIOUS
  <1>7. QED
    BY <1>3, <1>5, <1>6

\* The names' sums follow the one file that is written.
LEMMA MarkerMoves ==
    ASSUME TypeOK, NEW n \in Names, NEW v, marker' = [marker EXCEPT ![n] = v]
    PROVE  UsedBytes' = UsedBytes - Bytes(marker[n]) + Bytes(v)
  <1>1. MarkedBytes \in [Names -> Nat] /\ MarkedBytes' \in [Names -> Nat]
    BY BytesType DEF MarkedBytes
  <1>2. MarkedBytes[n] = Bytes(marker[n]) /\ MarkedBytes'[n] = Bytes(v)
    BY DEF MarkedBytes, TypeOK
  <1>3. \A m \in Names : m # n => MarkedBytes'[m] = MarkedBytes[m]
    BY DEF MarkedBytes, TypeOK
  <1>4. PICK f \in [Names -> Nat] : f = MarkedBytes
    BY <1>1
  <1>5. PICK g \in [Names -> Nat] : g = MarkedBytes'
    BY <1>1
  <1>6. Total(g) = Total(f) - f[n] + g[n]
    BY <1>3, <1>4, <1>5, FinitelyMany, TotalMoves
  <1>7. UsedBytes = Total(f) /\ UsedBytes' = Total(g)
    BY <1>4, <1>5 DEF UsedBytes
  <1>8. QED
    BY <1>2, <1>4, <1>5, <1>6, <1>7

LEMMA DataMoves ==
    ASSUME TypeOK, NEW n \in Names, NEW v, data' = [data EXCEPT ![n] = v]
    PROVE  Total(StoredBytes)' = Total(StoredBytes) - Bytes(data[n]) + Bytes(v)
  <1>1. StoredBytes \in [Names -> Nat] /\ StoredBytes' \in [Names -> Nat]
    BY BytesType DEF StoredBytes
  <1>2. StoredBytes[n] = Bytes(data[n]) /\ StoredBytes'[n] = Bytes(v)
    BY DEF StoredBytes, TypeOK
  <1>3. \A m \in Names : m # n => StoredBytes'[m] = StoredBytes[m]
    BY DEF StoredBytes, TypeOK
  <1>4. PICK f \in [Names -> Nat] : f = StoredBytes
    BY <1>1
  <1>5. PICK g \in [Names -> Nat] : g = StoredBytes'
    BY <1>1
  <1>6. Total(g) = Total(f) - f[n] + g[n]
    BY <1>3, <1>4, <1>5, FinitelyMany, TotalMoves
  <1>7. Total(StoredBytes)' = Total(g)
    BY <1>5
  <1>8. QED
    BY <1>2, <1>4, <1>5, <1>6, <1>7

(***************************************************************************)
(* How a handler moves.                                                    *)
(***************************************************************************)
\* Handler c goes on with its upload.
Goes(c, to) ==
    \E r \in Handler : /\ up' = [up EXCEPT ![c] = r]
                       /\ r.pc = to /\ r.name = up[c].name /\ r.body = up[c].body

\* Handler c takes the given place without a body.
Drops(c, to) ==
    \E r \in Handler : up' = [up EXCEPT ![c] = r] /\ r.pc = to /\ r.body = None

LEMMA GoesOn ==
    ASSUME TypeOK, NEW c \in Clients,
           NEW to \in {"stream", "hashed", "renamed", "marking", "stored", "refused"},
           \/ up' = [up EXCEPT ![c].pc = to]
           \/ up' = [up EXCEPT ![c].pc = to, ![c].linked = FALSE]
           \/ up' = [up EXCEPT ![c].pc = to, ![c].linked = TRUE, ![c].used = 0]
    PROVE  Goes(c, to)
  <1>1. up \in [Clients -> Handler]
    BY DEF TypeOK, Handler
  <1>2. PICK h \in Handler : h = up[c]
    BY <1>1
  <1>3. CASE up' = [up EXCEPT ![c].pc = to]
    <2>1. PICK r : r = [h EXCEPT !.pc = to]
      BY Zenon
    <2>2. r \in Handler /\ r.pc = to /\ r.name = h.name /\ r.body = h.body
      BY <2>1 DEF Handler
    <2>3. up' = [up EXCEPT ![c] = r]
      BY <1>2, <1>3, <2>1
    <2>4. QED
      BY <1>2, <2>2, <2>3, Zenon DEF Goes
  <1>4. CASE up' = [up EXCEPT ![c].pc = to, ![c].linked = FALSE]
    <2>1. PICK r : r = [h EXCEPT !.pc = to, !.linked = FALSE]
      OBVIOUS
    <2>2. r \in Handler /\ r.pc = to /\ r.name = h.name /\ r.body = h.body
      BY <2>1, Zenon DEF Handler
    <2>3. up' = [up EXCEPT ![c] = r]
      BY <1>1, <1>2, <1>4, <2>1, Zenon
    <2>4. QED
      BY <1>2, <2>2, <2>3, Zenon DEF Goes
  <1>5. CASE up' = [up EXCEPT ![c].pc = to, ![c].linked = TRUE, ![c].used = 0]
    <2>1. PICK r : r = [h EXCEPT !.pc = to, !.linked = TRUE, !.used = 0]
      OBVIOUS
    <2>2. r \in Handler /\ r.pc = to /\ r.name = h.name /\ r.body = h.body
      BY <2>1, Zenon DEF Handler
    <2>3. up' = [up EXCEPT ![c] = r]
      BY <1>1, <1>2, <1>5, <2>1, Zenon
    <2>4. QED
      BY <1>2, <2>2, <2>3, Zenon DEF Goes
  <1>6. QED
    BY <1>3, <1>4, <1>5

\* What the request handlers do to their own state.
LEMMA HandlerSteps ==
    ASSUME TypeOK, NEW c \in Clients
    PROVE  /\ Stream(c) => Goes(c, "hashed")
           /\ StreamCut(c) => Goes(c, "refused")
           /\ Finalize(c) => Goes(c, "stored") \/ Goes(c, "refused") \/ Goes(c, "renamed")
           /\ CreateMarker(c) => Goes(c, "marking")
           /\ WriteMarker(c) => Goes(c, "stored")
           /\ MarkerFails(c) => Goes(c, "refused")
           /\ Answer(c) => Drops(c, "idle")
           /\ Reserve(c) /\ QuotaOK(c) /\ SpaceOK(c) => Goes(c, "stream")
           /\ Reserve(c) /\ ~(QuotaOK(c) /\ SpaceOK(c)) => Drops(c, "refused")
  <1>1. Stream(c) => Goes(c, "hashed")
    BY GoesOn, ZenonT(40) DEF Stream
  <1>2. StreamCut(c) => Goes(c, "refused")
    BY GoesOn, ZenonT(40) DEF StreamCut, Fail
  <1>3. Finalize(c) => Goes(c, "stored") \/ Goes(c, "refused") \/ Goes(c, "renamed")
    BY GoesOn, ZenonT(40) DEF Finalize, Fail
  <1>4. CreateMarker(c) => Goes(c, "marking")
    BY GoesOn, ZenonT(40) DEF CreateMarker
  <1>5. WriteMarker(c) => Goes(c, "stored")
    BY GoesOn, ZenonT(40) DEF WriteMarker
  <1>6. MarkerFails(c) => Goes(c, "refused")
    BY GoesOn, Zenon DEF MarkerFails, Fail
  <1>7. Answer(c) => Drops(c, "idle")
    BY IdleIsHandler, Zenon DEF Answer, Drops
  <1>8. Reserve(c) /\ QuotaOK(c) /\ SpaceOK(c) => Goes(c, "stream")
    BY GoesOn, Zenon DEF Reserve
  <1>9. Reserve(c) /\ ~(QuotaOK(c) /\ SpaceOK(c)) => Drops(c, "refused")
    BY IdleIsHandler, Zenon DEF Reserve, Drops
  <1>10. QED
    BY <1>1, <1>2, <1>3, <1>4, <1>5, <1>6, <1>7, <1>8, <1>9

\* A handler that moves leaves the others where they are.
LEMMA OneMoves ==
    ASSUME TypeOK, NEW c \in Clients, NEW r \in Handler, up' = [up EXCEPT ![c] = r]
    PROVE  /\ up' \in [Clients -> Handler] /\ up'[c] = r
           /\ \A d \in Clients : d # c => up'[d] = up[d]
  BY DEF TypeOK, Handler

\* Everything but the handlers keeps its type.
Rest ==
    /\ data \in [Names -> Contents \cup {None}]
    /\ marker \in [Names -> Contents \cup {None, Torn}]
    /\ mu \in Clients \cup {None} /\ final \in Clients \cup {None}
    /\ reserved \in Int
    /\ acked \in [Names -> SUBSET Contents]
    /\ job \in [pc : {"none", "resolved", "removing"}, name : Names \cup {None},
                sum : Contents \cup {None}, todo : SUBSET {"data", "marker"}]
    /\ spent \in [ingests : 0..MaxIngests, mishaps : 0..MaxMishaps, removed : SUBSET Names]

LEMMA HitType ==
    ASSUME TypeOK, Mishap, Hit
    PROVE  /\ spent' \in [ingests : 0..MaxIngests, mishaps : 0..MaxMishaps, removed : SUBSET Names]
           /\ spent'.removed = spent.removed
  <1>1. spent.mishaps + 1 \in 0..MaxMishaps
    BY BoundsAreNaturals DEF Mishap, TypeOK
  <1>2. QED
    BY <1>1 DEF Hit, TypeOK

\* What a client's request does keeps the types.
LEMMA TypeOfRequests ==
    ASSUME TypeOK, UploadsInv, NEW c \in Clients, Serve(c) \/ StreamCut(c) \/ MarkerFails(c)
    PROVE  TypeOK'
  <1>1. up' \in [Clients -> Handler]
    <2>1. Drops(c, "idle") \/ Drops(c, "refused") \/ \E to : Goes(c, to)
      BY HandlerSteps, Zenon DEF Serve
    <2>2. QED
      BY <2>1, OneMoves DEF Goes, Drops
  <1>0. SUFFICES Rest'
    BY <1>1 DEF TypeOK, Rest, Handler
  <1>2. up[c].body \in Contents \cup {None} /\ up[c].name \in Names \cup {None}
    BY DEF TypeOK
  <1>3. Rest
    BY DEF TypeOK, Rest
  <1>4. CASE Reserve(c)
    <2>1. reserved' \in Int
      <3>1. CASE QuotaOK(c) /\ SpaceOK(c)
        <4>1. up[c].body \in Contents
          BY <1>4 DEF Reserve, UploadsInv
        <4>2. Size[up[c].body] \in Int
          BY <4>1, SizesArePositive
        <4>3. QED
          BY <1>3, <1>4, <3>1, <4>2 DEF Reserve, Rest
      <3>2. QED
        BY <1>3, <1>4, <3>1 DEF Reserve, Rest
    <2>2. QED
      BY <1>3, <1>4, <2>1 DEF Reserve, Rest
  <1>5. CASE Stream(c)
    BY <1>3, <1>5 DEF Stream, Rest
  <1>6. CASE Finalize(c)
    <2>1. up[c].body \in Contents /\ up[c].name \in Names
      BY <1>6 DEF Finalize, UploadsInv
    <2>2. data' \in [Names -> Contents \cup {None}] /\ final' \in Clients \cup {None}
      BY <1>3, <1>6, <2>1 DEF Finalize, Rest
    <2>3. QED
      BY <1>3, <1>6, <2>2 DEF Finalize, Rest
  <1>7. CASE CreateMarker(c)
    BY <1>3, <1>7, Zenon DEF CreateMarker, Rest
  <1>8. CASE WriteMarker(c)
    BY <1>2, <1>3, <1>8, Zenon DEF WriteMarker, Rest
  <1>9. CASE Answer(c)
    <2>1. reserved' \in Int
      BY <1>3, <1>9, BytesType DEF Answer, Return, Rest
    <2>2. acked' \in [Names -> SUBSET Contents]
      <3>1. CASE up[c].pc = "stored"
        <4>1. up[c].name \in Names /\ up[c].body \in Contents
          BY <3>1 DEF UploadsInv
        <4>2. acked' = [acked EXCEPT ![up[c].name] = @ \cup {up[c].body}]
          BY <1>9, <3>1 DEF Answer
        <4>3. QED
          BY <1>3, <4>1, <4>2 DEF Rest
      <3>2. QED
        BY <1>3, <1>9, <3>1 DEF Answer, Rest
    <2>3. QED
      BY <1>3, <1>9, <2>1, <2>2 DEF Answer, Rest
  <1>10. CASE StreamCut(c)
    BY <1>3, <1>10, HitType DEF StreamCut, Rest
  <1>11. CASE MarkerFails(c)
    BY <1>3, <1>11, HitType, Zenon DEF MarkerFails, Rest
  <1>12. QED
    BY <1>4, <1>5, <1>6, <1>7, <1>8, <1>9, <1>10, <1>11 DEF Serve

LEMMA TypeOfBegin ==
    ASSUME TypeOK, NEW c \in Clients, NEW n \in Names, NEW x \in Contents, Begin(c, n, x)
    PROVE  /\ TypeOK'
           /\ \/ Drops(c, "refused") /\ mu' = mu
              \/ \E r \in Handler : /\ up' = [up EXCEPT ![c] = r] /\ mu' = c
                                    /\ r.pc = "scanned" /\ r.name = n /\ r.body = x
                                    /\ r.used = UsedBytes
  <1>1. \/ Drops(c, "refused") /\ mu' = mu
        \/ \E r \in Handler : /\ up' = [up EXCEPT ![c] = r] /\ mu' = c
                              /\ r.pc = "scanned" /\ r.name = n /\ r.body = x
                              /\ r.used = UsedBytes
    <2>1. CASE Quota > 0 /\ AnyTorn
      BY <2>1, IdleIsHandler, Zenon DEF Begin, Drops
    <2>2. CASE ~(Quota > 0 /\ AnyTorn)
      <3>1. UsedBytes \in Nat
        BY SumTypes
      <3>2. PICK u \in Nat : u = UsedBytes
        BY <3>1
      <3>3. PICK r : r = [pc |-> "scanned", name |-> n, body |-> x, linked |-> FALSE, used |-> u]
        BY Zenon
      <3>4. r \in Handler /\ r.pc = "scanned" /\ r.name = n /\ r.body = x /\ r.used = u
        BY <3>3 DEF Handler
      <3>5. up' = [up EXCEPT ![c] = r] /\ mu' = c
        BY <2>2, <3>2, <3>3 DEF Begin
      <3>6. QED
        BY <3>2, <3>4, <3>5, Zenon
    <2>3. QED
      BY <2>1, <2>2
  <1>2. up' \in [Clients -> Handler] /\ mu' \in Clients \cup {None}
    BY <1>1, OneMoves DEF Drops, TypeOK
  <1>3. QED
    BY <1>1, <1>2 DEF Begin, TypeOK, Handler

JobType == [pc : {"none", "resolved", "removing"}, name : Names \cup {None},
            sum : Contents \cup {None}, todo : SUBSET {"data", "marker"}]

LEMMA NoJobType == NoJob \in JobType /\ NoJob.pc = "none"
  BY DEF NoJob, JobType

\* The ingest Job and the sweep touch neither what a handler is about nor where it is.
Untouched ==
    \A d \in Clients : /\ up'[d].pc = up[d].pc /\ up'[d].name = up[d].name
                       /\ up'[d].body = up[d].body /\ up'[d].used = up[d].used

LEMMA StartIngestFacts ==
    ASSUME TypeOK, NEW n \in Names, StartIngest(n)
    PROVE  /\ TypeOK' /\ Untouched /\ spent'.removed = spent.removed
           /\ job'.pc \in {"none", "resolved"} /\ (job'.pc = "resolved" => job'.name = n)
  <1>1. up \in [Clients -> Handler]
    BY DEF TypeOK, Handler
  <1>2. up' = [c \in Clients |-> [up[c] EXCEPT !.linked = FALSE]]
    BY DEF StartIngest
  <1>3. up' \in [Clients -> Handler] /\ Untouched
    BY <1>1, <1>2, ZenonT(40) DEF Handler, Untouched
  <1>4. spent.ingests + 1 \in 0..MaxIngests
    BY BoundsAreNaturals DEF StartIngest, TypeOK
  <1>5. /\ spent' \in [ingests : 0..MaxIngests, mishaps : 0..MaxMishaps, removed : SUBSET Names]
        /\ spent'.removed = spent.removed
    BY <1>4, Zenon DEF StartIngest, TypeOK
  <1>6. PICK x \in acked[n] :
          job' = IF Complete(n)
                 THEN [pc |-> "resolved", name |-> n, sum |-> x, todo |-> {}] ELSE NoJob
    BY Zenon DEF StartIngest
  <1>7. x \in Contents
    BY <1>6 DEF TypeOK
  <1>8. /\ job' \in JobType
        /\ job'.pc \in {"none", "resolved"} /\ (job'.pc = "resolved" => job'.name = n)
    <2>1. CASE Complete(n)
      BY <1>6, <1>7, <2>1 DEF JobType
    <2>2. CASE ~Complete(n)
      BY <1>6, <2>2, NoJobType
    <2>3. QED
      BY <2>1, <2>2
  <1>9. QED
    BY <1>3, <1>5, <1>8 DEF StartIngest, TypeOK, Handler, JobType

LEMMA ReadUploadFacts ==
    ASSUME TypeOK, UploadsInv, ReadUpload
    PROVE  /\ TypeOK' /\ UNCHANGED <<data, marker, up, mu, final, reserved, acked>>
           /\ spent.removed \subseteq spent'.removed
           /\ job'.pc # "none" => job'.name \in Names /\ job'.name \in spent'.removed
  <1>1. job \in JobType /\ job.name \in Names
    BY DEF ReadUpload, TypeOK, JobType, UploadsInv
  <1>2. CASE data[job.name] = job.sum
    <2> DEFINE files == {f \in {"data", "marker"} : IF f = "data" THEN data[job.name] # None
                                                     ELSE marker[job.name] # None}
    <2>1. /\ job' = [job EXCEPT !.pc = "removing", !.todo = files]
          /\ spent' = [spent EXCEPT !.removed = @ \cup {job.name}]
      BY <1>2 DEF ReadUpload
    <2>2. files \in SUBSET {"data", "marker"}
      OBVIOUS
    <2> HIDE DEF files
    <2>3. job' \in JobType /\ job'.name = job.name
      BY <1>1, <2>1, <2>2, Zenon DEF JobType
    <2>4. /\ spent' \in [ingests : 0..MaxIngests, mishaps : 0..MaxMishaps, removed : SUBSET Names]
          /\ spent'.removed = spent.removed \cup {job.name}
      BY <1>1, <2>1 DEF TypeOK
    <2>5. QED
      BY <1>1, <2>3, <2>4 DEF ReadUpload, TypeOK, JobType
  <1>3. CASE data[job.name] # job.sum
    BY <1>3, NoJobType DEF ReadUpload, TypeOK, JobType
  <1>4. QED
    BY <1>2, <1>3

LEMMA UnlinkFacts ==
    ASSUME TypeOK, UploadsInv, NEW f \in {"data", "marker"}, Unlink(f)
    PROVE  /\ TypeOK' /\ UNCHANGED <<up, mu, final, reserved, acked, spent>>
           /\ job.name \in Names /\ job.name \in spent.removed
           /\ data' \in {data, [data EXCEPT ![job.name] = None]}
           /\ marker' \in {marker, [marker EXCEPT ![job.name] = None]}
           /\ job'.pc # "none" => job'.pc = job.pc /\ job'.name = job.name
  <1>1. job \in JobType /\ job.name \in Names /\ job.name \in spent.removed
    BY DEF Unlink, TypeOK, JobType, UploadsInv
  <1>2. /\ data' \in {data, [data EXCEPT ![job.name] = None]}
        /\ marker' \in {marker, [marker EXCEPT ![job.name] = None]}
    BY DEF Unlink
  <1>3. /\ data' \in [Names -> Contents \cup {None}]
        /\ marker' \in [Names -> Contents \cup {None, Torn}]
    BY <1>2 DEF TypeOK
  <1>4. job' \in JobType /\ (job'.pc # "none" => job'.pc = job.pc /\ job'.name = job.name)
    <2>1. CASE job.todo = {f}
      BY <2>1, NoJobType DEF Unlink
    <2>2. CASE job.todo # {f}
      <3>1. job' = [job EXCEPT !.todo = @ \ {f}]
        BY <2>2 DEF Unlink
      <3>2. QED
        BY <1>1, <3>1 DEF JobType
    <2>3. QED
      BY <2>1, <2>2
  <1>5. QED
    BY <1>1, <1>2, <1>3, <1>4 DEF Unlink, TypeOK, JobType

LEMMA CrashFacts ==
    ASSUME TypeOK, Crash
    PROVE  /\ TypeOK' /\ spent'.removed = spent.removed /\ UNCHANGED <<data, marker, acked, job>>
           /\ mu' = None /\ final' = None /\ reserved' = 0
           /\ \A d \in Clients : up'[d].pc = "idle" /\ up'[d].body = None
  <1>1. up' \in [Clients -> Handler] /\ \A d \in Clients : up'[d].pc = "idle" /\ up'[d].body = None
    BY IdleIsHandler DEF Crash
  <1>2. QED
    BY <1>1, HitType DEF Crash, TypeOK, Handler

LEMMA IngestKilledFacts ==
    ASSUME TypeOK, IngestKilled
    PROVE  /\ TypeOK' /\ UNCHANGED <<data, marker, up, mu, final, reserved, acked>>
           /\ spent'.removed = spent.removed /\ job'.pc = "none"
  BY HitType, NoJobType DEF IngestKilled, TypeOK, JobType

\* Every upload keeps its name and body.
LEMMA UploadsKept ==
    ASSUME TypeOK, UploadsInv, [Next]_vars
    PROVE  TypeOK' /\ UploadsInv'
  <1>1. ASSUME NEW c \in Clients, Serve(c) \/ StreamCut(c) \/ MarkerFails(c)
        PROVE  TypeOK' /\ UploadsInv'
    <2>1. job' = job /\ spent'.removed = spent.removed
      BY <1>1, HitType DEF Serve, StreamCut, MarkerFails, Reserve, Stream, Finalize, CreateMarker,
                           WriteMarker, Answer
    <2>2. up[c].pc \notin {"idle", "refused"} \/ Drops(c, "idle")
      BY <1>1, HandlerSteps, Zenon DEF Serve, StreamCut, MarkerFails, Reserve, Stream, Finalize,
                                CreateMarker, WriteMarker
    <2>3. \/ Drops(c, "idle") \/ Drops(c, "refused")
          \/ \E to \in {"hashed", "refused", "stored", "renamed", "marking", "stream"} : Goes(c, to)
      BY <1>1, HandlerSteps, Zenon DEF Serve
    <2>4. \A d \in Clients : /\ up'[d].pc \notin {"idle", "refused"} =>
                                  up'[d].name \in Names /\ up'[d].body \in Contents
                             /\ up'[d].pc = "idle" => up'[d].body = None
      <3>1. CASE Drops(c, "idle") \/ Drops(c, "refused")
        BY <3>1, OneMoves DEF Drops, UploadsInv
      <3>2. CASE ~Drops(c, "idle") /\
                 \E to \in {"hashed", "refused", "stored", "renamed", "marking", "stream"} : Goes(c, to)
        BY <2>2, <3>2, OneMoves DEF Goes, UploadsInv
      <3>3. QED
        BY <2>3, <3>1, <3>2
    <2>5. QED
      BY <1>1, <2>1, <2>4, TypeOfRequests DEF UploadsInv
  <1>2. ASSUME NEW c \in Clients, NEW n \in Names, NEW x \in Contents, Begin(c, n, x)
        PROVE  TypeOK' /\ UploadsInv'
    <2>1. \A d \in Clients : /\ up'[d].pc \notin {"idle", "refused"} =>
                                  up'[d].name \in Names /\ up'[d].body \in Contents
                             /\ up'[d].pc = "idle" => up'[d].body = None
      BY <1>2, TypeOfBegin, OneMoves DEF Drops, UploadsInv
    <2>2. QED
      BY <1>2, <2>1, TypeOfBegin DEF Begin, UploadsInv
  <1>3. CASE Crash
    BY <1>3, CrashFacts DEF UploadsInv
  <1>4. ASSUME NEW n \in Names, StartIngest(n) PROVE TypeOK' /\ UploadsInv'
    BY <1>4, StartIngestFacts DEF UploadsInv, Untouched
  <1>5. CASE ReadUpload
    BY <1>5, ReadUploadFacts DEF UploadsInv
  <1>6. ASSUME NEW f \in {"data", "marker"}, Unlink(f) PROVE TypeOK' /\ UploadsInv'
    BY <1>6, UnlinkFacts DEF UploadsInv
  <1>7. CASE IngestKilled
    BY <1>7, IngestKilledFacts DEF UploadsInv
  <1>8. CASE UNCHANGED vars
    BY <1>8 DEF vars, TypeOK, UploadsInv
  <1>9. QED
    BY <1>1, <1>2, <1>3, <1>4, <1>5, <1>6, <1>7, <1>8 DEF Next

(***************************************************************************)
(* Capacity.                                                               *)
(***************************************************************************)
CapacityInv == LedgerInv /\ QuotaKept /\ AdmittedFits

Reserves == Total(BodiesAt(Reserving))
Promises == Total(BodiesAt(Promised))
Unwritten == Total(BodiesAt({"stream", "hashed"}))
OnDisk == Total(StoredBytes)

SumsAreNatural ==
    /\ Reserves \in Nat /\ Promises \in Nat /\ Unwritten \in Nat /\ OnDisk \in Nat
    /\ UsedBytes \in Nat

LEMMA CapacityTypes == SumsAreNatural
  BY SumTypes DEF SumsAreNatural, Reserves, Promises, Unwritten, OnDisk

LEMMA CapacityTypesNext == SumsAreNatural'
  BY CapacityTypes, PTL

LEMMA SumsMove ==
    ASSUME TypeOK, NEW c \in Clients, NEW r \in Handler, up' = [up EXCEPT ![c] = r]
    PROVE  /\ Reserves' = Reserves - Share(up[c], Reserving) + Share(r, Reserving)
           /\ Promises' = Promises - Share(up[c], Promised) + Share(r, Promised)
           /\ Unwritten' = Unwritten - Share(up[c], {"stream", "hashed"})
                             + Share(r, {"stream", "hashed"})
  <1>1. Reserves' = Reserves - Share(up[c], Reserving) + Share(r, Reserving)
    BY BodiesMove, Zenon DEF Reserves
  <1>2. Promises' = Promises - Share(up[c], Promised) + Share(r, Promised)
    BY BodiesMove, Zenon DEF Promises
  <1>3. Unwritten' = Unwritten - Share(up[c], {"stream", "hashed"})
                       + Share(r, {"stream", "hashed"})
    BY BodiesMove, Zenon DEF Unwritten
  <1>4. QED
    BY <1>1, <1>2, <1>3

\* The sums are of the handlers' places and bodies, the markers and the files.
LEMMA SumsStay ==
    /\ TypeOK /\ Untouched => UNCHANGED <<Reserves, Promises, Unwritten>>
    /\ UNCHANGED marker => UsedBytes' = UsedBytes
    /\ UNCHANGED data => OnDisk' = OnDisk
  <1>1. ASSUME TypeOK, Untouched PROVE UNCHANGED <<Reserves, Promises, Unwritten>>
    <2>2. BodiesAt(Reserving)' = BodiesAt(Reserving) /\ BodiesAt(Promised)' = BodiesAt(Promised)
          /\ BodiesAt({"stream", "hashed"})' = BodiesAt({"stream", "hashed"})
      BY <1>1 DEF Untouched, BodiesAt, Reserving, Promised
    <2>3. QED
      BY <2>2 DEF Reserves, Promises, Unwritten
  <1>2. ASSUME UNCHANGED marker PROVE UsedBytes' = UsedBytes
    BY <1>2 DEF UsedBytes, MarkedBytes
  <1>3. ASSUME UNCHANGED data PROVE OnDisk' = OnDisk
    BY <1>3 DEF OnDisk, StoredBytes
  <1>4. QED
    BY <1>1, <1>2, <1>3

\* What neither reserves, nor releases, nor scans keeps both limits as long as the two sums
\* do not grow.
LEMMA CapacityKept ==
    ASSUME TypeOK, TypeOK', CapacityInv,
           reserved' = reserved, Reserves' = Reserves, mu' = mu,
           UsedBytes' + Promises' <= UsedBytes + Promises,
           OnDisk' + Unwritten' <= OnDisk + Unwritten,
           \A d \in Clients : up'[d].pc = "scanned" => up[d].pc = "scanned" /\ up'[d].used = up[d].used
    PROVE  CapacityInv'
  <1>1. PICK u \in Nat, p \in Nat, w \in Nat, o \in Nat :
          u = UsedBytes /\ p = Promises /\ w = Unwritten /\ o = OnDisk
    BY CapacityTypes DEF SumsAreNatural
  <1>2. PICK u1 \in Nat, p1 \in Nat, w1 \in Nat, o1 \in Nat :
          u1 = UsedBytes' /\ p1 = Promises' /\ w1 = Unwritten' /\ o1 = OnDisk'
    BY CapacityTypesNext DEF SumsAreNatural
  <1>3. u1 + p1 <= u + p /\ o1 + w1 <= o + w
    BY <1>1, <1>2, Zenon
  <1>4. reserved \in Int /\ Quota \in Nat /\ Capacity \in Nat /\ Headroom \in Nat
    BY BoundsAreNaturals DEF TypeOK
  <1>5. LedgerInv'
    <2>1. \A d \in Clients : up[d].pc = "scanned" => mu = d /\ u + p <= up[d].used + reserved
      BY <1>1 DEF CapacityInv, LedgerInv, Promises
    <2>2. \A d \in Clients : up[d].used \in Nat
      BY DEF TypeOK
    <2>3. ASSUME NEW d \in Clients, up'[d].pc = "scanned"
          PROVE  mu' = d /\ u1 + p1 <= up'[d].used + reserved'
      BY <1>3, <1>4, <2>1, <2>2, <2>3
    <2>4. reserved' = Reserves'
      BY DEF CapacityInv, LedgerInv, Reserves
    <2>5. QED
      BY <1>2, <2>3, <2>4 DEF LedgerInv, Promises, Reserves
  <1>6. QuotaKept'
    <2>1. Quota > 0 => u + p <= Quota
      BY <1>1 DEF CapacityInv, QuotaKept, Promises
    <2>2. Quota > 0 => u1 + p1 <= Quota
      BY <1>3, <1>4, <2>1
    <2>3. QED
      BY <1>2, <2>2 DEF QuotaKept, Promises
  <1>7. AdmittedFits'
    <2>1. o + w > 0 => o + w <= Capacity - Headroom
      BY <1>1 DEF CapacityInv, AdmittedFits, OnDisk, Unwritten
    <2>2. o1 + w1 > 0 => o1 + w1 <= Capacity - Headroom
      BY <1>3, <1>4, <2>1
    <2>3. QED
      BY <1>2, <2>2 DEF AdmittedFits, OnDisk, Unwritten
  <1>8. QED
    BY <1>5, <1>6, <1>7 DEF CapacityInv

\* An admitted upload that goes on keeps both limits if what it adds to the markers it takes
\* from the promises, and what it adds to the files from the bodies still to be written.
LEMMA CapacityOfProgress ==
    ASSUME TypeOK, TypeOK', CapacityInv, NEW c \in Clients, NEW to \in Reserving, Goes(c, to),
           up[c].pc \in Promised, reserved' = reserved, mu' = mu,
           to \in {"stream", "hashed"} => up[c].pc \in {"stream", "hashed"},
           UsedBytes' <= UsedBytes + (IF to \in Promised THEN 0 ELSE Bytes(up[c].body)),
           OnDisk' <= OnDisk + (IF up[c].pc \in {"stream", "hashed"} /\ to \notin {"stream", "hashed"}
                                THEN Bytes(up[c].body) ELSE 0)
    PROVE  CapacityInv'
  <1>1. PICK r \in Handler : /\ up' = [up EXCEPT ![c] = r]
                             /\ r.pc = to /\ r.name = up[c].name /\ r.body = up[c].body
    BY Zenon DEF Goes
  <1>2. PICK b \in Nat : b = Bytes(up[c].body)
    BY BytesType
  <1>3. PICK u \in Nat, p \in Nat, w \in Nat, o \in Nat :
          u = UsedBytes /\ p = Promises /\ w = Unwritten /\ o = OnDisk
    BY CapacityTypes DEF SumsAreNatural
  <1>4. PICK u1 \in Nat, p1 \in Nat, w1 \in Nat, o1 \in Nat :
          u1 = UsedBytes' /\ p1 = Promises' /\ w1 = Unwritten' /\ o1 = OnDisk'
    BY CapacityTypesNext DEF SumsAreNatural
  <1>5. Reserves' = Reserves
    <2>1. Share(up[c], Reserving) = b /\ Share(r, Reserving) = b
      BY <1>1, <1>2 DEF Share, Reserving
    <2>2. Reserves' = Reserves - b + b
      BY <1>1, <2>1, SumsMove, Zenon
    <2>3. PICK k \in Nat : k = Reserves
      BY CapacityTypes DEF SumsAreNatural
    <2>4. Reserves' = k - b + b
      BY <2>2, <2>3
    <2>5. k - b + b = k
      OBVIOUS
    <2>6. QED
      BY <2>3, <2>4, <2>5
  <1>6. u1 + p1 <= u + p
    <2>1. Share(up[c], Promised) = b /\ Share(r, Promised) = IF to \in Promised THEN b ELSE 0
      BY <1>1, <1>2 DEF Share
    <2>2. p1 = p - b + (IF to \in Promised THEN b ELSE 0)
      BY <1>1, <1>3, <1>4, <2>1, SumsMove, Zenon
    <2>3. u1 <= u + (IF to \in Promised THEN 0 ELSE b)
      BY <1>2, <1>3, <1>4
    <2>4. QED
      BY <2>2, <2>3
  <1>7. o1 + w1 <= o + w
    <2> DEFINE before == up[c].pc \in {"stream", "hashed"}
               after == to \in {"stream", "hashed"}
    <2>1. /\ Share(up[c], {"stream", "hashed"}) = IF before THEN b ELSE 0
          /\ Share(r, {"stream", "hashed"}) = IF after THEN b ELSE 0
      BY <1>1, <1>2 DEF Share
    <2>2. w1 = w - (IF before THEN b ELSE 0) + (IF after THEN b ELSE 0)
      BY <1>1, <1>3, <1>4, <2>1, SumsMove, Zenon
    <2>3. o1 <= o + (IF before /\ ~after THEN b ELSE 0)
      BY <1>2, <1>3, <1>4
    <2>4. after => before
      OBVIOUS
    <2> HIDE DEF before, after
    <2>5. QED
      BY <2>2, <2>3, <2>4
  <1>8. \A d \in Clients : up'[d].pc = "scanned" => up[d].pc = "scanned" /\ up'[d].used = up[d].used
    BY <1>1, OneMoves DEF Reserving, Promised
  <1>9. UsedBytes' + Promises' <= UsedBytes + Promises /\ OnDisk' + Unwritten' <= OnDisk + Unwritten
    BY <1>3, <1>4, <1>6, <1>7, Zenon
  <1>10. QED
    BY <1>5, <1>8, <1>9, CapacityKept

LEMMA CapacityOfRequests ==
    ASSUME TypeOK, TypeOK', UploadsInv, CapacityInv, NEW c \in Clients,
           \/ Stream(c) \/ StreamCut(c) \/ Finalize(c) \/ CreateMarker(c) \/ WriteMarker(c)
           \/ MarkerFails(c)
    PROVE  CapacityInv'
  <1>1. reserved' = reserved /\ mu' = mu
    BY DEF Stream, StreamCut, Finalize, CreateMarker, WriteMarker, MarkerFails
  <1>2. PICK b \in Nat : b = Bytes(up[c].body)
    BY BytesType
  <1>3. PICK u \in Nat, o \in Nat : u = UsedBytes /\ o = OnDisk
    BY CapacityTypes DEF SumsAreNatural
  <1>4. PICK u1 \in Nat, o1 \in Nat : u1 = UsedBytes' /\ o1 = OnDisk'
    BY CapacityTypesNext DEF SumsAreNatural
  <1>5. UNCHANGED marker => u1 <= u
    BY <1>3, <1>4, SumsStay
  <1>6. UNCHANGED data => o1 <= o
    BY <1>3, <1>4, SumsStay
  <1>7. ASSUME NEW to \in {"stream", "hashed", "renamed", "marking", "stored", "refused"}, Goes(c, to),
               up[c].pc \in Promised,
               to \in {"stream", "hashed"} => up[c].pc \in {"stream", "hashed"},
               u1 <= u + (IF to \in Promised THEN 0 ELSE b),
               o1 <= o + (IF up[c].pc \in {"stream", "hashed"} /\ to \notin {"stream", "hashed"}
                          THEN b ELSE 0)
        PROVE  CapacityInv'
    <2>1. to \in Reserving
      BY DEF Reserving, Promised
    <2>2. QED
      BY <1>1, <1>2, <1>3, <1>4, <1>7, <2>1, CapacityOfProgress
  <1>8. CASE Stream(c)
    <2>1. Goes(c, "hashed") /\ up[c].pc = "stream" /\ u1 <= u /\ o1 <= o
      BY <1>5, <1>6, <1>8, HandlerSteps, Zenon DEF Stream
    <2>2. QED
      BY <1>7, <2>1 DEF Promised
  <1>9. CASE StreamCut(c)
    <2>1. Goes(c, "refused") /\ up[c].pc = "stream" /\ u1 <= u /\ o1 <= o
      BY <1>5, <1>6, <1>9, HandlerSteps DEF StreamCut
    <2>2. QED
      BY <1>7, <2>1 DEF Promised
  <1>10. CASE Finalize(c)
    <2>1. up[c].pc = "hashed" /\ u1 <= u
      BY <1>5, <1>10 DEF Finalize
    <2>2. up[c].name \in Names /\ up[c].body \in Contents
      BY <2>1 DEF UploadsInv
    <2>3. o1 <= o + b
      <3>1. CASE UNCHANGED data
        BY <1>6, <3>1
      <3>2. CASE data' = [data EXCEPT ![up[c].name] = up[c].body]
        <4>1. PICK n \in Names : n = up[c].name
          BY <2>2
        <4>2. PICK x : x = up[c].body
          OBVIOUS
        <4>3. data' = [data EXCEPT ![n] = x]
          BY <3>2, <4>1, <4>2
        <4>4. Total(StoredBytes)' = Total(StoredBytes) - Bytes(data[n]) + Bytes(x)
          BY <4>3, DataMoves, Zenon
        <4>5. PICK k \in Nat : k = Bytes(data[n])
          BY BytesType
        <4>6. o1 = o - k + b
          BY <1>2, <1>3, <1>4, <4>2, <4>4, <4>5 DEF OnDisk
        <4>7. QED
          BY <4>6
      <3>3. QED
        BY <1>10, <3>1, <3>2 DEF Finalize
    <2>4. Goes(c, "stored") \/ Goes(c, "refused") \/ Goes(c, "renamed")
      BY <1>10, HandlerSteps
    <2>5. QED
      BY <1>7, <2>1, <2>3, <2>4 DEF Promised
  <1>11. CASE CreateMarker(c)
    <2>1. Goes(c, "marking") /\ up[c].pc = "renamed" /\ o1 <= o
      BY <1>6, <1>11, HandlerSteps, Zenon DEF CreateMarker
    <2>2. u1 <= u
      <3>1. PICK n \in Names : n = up[c].name
        BY <2>1 DEF UploadsInv
      <3>2. marker' = [marker EXCEPT ![n] = Torn]
        BY <1>11, <3>1 DEF CreateMarker
      <3>3. UsedBytes' = UsedBytes - Bytes(marker[n]) + Bytes(Torn)
        BY <3>2, MarkerMoves, Zenon
      <3>4. Bytes(Torn) = 0
        BY ThingsApart DEF Bytes
      <3>5. PICK k \in Nat : k = Bytes(marker[n])
        BY BytesType
      <3>6. u1 = u - k + 0
        BY <1>3, <1>4, <3>3, <3>4, <3>5
      <3>7. QED
        BY <3>6
    <2>3. QED
      BY <1>7, <2>1, <2>2 DEF Promised
  <1>12. CASE WriteMarker(c)
    <2>1. Goes(c, "stored") /\ up[c].pc = "marking" /\ o1 <= o
      BY <1>6, <1>12, HandlerSteps, Zenon DEF WriteMarker
    <2>2. u1 <= u + b
      <3>1. PICK n \in Names : n = up[c].name
        BY <2>1 DEF UploadsInv
      <3>2. PICK x : x = up[c].body
        OBVIOUS
      <3>3. marker' = [marker EXCEPT ![n] = x]
        BY <1>12, <3>1, <3>2 DEF WriteMarker
      <3>4. UsedBytes' = UsedBytes - Bytes(marker[n]) + Bytes(x)
        BY <3>3, MarkerMoves, Zenon
      <3>5. PICK k \in Nat : k = Bytes(marker[n])
        BY BytesType
      <3>6. u1 = u - k + b
        BY <1>2, <1>3, <1>4, <3>2, <3>4, <3>5
      <3>7. QED
        BY <3>6
    <2>3. QED
      BY <1>7, <2>1, <2>2 DEF Promised
  <1>13. CASE MarkerFails(c)
    <2>1. Goes(c, "refused") /\ up[c].pc \in {"renamed", "marking"} /\ u1 <= u
      BY <1>5, <1>13, HandlerSteps, Zenon DEF MarkerFails
    <2>2. o1 <= o
      <3>1. PICK n \in Names : n = up[c].name
        BY <2>1 DEF UploadsInv
      <3>2. data' = [data EXCEPT ![n] = None]
        BY <1>13, <3>1, Zenon DEF MarkerFails
      <3>3. Total(StoredBytes)' = Total(StoredBytes) - Bytes(data[n]) + Bytes(None)
        BY <3>2, DataMoves, Zenon
      <3>4. Bytes(None) = 0
        BY ThingsApart DEF Bytes
      <3>5. PICK k \in Nat : k = Bytes(data[n])
        BY BytesType
      <3>6. o1 = o - k + 0
        BY <1>3, <1>4, <3>3, <3>4, <3>5 DEF OnDisk
      <3>7. QED
        BY <3>6
    <2>3. QED
      BY <1>7, <2>1, <2>2 DEF Promised
  <1>14. QED
    BY <1>8, <1>9, <1>10, <1>11, <1>12, <1>13

\* Every promise is reserved.
LEMMA PromisesAreReserved == Promises <= Reserves /\ Unwritten <= Reserves
  <1>1. PICK f \in [Clients -> Nat], g \in [Clients -> Nat], h \in [Clients -> Nat] :
          f = BodiesAt(Promised) /\ g = BodiesAt(Reserving) /\ h = BodiesAt({"stream", "hashed"})
    BY SumTypes
  <1>2. \A c \in Clients : f[c] <= g[c] /\ h[c] <= g[c]
    BY <1>1, BytesType DEF BodiesAt, Reserving, Promised
  <1>3. Total(f) <= Total(g) /\ Total(h) <= Total(g)
    BY <1>2, FinitelyMany, TotalGrows
  <1>4. QED
    BY <1>1, <1>3 DEF Promises, Reserves, Unwritten

\* A request that is refused, or answered without a reservation, moves no sum.
LEMMA EmptyHanded ==
    ASSUME TypeOK, NEW c \in Clients, NEW r \in Handler, up' = [up EXCEPT ![c] = r],
           up[c].pc \in {"idle", "scanned"}, r.pc = "scanned" \/ r.body = None,
           up[c].pc = "scanned" \/ up[c].body = None
    PROVE  UNCHANGED <<Reserves, Promises, Unwritten>>
  <1>1. Bytes(None) = 0
    BY ThingsApart DEF Bytes
  <1>2. /\ Share(up[c], Reserving) = 0 /\ Share(up[c], Promised) = 0
        /\ Share(up[c], {"stream", "hashed"}) = 0
    BY <1>1 DEF Share, Reserving, Promised
  <1>3. /\ Share(r, Reserving) = 0 /\ Share(r, Promised) = 0 /\ Share(r, {"stream", "hashed"}) = 0
    BY <1>1 DEF Share, Reserving, Promised
  <1>4. PICK k \in Nat, p \in Nat, w \in Nat : k = Reserves /\ p = Promises /\ w = Unwritten
    BY CapacityTypes DEF SumsAreNatural
  <1>5. Reserves' = k - 0 + 0 /\ Promises' = p - 0 + 0 /\ Unwritten' = w - 0 + 0
    BY <1>2, <1>3, <1>4, SumsMove, Zenon
  <1>6. QED
    BY <1>4, <1>5

LEMMA CapacityOfBegin ==
    ASSUME TypeOK, TypeOK', UploadsInv, CapacityInv, NEW c \in Clients, NEW n \in Names,
           NEW x \in Contents, Begin(c, n, x)
    PROVE  CapacityInv'
  <1>1. up[c].pc = "idle" /\ mu = None /\ up[c].body = None
    BY DEF Begin, UploadsInv
  <1>2. UNCHANGED <<data, marker, reserved>>
    BY DEF Begin
  <1>3. PICK u \in Nat, p \in Nat, w \in Nat, o \in Nat :
          u = UsedBytes /\ p = Promises /\ w = Unwritten /\ o = OnDisk
    BY CapacityTypes DEF SumsAreNatural
  <1>4. UsedBytes' = u /\ OnDisk' = o
    BY <1>2, <1>3, SumsStay
  <1>5. PICK r \in Handler :
          /\ up' = [up EXCEPT ![c] = r]
          /\ \/ r.pc = "refused" /\ r.body = None /\ mu' = mu
             \/ r.pc = "scanned" /\ r.used = UsedBytes /\ mu' = c
    BY TypeOfBegin DEF Drops
  <1>6. Reserves' = Reserves /\ Promises' = p /\ Unwritten' = w
    BY <1>1, <1>3, <1>5, EmptyHanded, Zenon
  <1>7. \A d \in Clients : up[d].pc # "scanned"
    BY <1>1, ThingsApart DEF CapacityInv, LedgerInv
  <1>8. p <= reserved /\ reserved \in Int
    BY <1>3, PromisesAreReserved DEF CapacityInv, LedgerInv, Reserves, TypeOK
  <1>9. \A d \in Clients : up'[d].pc = "scanned" => mu' = d /\ u + p <= up'[d].used + reserved
    <2>1. ASSUME NEW d \in Clients, up'[d].pc = "scanned"
          PROVE  d = c /\ mu' = c /\ up'[d].used = u
      <3>1. up'[c] = r /\ \A e \in Clients : e # c => up'[e] = up[e]
        BY <1>5, OneMoves, Zenon
      <3>2. d = c
        BY <1>7, <2>1, <3>1, Zenon
      <3>3. QED
        BY <1>3, <1>5, <2>1, <3>1, <3>2, Zenon
    <2>2. QED
      BY <1>8, <2>1
  <1>10. LedgerInv'
    BY <1>2, <1>4, <1>6, <1>9 DEF CapacityInv, LedgerInv, Reserves, Promises
  <1>11. QuotaKept'
    BY <1>3, <1>4, <1>6 DEF CapacityInv, QuotaKept, Promises
  <1>12. AdmittedFits'
    BY <1>3, <1>4, <1>6 DEF CapacityInv, AdmittedFits, OnDisk, Unwritten
  <1>13. QED
    BY <1>10, <1>11, <1>12 DEF CapacityInv

\* The guards of Reserve: the scan may be old, and the volume may hold temporary files.
LEMMA CapacityOfReserve ==
    ASSUME TypeOK, TypeOK', UploadsInv, CapacityInv, NEW c \in Clients, Reserve(c)
    PROVE  CapacityInv'
  <1>1. up[c].pc = "scanned" /\ mu = c /\ UNCHANGED <<data, marker>>
    BY DEF Reserve
  <1>2. PICK u \in Nat, p \in Nat, w \in Nat, o \in Nat :
          u = UsedBytes /\ p = Promises /\ w = Unwritten /\ o = OnDisk
    BY CapacityTypes DEF SumsAreNatural
  <1>3. UsedBytes' = u /\ OnDisk' = o
    BY <1>1, <1>2, SumsStay
  <1>4. \A d \in Clients : up[d].pc = "scanned" => d = c
    BY <1>1 DEF CapacityInv, LedgerInv
  <1>5. CASE QuotaOK(c) /\ SpaceOK(c)
    <2>1. PICK r \in Handler : /\ up' = [up EXCEPT ![c] = r]
                               /\ r.pc = "stream" /\ r.body = up[c].body
      BY <1>5, HandlerSteps DEF Goes
    <2>2. PICK b \in Nat : b = Size[up[c].body] /\ b = Bytes(up[c].body)
      BY <1>1, BytesType, Zenon DEF UploadsInv
    <2>3. PICK k \in Nat : k = Reserves /\ reserved = k
      BY CapacityTypes DEF SumsAreNatural, CapacityInv, LedgerInv, Reserves
    <2>4. /\ Share(up[c], Reserving) = 0 /\ Share(up[c], Promised) = 0
          /\ Share(up[c], {"stream", "hashed"}) = 0
      BY <1>1 DEF Share, Reserving, Promised
    <2>5. /\ Share(r, Reserving) = b /\ Share(r, Promised) = b /\ Share(r, {"stream", "hashed"}) = b
      BY <2>1, <2>2 DEF Share, Reserving, Promised
    <2>6. Reserves' = k - 0 + b /\ Promises' = p - 0 + b /\ Unwritten' = w - 0 + b
      BY <1>2, <2>1, <2>3, <2>4, <2>5, SumsMove, Zenon
    <2>7. reserved' = k + b
      BY <1>5, <2>2, <2>3 DEF Reserve
    <2>8. LedgerInv'
      <3>1. \A d \in Clients : up'[d].pc # "scanned"
        BY <1>4, <2>1, OneMoves, Zenon
      <3>2. reserved' = Reserves'
        BY <2>6, <2>7
      <3>3. QED
        BY <3>1, <3>2 DEF LedgerInv, Reserves
    <2>9. QuotaKept'
      <3>1. u + p <= up[c].used + k
        BY <1>1, <1>2, <2>3 DEF CapacityInv, LedgerInv, Promises
      <3>2. Quota > 0 => up[c].used + k + b <= Quota
        BY <1>5, <2>2, <2>3 DEF QuotaOK
      <3>3. Quota \in Nat /\ up[c].used \in Nat
        BY BoundsAreNaturals DEF TypeOK
      <3>4. Quota > 0 => u + (p - 0 + b) <= Quota
        BY <3>1, <3>2, <3>3
      <3>5. QED
        BY <1>3, <2>6, <3>4 DEF QuotaKept, Promises
    <2>10. AdmittedFits'
      <3>1. PICK t \in Nat : t = Total(TempBytes)
        BY SumTypes
      <3>2. b + k + Headroom <= Capacity - (o + t)
        BY <1>2, <1>5, <2>2, <2>3, <3>1 DEF SpaceOK, Available, Held, OnDisk
      <3>3. w <= k
        BY <1>2, <2>3, PromisesAreReserved
      <3>4. Capacity \in Nat /\ Headroom \in Nat
        BY BoundsAreNaturals
      <3>5. o + (w - 0 + b) <= Capacity - Headroom
        BY <3>2, <3>3, <3>4
      <3>6. QED
        BY <1>3, <2>6, <3>5 DEF AdmittedFits, OnDisk, Unwritten
    <2>11. QED
      BY <2>8, <2>9, <2>10 DEF CapacityInv
  <1>6. CASE ~(QuotaOK(c) /\ SpaceOK(c))
    <2>1. PICK r \in Handler : up' = [up EXCEPT ![c] = r] /\ r.pc = "refused" /\ r.body = None
      BY <1>6, HandlerSteps DEF Drops
    <2>2. Reserves' = Reserves /\ Promises' = p /\ Unwritten' = w /\ reserved' = reserved
      BY <1>1, <1>2, <1>6, <2>1, EmptyHanded, Zenon DEF Reserve
    <2>3. \A d \in Clients : up'[d].pc # "scanned"
      BY <1>4, <2>1, OneMoves, Zenon
    <2>4. LedgerInv'
      BY <2>2, <2>3 DEF CapacityInv, LedgerInv, Reserves
    <2>5. QuotaKept'
      BY <1>2, <1>3, <2>2 DEF CapacityInv, QuotaKept, Promises
    <2>6. AdmittedFits'
      BY <1>2, <1>3, <2>2 DEF CapacityInv, AdmittedFits, OnDisk, Unwritten
    <2>7. QED
      BY <2>4, <2>5, <2>6 DEF CapacityInv
  <1>7. QED
    BY <1>5, <1>6

\* A release waits for mu, so no scan is under way that has not seen what it releases.
LEMMA CapacityOfAnswer ==
    ASSUME TypeOK, TypeOK', UploadsInv, CapacityInv, NEW c \in Clients, Answer(c)
    PROVE  CapacityInv'
  <1>1. up[c].pc \in {"stored", "refused"} /\ mu = None /\ UNCHANGED <<data, marker, mu>>
    BY DEF Answer, MayRelease
  <1>2. PICK u \in Nat, p \in Nat, w \in Nat, o \in Nat :
          u = UsedBytes /\ p = Promises /\ w = Unwritten /\ o = OnDisk
    BY CapacityTypes DEF SumsAreNatural
  <1>3. UsedBytes' = u /\ OnDisk' = o
    BY <1>1, <1>2, SumsStay
  <1>4. PICK r \in Handler : up' = [up EXCEPT ![c] = r] /\ r.pc = "idle" /\ r.body = None
    BY HandlerSteps DEF Drops
  <1>5. PICK b \in Nat : b = Bytes(up[c].body)
    BY BytesType
  <1>6. PICK k \in Nat : k = Reserves /\ reserved = k
    BY CapacityTypes DEF SumsAreNatural, CapacityInv, LedgerInv, Reserves
  <1>7. /\ Share(up[c], Reserving) = b /\ Share(up[c], Promised) = 0
        /\ Share(up[c], {"stream", "hashed"}) = 0
    BY <1>1, <1>5 DEF Share, Reserving, Promised
  <1>8. /\ Share(r, Reserving) = 0 /\ Share(r, Promised) = 0 /\ Share(r, {"stream", "hashed"}) = 0
    BY <1>4 DEF Share, Reserving, Promised
  <1>9. Reserves' = k - b + 0 /\ Promises' = p - 0 + 0 /\ Unwritten' = w - 0 + 0
    BY <1>2, <1>4, <1>6, <1>7, <1>8, SumsMove, Zenon
  <1>10. reserved' = k - b
    BY <1>5, <1>6 DEF Answer, Return
  <1>11. LedgerInv'
    <2>1. \A d \in Clients : up'[d].pc # "scanned"
      BY <1>1, <1>4, OneMoves, ThingsApart DEF CapacityInv, LedgerInv
    <2>2. reserved' = Reserves'
      BY <1>9, <1>10
    <2>3. QED
      BY <2>1, <2>2 DEF LedgerInv, Reserves
  <1>12. Promises' = p /\ Unwritten' = w
    BY <1>9
  <1>13. QuotaKept'
    BY <1>2, <1>3, <1>12 DEF CapacityInv, QuotaKept, Promises
  <1>14. AdmittedFits'
    BY <1>2, <1>3, <1>12 DEF CapacityInv, AdmittedFits, OnDisk, Unwritten
  <1>15. QED
    BY <1>11, <1>13, <1>14 DEF CapacityInv

\* A crash takes the ledger and everything it counted.
LEMMA CapacityOfCrash ==
    ASSUME TypeOK, TypeOK', CapacityInv, Crash
    PROVE  CapacityInv'
  <1>1. /\ reserved' = 0 /\ UNCHANGED <<data, marker>>
        /\ \A d \in Clients : up'[d].pc = "idle" /\ up'[d].body = None
    BY CrashFacts
  <1>2. Reserves' = 0 /\ Promises' = 0 /\ Unwritten' = 0
    <2>1. PICK f, g, h : /\ f = BodiesAt(Promised)' /\ g = BodiesAt(Reserving)'
                         /\ h = BodiesAt({"stream", "hashed"})'
      OBVIOUS
    <2>2. /\ f = [c \in Clients |-> 0] /\ g = [c \in Clients |-> 0] /\ h = [c \in Clients |-> 0]
      BY <1>1, <2>1 DEF BodiesAt, Promised, Reserving
    <2>3. Total(f) = 0 /\ Total(g) = 0 /\ Total(h) = 0
      BY <2>2, TotalZero
    <2>4. QED
      BY <2>1, <2>3 DEF Reserves, Promises, Unwritten
  <1>3. PICK u \in Nat, p \in Nat, w \in Nat, o \in Nat :
          u = UsedBytes /\ p = Promises /\ w = Unwritten /\ o = OnDisk
    BY CapacityTypes DEF SumsAreNatural
  <1>4. UsedBytes' = u /\ OnDisk' = o
    BY <1>1, <1>3, SumsStay
  <1>5. LedgerInv'
    BY <1>1, <1>2 DEF LedgerInv, Reserves
  <1>6. Quota \in Nat /\ Capacity \in Nat /\ Headroom \in Nat
    BY BoundsAreNaturals
  <1>7. QuotaKept'
    <2>1. Quota > 0 => u + p <= Quota
      BY <1>3 DEF CapacityInv, QuotaKept, Promises
    <2>2. Quota > 0 => u + 0 <= Quota
      BY <1>6, <2>1
    <2>3. QED
      BY <1>2, <1>4, <2>2 DEF QuotaKept, Promises
  <1>8. AdmittedFits'
    <2>1. o + w > 0 => o + w <= Capacity - Headroom
      BY <1>3 DEF CapacityInv, AdmittedFits, OnDisk, Unwritten
    <2>2. o + 0 > 0 => o + 0 <= Capacity - Headroom
      BY <1>6, <2>1
    <2>3. QED
      BY <1>2, <1>4, <2>2 DEF AdmittedFits, OnDisk, Unwritten
  <1>9. QED
    BY <1>5, <1>7, <1>8 DEF CapacityInv

\* The ingest Job only makes room.
LEMMA CapacityOfIngest ==
    ASSUME TypeOK, TypeOK', UploadsInv, CapacityInv,
           \/ \E n \in Names : StartIngest(n)
           \/ ReadUpload \/ IngestKilled
           \/ \E f \in {"data", "marker"} : Unlink(f)
    PROVE  CapacityInv'
  <1>1. Untouched /\ reserved' = reserved /\ mu' = mu
    <2>1. CASE \E n \in Names : StartIngest(n)
      BY <2>1, StartIngestFacts, Zenon DEF StartIngest
    <2>2. CASE ReadUpload \/ IngestKilled \/ \E f \in {"data", "marker"} : Unlink(f)
      BY <2>2 DEF ReadUpload, IngestKilled, Unlink, Untouched
    <2>3. QED
      BY <2>1, <2>2
  <1>2. Reserves' = Reserves /\ Promises' = Promises /\ Unwritten' = Unwritten
    BY <1>1, SumsStay
  <1>3. PICK u \in Nat, p \in Nat, w \in Nat, o \in Nat :
          u = UsedBytes /\ p = Promises /\ w = Unwritten /\ o = OnDisk
    BY CapacityTypes DEF SumsAreNatural
  <1>4. PICK u1 \in Nat, o1 \in Nat : u1 = UsedBytes' /\ o1 = OnDisk'
    BY CapacityTypesNext DEF SumsAreNatural
  <1>5. u1 <= u /\ o1 <= o
    <2>1. CASE UNCHANGED <<data, marker>>
      BY <1>3, <1>4, <2>1, SumsStay
    <2>2. CASE \E f \in {"data", "marker"} : Unlink(f)
      <3>1. PICK n \in Names : /\ data' \in {data, [data EXCEPT ![n] = None]}
                               /\ marker' \in {marker, [marker EXCEPT ![n] = None]}
        BY <2>2, UnlinkFacts
      <3>2. Bytes(None) = 0
        BY ThingsApart DEF Bytes
      <3>3. PICK k \in Nat, l \in Nat : k = Bytes(marker[n]) /\ l = Bytes(data[n])
        BY BytesType
      <3>4. u1 = u \/ u1 = u - k + 0
        <4>1. CASE marker' = marker
          BY <1>3, <1>4, <4>1, SumsStay
        <4>2. CASE marker' = [marker EXCEPT ![n] = None]
          BY <1>3, <1>4, <3>2, <3>3, <4>2, MarkerMoves, Zenon
        <4>3. QED
          BY <3>1, <4>1, <4>2
      <3>5. o1 = o \/ o1 = o - l + 0
        <4>1. CASE data' = data
          BY <1>3, <1>4, <4>1, SumsStay
        <4>2. CASE data' = [data EXCEPT ![n] = None]
          <5>1. Total(StoredBytes)' = Total(StoredBytes) - Bytes(data[n]) + Bytes(None)
            BY <4>2, DataMoves, Zenon
          <5>2. QED
            BY <1>3, <1>4, <3>2, <3>3, <5>1 DEF OnDisk
        <4>3. QED
          BY <3>1, <4>1, <4>2
      <3>6. QED
        BY <3>4, <3>5
    <2>3. QED
      BY <2>1, <2>2 DEF StartIngest, ReadUpload, IngestKilled
  <1>6. u1 + p <= u + p /\ o1 + w <= o + w
    BY <1>5
  <1>7. UsedBytes' + Promises' <= UsedBytes + Promises /\ OnDisk' + Unwritten' <= OnDisk + Unwritten
    BY <1>2, <1>3, <1>4, <1>6, Zenon
  <1>8. QED
    BY <1>1, <1>2, <1>7, CapacityKept DEF Untouched

LEMMA CapacityHolds ==
    ASSUME TypeOK, UploadsInv, CapacityInv, [Next]_vars
    PROVE  CapacityInv'
  <1>1. TypeOK'
    BY UploadsKept
  <1>2. ASSUME NEW c \in Clients, Serve(c) \/ StreamCut(c) \/ MarkerFails(c) PROVE CapacityInv'
    BY <1>1, <1>2, CapacityOfRequests, CapacityOfReserve, CapacityOfAnswer DEF Serve
  <1>3. ASSUME NEW c \in Clients, NEW n \in Names, NEW x \in Contents, Begin(c, n, x)
        PROVE  CapacityInv'
    BY <1>1, <1>3, CapacityOfBegin
  <1>4. CASE Crash
    BY <1>1, <1>4, CapacityOfCrash
  <1>5. CASE \/ \E n \in Names : StartIngest(n)
             \/ ReadUpload \/ IngestKilled
             \/ \E f \in {"data", "marker"} : Unlink(f)
    BY <1>1, <1>5, CapacityOfIngest
  <1>6. CASE UNCHANGED vars
    BY <1>6, ZenonT(40) DEF vars, CapacityInv, LedgerInv, QuotaKept, AdmittedFits, UsedBytes, MarkedBytes,
                StoredBytes, BodiesAt, Reserving, Promised
  <1>7. QED
    BY <1>2, <1>3, <1>4, <1>5, <1>6 DEF Next

(***************************************************************************)
(* Files.                                                                  *)
(***************************************************************************)
FilesInv == NamesInv /\ AckedUploadStays

\* A name nothing was removed from, as the handlers and the acknowledgements see it.
Sound(n) ==
    /\ Complete(n) => data[n] = marker[n]
    /\ \A c \in Clients : up[c].name = n => Doing(c, n)
    /\ \A x \in acked[n] : data[n] = x /\ marker[n] = x

Locks == \A c \in Clients : up[c].pc \in {"renamed", "marking"} => final = c

LEMMA FilesParts == FilesInv <=> Locks /\ \A n \in Names \ spent.removed : Sound(n)
  BY ZenonT(40) DEF FilesInv, NamesInv, AckedUploadStays, Sound, Locks

\* A handler that does not move does to a name what it did, if the name does not change.
LEMMA SameDoing ==
    ASSUME NEW d, NEW n, Doing(d, n), up'[d] = up[d], data'[n] = data[n], marker'[n] = marker[n]
    PROVE  Doing(d, n)'
  BY Zenon DEF Doing

\* What a handler that does move does to a name.
LEMMA MovedDoing ==
    ASSUME NEW d, NEW n, NEW r, up'[d] = r,
           r.pc = "renamed" => data'[n] = r.body /\ marker'[n] = None,
           r.pc = "marking" => data'[n] = r.body /\ marker'[n] = Torn,
           r.pc = "stored" => data'[n] = r.body /\ marker'[n] = r.body
    PROVE  Doing(d, n)'
  BY Zenon DEF Doing

LEMMA SameFiles ==
    ASSUME FilesInv, up' = up, final' = final, data' = data, marker' = marker,
           acked' = acked, spent' = spent
    PROVE  FilesInv'
  <1>1. Locks' /\ Locks
    BY FilesParts, Zenon DEF Locks
  <1>2. ASSUME NEW n \in Names \ spent'.removed PROVE Sound(n)'
    <2>1. Sound(n)
      BY FilesParts, Zenon
    <2>2. \A c \in Clients : up'[c].name = n => Doing(c, n)'
      <3>1. ASSUME NEW c \in Clients, up'[c].name = n PROVE Doing(c, n)'
        <4>1. Doing(c, n)
          BY <2>1, <3>1, Zenon DEF Sound
        <4>2. QED
          BY <4>1, SameDoing, Zenon
      <3>2. QED
        BY <3>1, Zenon
    <2>3. QED
      BY <2>1, <2>2, Zenon DEF Sound, Complete
  <1>3. QED
    BY <1>1, <1>2, Zenon DEF FilesInv, NamesInv, AckedUploadStays, Sound, Locks

\* A request that leaves files and acknowledgements alone, and comes from a place before the
\* rename, keeps the names sound; where it goes to "stored", the marker is its own.
LEMMA FilesOfReader ==
    ASSUME TypeOK, UploadsInv, FilesInv, NEW c \in Clients, NEW r \in Handler,
           up' = [up EXCEPT ![c] = r], UNCHANGED <<data, marker, final, acked>>,
           spent'.removed = spent.removed, up[c].pc \notin {"renamed", "marking"},
           r.pc \notin {"renamed", "marking"},
           r.pc = "stored" => /\ up[c].name \in Names /\ up[c].body \in Contents
                              /\ r.name = up[c].name /\ r.body = up[c].body
                              /\ marker[up[c].name] = up[c].body
    PROVE  FilesInv'
  <1>1. up'[c] = r /\ \A d \in Clients : d # c => up'[d] = up[d]
    BY OneMoves, Zenon
  <1>2. Locks'
    BY <1>1, FilesParts DEF Locks
  <1>3. ASSUME NEW n \in Names \ spent'.removed PROVE Sound(n)'
    <2>1. Sound(n)
      BY FilesParts
    <2>2. Complete(n)' => data'[n] = marker'[n]
      BY <2>1 DEF Sound, Complete
    <2>3. ASSUME NEW d \in Clients, up'[d].name = n PROVE Doing(d, n)'
      <3>1. CASE d # c
        <4>1. up'[d] = up[d]
          BY <1>1, <3>1, Zenon
        <4>2. Doing(d, n)
          BY <2>1, <2>3, <4>1, Zenon DEF Sound
        <4>3. QED
          BY <4>1, <4>2, SameDoing, Zenon
      <3>2. CASE d = c
        <4>1. up'[d] = r
          BY <1>1, <3>2, Zenon
        <4>2. ASSUME r.pc = "stored" PROVE data'[n] = r.body /\ marker'[n] = r.body
          <5>1. up[c].name = n
            BY <2>3, <4>1, <4>2, Zenon
          <5>2. marker[n] = r.body /\ r.body \in Contents
            BY <4>2, <5>1, Zenon
          <5>3. data[n] = marker[n]
            BY <2>1, <5>2, Zenon DEF Sound, Complete
          <5>4. QED
            BY <5>2, <5>3, Zenon
        <4>3. QED
          BY <4>1, <4>2, MovedDoing, Zenon
      <3>3. QED
        BY <3>1, <3>2
    <2>4. \A x \in acked'[n] : data'[n] = x /\ marker'[n] = x
      BY <2>1 DEF Sound
    <2>5. QED
      BY <2>2, <2>3, <2>4 DEF Sound
  <1>4. QED
    BY <1>2, <1>3, Zenon DEF FilesInv, NamesInv, AckedUploadStays, Sound, Locks

\* The holder of finalizeMu works on a name whose marker is not complete, so nobody was told
\* anything of it and nobody else is past the lock.
LEMMA FilesOfWriter ==
    ASSUME TypeOK, UploadsInv, FilesInv, NEW c \in Clients, NEW r \in Handler,
           up' = [up EXCEPT ![c] = r], acked' = acked, spent'.removed = spent.removed,
           NEW m \in Names, m = up[c].name, r.name = m, r.body = up[c].body, up[c].body \in Contents,
           \A n \in Names : n # m => data'[n] = data[n] /\ marker'[n] = marker[n],
           \A d \in Clients : d # c => up[d].pc \notin {"renamed", "marking"},
           m \notin spent.removed => marker[m] \notin Contents,
           r.pc \in {"renamed", "marking"} => final' = c,
           r.pc \in {"renamed", "marking", "stored", "refused"},
           m \notin spent.removed =>
             /\ r.pc = "renamed" => data'[m] = r.body /\ marker'[m] = None
             /\ r.pc = "marking" => data'[m] = r.body /\ marker'[m] = Torn
             /\ r.pc = "stored" => data'[m] = r.body /\ marker'[m] = r.body
             /\ r.pc = "refused" => marker'[m] \notin Contents
    PROVE  FilesInv'
  <1>1. up'[c] = r /\ \A d \in Clients : d # c => up'[d] = up[d]
    BY OneMoves, Zenon
  <1>2. Locks'
    BY <1>1 DEF Locks
  <1>3. ASSUME NEW n \in Names \ spent'.removed PROVE Sound(n)'
    <2>1. Sound(n)
      BY FilesParts, ZenonT(40)
    <2>2. CASE n # m
      <3>1. data'[n] = data[n] /\ marker'[n] = marker[n]
        BY <2>2, Zenon
      <3>2. \A d \in Clients : up'[d].name = n => d # c /\ up'[d] = up[d]
        BY <1>1, <2>2
      <3>3. ASSUME NEW d \in Clients, up'[d].name = n PROVE Doing(d, n)'
        <4>1. up'[d] = up[d]
          BY <3>2, <3>3, Zenon
        <4>2. Doing(d, n)
          BY <2>1, <3>3, <4>1, Zenon DEF Sound
        <4>3. QED
          BY <3>1, <4>1, <4>2, SameDoing, Zenon
      <3>4. QED
        BY <2>1, <3>1, <3>3 DEF Sound, Complete
    <2>3. CASE n = m
      <3>1. marker[m] \notin Contents /\ m \notin spent.removed
        BY <2>3
      <3>2. Complete(m)' => data'[m] = marker'[m]
        BY <3>1, ThingsApart DEF Complete
      <3>3. acked[m] = {}
        <4>1. acked[m] \subseteq Contents
          BY Zenon DEF TypeOK
        <4>2. ASSUME NEW x \in acked[m] PROVE FALSE
          <5>1. marker[m] = x
            BY <2>1, <2>3, Zenon DEF Sound
          <5>2. QED
            BY <3>1, <4>1, <5>1, Zenon
        <4>3. QED
          BY <4>2, Zenon
      <3>4. ASSUME NEW d \in Clients, up'[d].name = m PROVE Doing(d, m)'
        <4>1. CASE d = c
          BY <1>1, <3>1, <4>1 DEF Doing
        <4>2. CASE d # c
          <5>1. up'[d] = up[d] /\ up[d].pc \notin {"renamed", "marking"}
            BY <1>1, <4>2
          <5>2. up[d].pc # "stored"
            <6>1. ASSUME up[d].pc = "stored" PROVE FALSE
              <7>1. up[d].body \in Contents /\ up[d].name = m
                BY <3>4, <5>1, <6>1 DEF UploadsInv
              <7>2. marker[m] = up[d].body
                BY <2>1, <2>3, <6>1, <7>1, Zenon DEF Sound, Doing
              <7>3. QED
                BY <3>1, <7>1, <7>2
            <6>2. QED
              BY <6>1
          <5>3. QED
            BY <5>1, <5>2 DEF Doing
        <4>3. QED
          BY <4>1, <4>2, ZenonT(40)
      <3>5. QED
        BY <2>3, <3>2, <3>3, <3>4, ZenonT(40) DEF Sound
    <2>4. QED
      BY <2>2, <2>3
  <1>4. QED
    BY <1>2, <1>3, ZenonT(40) DEF FilesInv, NamesInv, AckedUploadStays, Sound, Locks

LEMMA FilesOfFinalize ==
    ASSUME TypeOK, UploadsInv, FilesInv, NEW c \in Clients, Finalize(c)
    PROVE  FilesInv'
  <1>1. /\ up[c].pc = "hashed" /\ final = None /\ UNCHANGED <<marker, acked, spent>>
    BY DEF Finalize, FinalizeFree
  <1>2. up[c].name \in Names /\ up[c].body \in Contents
    BY <1>1 DEF UploadsInv
  <1>3. CASE /\ marker[up[c].name] = up[c].body
             /\ up' = [up EXCEPT ![c].pc = "stored", ![c].linked = FALSE]
             /\ UNCHANGED <<data, final>>
    <2>1. PICK r \in Handler : /\ up' = [up EXCEPT ![c] = r] /\ r.pc = "stored"
                               /\ r.name = up[c].name /\ r.body = up[c].body
      BY <1>3, GoesOn, ZenonT(40) DEF Goes
    <2>2. QED
      BY <1>1, <1>2, <1>3, <2>1, FilesOfReader, Zenon
  <1>4. CASE Fail(c) /\ UNCHANGED <<data, final>>
    <2>1. PICK r \in Handler : up' = [up EXCEPT ![c] = r] /\ r.pc = "refused"
      BY <1>4, GoesOn, ZenonT(40) DEF Goes, Fail
    <2>2. QED
      BY <1>1, <1>4, <2>1, FilesOfReader, Zenon
  <1>5. CASE /\ marker[up[c].name] = None
             /\ data' = [data EXCEPT ![up[c].name] = up[c].body]
             /\ up' = [up EXCEPT ![c].pc = "renamed", ![c].linked = FALSE]
             /\ final' = c
    <2>1. PICK r \in Handler : /\ up' = [up EXCEPT ![c] = r] /\ r.pc = "renamed"
                               /\ r.name = up[c].name /\ r.body = up[c].body
      BY <1>5, GoesOn, ZenonT(40) DEF Goes
    <2>2. PICK m \in Names : m = up[c].name
      BY <1>2
    <2>3. \A d \in Clients : up[d].pc \notin {"renamed", "marking"}
      BY <1>1, FilesParts, ThingsApart DEF Locks
    <2>4. /\ data'[m] = r.body /\ marker'[m] = None /\ marker[m] \notin Contents
          /\ \A n \in Names : n # m => data'[n] = data[n] /\ marker'[n] = marker[n]
      BY <1>1, <1>5, <2>1, <2>2, ThingsApart DEF TypeOK
    <2>5. /\ r.name = m /\ r.body = up[c].body /\ up[c].body \in Contents
          /\ \A n \in Names : n # m => data'[n] = data[n] /\ marker'[n] = marker[n]
          /\ \A d \in Clients : d # c => up[d].pc \notin {"renamed", "marking"}
          /\ m \notin spent.removed => marker[m] \notin Contents
          /\ r.pc \in {"renamed", "marking"} => final' = c
          /\ r.pc \in {"renamed", "marking", "stored", "refused"}
          /\ m \notin spent.removed =>
               /\ r.pc = "renamed" => data'[m] = r.body /\ marker'[m] = None
               /\ r.pc = "marking" => data'[m] = r.body /\ marker'[m] = Torn
               /\ r.pc = "stored" => data'[m] = r.body /\ marker'[m] = r.body
               /\ r.pc = "refused" => marker'[m] \notin Contents
      BY <1>1, <1>2, <1>5, <2>1, <2>2, <2>3, <2>4
    <2>6. QED
      BY <1>1, <2>1, <2>2, <2>5, FilesOfWriter, ZenonT(40)
  <1>6. QED
    BY <1>3, <1>4, <1>5 DEF Finalize

LEMMA FilesOfMarker ==
    ASSUME TypeOK, UploadsInv, FilesInv, NEW c \in Clients,
           CreateMarker(c) \/ WriteMarker(c) \/ MarkerFails(c)
    PROVE  FilesInv'
  <1>1. up[c].pc \in {"renamed", "marking"} /\ acked' = acked /\ spent'.removed = spent.removed
    BY HitType DEF CreateMarker, WriteMarker, MarkerFails
  <1>2. PICK m \in Names : m = up[c].name
    BY <1>1 DEF UploadsInv
  <1>3. up[c].body \in Contents
    BY <1>1 DEF UploadsInv
  <1>4. final = c /\ \A d \in Clients : d # c => up[d].pc \notin {"renamed", "marking"}
    BY <1>1, FilesParts DEF Locks
  <1>5. m \notin spent.removed => Doing(c, m)
    BY <1>2, FilesParts DEF Sound
  <1>6. m \notin spent.removed => marker[m] \notin Contents /\ data[m] = up[c].body
    BY <1>1, <1>5, ThingsApart DEF Doing
  <1>7. CASE CreateMarker(c)
    <2>1. PICK r \in Handler : /\ up' = [up EXCEPT ![c] = r] /\ r.pc = "marking"
                               /\ r.name = up[c].name /\ r.body = up[c].body
      BY <1>7, HandlerSteps DEF Goes
    <2>2. /\ data' = data /\ final' = final /\ marker'[m] = Torn
          /\ \A n \in Names : n # m => marker'[n] = marker[n]
      BY <1>2, <1>7 DEF CreateMarker, TypeOK
    <2>3. /\ r.name = m /\ r.body = up[c].body /\ up[c].body \in Contents
          /\ \A n \in Names : n # m => data'[n] = data[n] /\ marker'[n] = marker[n]
          /\ \A d \in Clients : d # c => up[d].pc \notin {"renamed", "marking"}
          /\ m \notin spent.removed => marker[m] \notin Contents
          /\ r.pc \in {"renamed", "marking"} => final' = c
          /\ r.pc \in {"renamed", "marking", "stored", "refused"}
          /\ m \notin spent.removed =>
               /\ r.pc = "renamed" => data'[m] = r.body /\ marker'[m] = None
               /\ r.pc = "marking" => data'[m] = r.body /\ marker'[m] = Torn
               /\ r.pc = "stored" => data'[m] = r.body /\ marker'[m] = r.body
               /\ r.pc = "refused" => marker'[m] \notin Contents
      BY <1>1, <1>2, <1>3, <1>4, <1>6, <2>1, <2>2, ZenonT(40)
    <2>4. QED
      BY <1>1, <1>2, <2>1, <2>3, FilesOfWriter, ZenonT(40)
  <1>8. CASE WriteMarker(c)
    <2>1. PICK r \in Handler : /\ up' = [up EXCEPT ![c] = r] /\ r.pc = "stored"
                               /\ r.name = up[c].name /\ r.body = up[c].body
      BY <1>8, HandlerSteps DEF Goes
    <2>2. /\ data' = data /\ marker'[m] = up[c].body
          /\ \A n \in Names : n # m => marker'[n] = marker[n]
      BY <1>2, <1>8 DEF WriteMarker, TypeOK
    <2>3. /\ r.name = m /\ r.body = up[c].body /\ up[c].body \in Contents
          /\ \A n \in Names : n # m => data'[n] = data[n] /\ marker'[n] = marker[n]
          /\ \A d \in Clients : d # c => up[d].pc \notin {"renamed", "marking"}
          /\ m \notin spent.removed => marker[m] \notin Contents
          /\ r.pc \in {"renamed", "marking"} => final' = c
          /\ r.pc \in {"renamed", "marking", "stored", "refused"}
          /\ m \notin spent.removed =>
               /\ r.pc = "renamed" => data'[m] = r.body /\ marker'[m] = None
               /\ r.pc = "marking" => data'[m] = r.body /\ marker'[m] = Torn
               /\ r.pc = "stored" => data'[m] = r.body /\ marker'[m] = r.body
               /\ r.pc = "refused" => marker'[m] \notin Contents
      BY <1>1, <1>2, <1>3, <1>4, <1>6, <2>1, <2>2, ZenonT(40)
    <2>4. QED
      BY <1>1, <1>2, <2>1, <2>3, FilesOfWriter, ZenonT(40)
  <1>9. CASE MarkerFails(c)
    <2>1. PICK r \in Handler : /\ up' = [up EXCEPT ![c] = r] /\ r.pc = "refused"
                               /\ r.name = up[c].name /\ r.body = up[c].body
      BY <1>9, HandlerSteps DEF Goes
    <2>2. marker' = marker /\ \A n \in Names : n # m => data'[n] = data[n]
      BY <1>2, <1>9 DEF MarkerFails, TypeOK
    <2>3. QED
      BY <1>1, <1>2, <1>3, <1>4, <1>6, <2>1, <2>2, FilesOfWriter, ZenonT(40)
  <1>10. QED
    BY <1>7, <1>8, <1>9

\* An answer promises what the marker and the file say.
LEMMA FilesOfAnswer ==
    ASSUME TypeOK, UploadsInv, FilesInv, NEW c \in Clients, Answer(c)
    PROVE  FilesInv'
  <1>1. up[c].pc \in {"stored", "refused"} /\ UNCHANGED <<data, marker, final, spent>>
    BY DEF Answer
  <1>2. PICK r \in Handler : up' = [up EXCEPT ![c] = r] /\ r.pc = "idle"
    BY HandlerSteps DEF Drops
  <1>3. up'[c] = r /\ \A d \in Clients : d # c => up'[d] = up[d]
    BY <1>2, OneMoves, ZenonT(40)
  <1>4. Locks'
    BY <1>1, <1>2, <1>3, FilesParts DEF Locks
  <1>5. ASSUME NEW n \in Names \ spent'.removed PROVE Sound(n)'
    <2>1. Sound(n)
      BY <1>1, FilesParts
    <2>2. ASSUME NEW d \in Clients, up'[d].name = n PROVE Doing(d, n)'
      <3>1. CASE d = c
        BY <1>2, <1>3, <3>1 DEF Doing
      <3>2. CASE d # c
        BY <1>1, <1>3, <2>1, <2>2, <3>2, Zenon DEF Sound, Doing
      <3>3. QED
        BY <3>1, <3>2
    <2>3. ASSUME NEW x \in acked'[n] PROVE data'[n] = x /\ marker'[n] = x
      <3>1. CASE x \in acked[n]
        BY <1>1, <2>1, <3>1, ZenonT(40) DEF Sound
      <3>2. CASE x \notin acked[n]
        <4>1. up[c].pc = "stored" /\ acked' = [acked EXCEPT ![up[c].name] = @ \cup {up[c].body}]
          BY <2>3, <3>2 DEF Answer
        <4>2. up[c].name \in Names
          BY <4>1 DEF UploadsInv
        <4>3. n = up[c].name /\ x = up[c].body
          BY <2>3, <3>2, <4>1, <4>2, ZenonT(40) DEF TypeOK
        <4>4. QED
          BY <1>1, <2>1, <4>1, <4>3 DEF Sound, Doing
      <3>3. QED
        BY <3>1, <3>2
    <2>4. QED
      BY <1>1, <2>1, <2>2, <2>3 DEF Sound, Complete
  <1>6. QED
    BY <1>4, <1>5 DEF FilesInv, NamesInv, AckedUploadStays, Sound, Locks

\* The ingest Job unlinks under a name that counts as removed from.
LEMMA FilesOfIngest ==
    ASSUME TypeOK, UploadsInv, FilesInv,
           \/ \E n \in Names : StartIngest(n)
           \/ ReadUpload \/ IngestKilled
           \/ \E f \in {"data", "marker"} : Unlink(f)
    PROVE  FilesInv'
  <1>1. Untouched /\ final' = final /\ acked' = acked /\ spent.removed \subseteq spent'.removed
    <2>1. CASE \E n \in Names : StartIngest(n)
      BY <2>1, StartIngestFacts, Zenon DEF StartIngest
    <2>2. CASE ReadUpload
      BY <2>2, ReadUploadFacts DEF Untouched
    <2>3. CASE IngestKilled
      BY <2>3, IngestKilledFacts DEF Untouched
    <2>4. CASE \E f \in {"data", "marker"} : Unlink(f)
      BY <2>4, UnlinkFacts DEF Untouched
    <2>5. QED
      BY <2>1, <2>2, <2>3, <2>4
  <1>2. \A n \in Names \ spent.removed : data'[n] = data[n] /\ marker'[n] = marker[n]
    <2>1. CASE \E f \in {"data", "marker"} : Unlink(f)
      BY <2>1, UnlinkFacts DEF TypeOK
    <2>2. CASE UNCHANGED <<data, marker>>
      BY <2>2
    <2>3. QED
      BY <2>1, <2>2 DEF StartIngest, ReadUpload, IngestKilled
  <1>3. Locks'
    BY <1>1, FilesParts, ZenonT(40) DEF Locks, Untouched
  <1>4. ASSUME NEW n \in Names \ spent'.removed PROVE Sound(n)'
    <2>1. Sound(n) /\ data'[n] = data[n] /\ marker'[n] = marker[n]
      BY <1>1, <1>2, FilesParts
    <2>2. ASSUME NEW d \in Clients, up'[d].name = n PROVE Doing(d, n)'
      BY <1>1, <2>1, <2>2, ZenonT(40) DEF Sound, Doing, Untouched
    <2>3. QED
      BY <1>1, <2>1, <2>2 DEF Sound, Complete
  <1>5. QED
    BY <1>3, <1>4, Zenon DEF FilesInv, NamesInv, AckedUploadStays, Sound, Locks

LEMMA FilesHolds ==
    ASSUME TypeOK, UploadsInv, FilesInv, [Next]_vars
    PROVE  FilesInv'
  <1>1. CASE \E c \in Clients : \E n \in Names, x \in Contents : Begin(c, n, x)
    <2>1. PICK c \in Clients, n \in Names, x \in Contents : Begin(c, n, x)
      BY <1>1
    <2>2. up[c].pc = "idle" /\ UNCHANGED <<data, marker, final, acked, spent>>
      BY <2>1 DEF Begin
    <2>3. PICK r \in Handler : up' = [up EXCEPT ![c] = r] /\ r.pc \in {"scanned", "refused"}
      BY <2>1, TypeOfBegin DEF Drops
    <2>4. QED
      BY <2>2, <2>3, FilesOfReader, Zenon
  <1>2. CASE \E c \in Clients : Reserve(c) \/ Stream(c) \/ StreamCut(c)
    <2>1. PICK c \in Clients : Reserve(c) \/ Stream(c) \/ StreamCut(c)
      BY <1>2
    <2>2. /\ up[c].pc \in {"scanned", "stream"} /\ UNCHANGED <<data, marker, final, acked>>
          /\ spent'.removed = spent.removed
      BY <2>1, HitType DEF Reserve, Stream, StreamCut
    <2>3. PICK r \in Handler : up' = [up EXCEPT ![c] = r] /\ r.pc \in {"stream", "hashed", "refused"}
      <3>1. \/ Goes(c, "stream") \/ Goes(c, "hashed") \/ Goes(c, "refused") \/ Drops(c, "refused")
        BY <2>1, HandlerSteps
      <3>2. QED
        BY <3>1 DEF Goes, Drops
    <2>4. QED
      BY <2>2, <2>3, FilesOfReader, Zenon
  <1>3. CASE Crash
    <2>1. /\ up' = [c \in Clients |-> Idle] /\ UNCHANGED <<data, marker, acked>>
          /\ spent'.removed = spent.removed
      BY <1>3, HitType DEF Crash
    <2>2. \A c \in Clients : up'[c].pc = "idle"
      BY <2>1, IdleIsHandler
    <2>3. Locks'
      BY <2>2 DEF Locks
    <2>4. ASSUME NEW n \in Names \ spent'.removed PROVE Sound(n)'
      <3>1. Sound(n)
        BY <2>1, FilesParts
      <3>2. ASSUME NEW d \in Clients PROVE Doing(d, n)'
        BY <2>2 DEF Doing
      <3>3. QED
        BY <2>1, <3>1, <3>2 DEF Sound, Complete
    <2>5. QED
      BY <2>3, <2>4, ZenonT(40) DEF FilesInv, NamesInv, AckedUploadStays, Sound, Locks
  <1>4. CASE UNCHANGED vars
    BY <1>4, SameFiles DEF vars
  <1>5. QED
    BY <1>1, <1>2, <1>3, <1>4, FilesOfFinalize, FilesOfMarker, FilesOfAnswer, FilesOfIngest
       DEF Next, Serve

(***************************************************************************)
(* The theorems.                                                           *)
(***************************************************************************)
LEMMA InitiallySound == Init => Inv
  <1> SUFFICES ASSUME Init PROVE Inv
    OBVIOUS
  <1>1. TypeOK /\ UploadsInv
    <2>1. up \in [Clients -> Handler] /\ \A c \in Clients : up[c].pc = "idle" /\ up[c].body = None
      BY IdleIsHandler DEF Init
    <2>2. /\ job \in [pc : {"none", "resolved", "removing"}, name : Names \cup {None},
                     sum : Contents \cup {None}, todo : SUBSET {"data", "marker"}]
          /\ job.pc = "none"
      BY DEF Init, NoJob
    <2>3. spent \in [ingests : 0..MaxIngests, mishaps : 0..MaxMishaps, removed : SUBSET Names]
      <3>1. spent = [ingests |-> 0, mishaps |-> 0, removed |-> {}]
        BY Zenon DEF Init
      <3>2. 0 \in 0..MaxIngests /\ 0 \in 0..MaxMishaps
        BY BoundsAreNaturals
      <3>3. QED
        BY <3>1, <3>2, Zenon
    <2>4. TypeOK
      <3>1. /\ data \in [Names -> Contents \cup {None}]
            /\ marker \in [Names -> Contents \cup {None, Torn}]
        BY Zenon DEF Init
      <3>2. acked \in [Names -> SUBSET Contents]
        BY Zenon DEF Init
      <3>3. mu \in Clients \cup {None} /\ final \in Clients \cup {None}
        BY Zenon DEF Init
      <3>4. reserved \in Int
        BY DEF Init
      <3>5. QED
        BY <2>1, <2>2, <2>3, <3>1, <3>2, <3>3, <3>4, Zenon DEF TypeOK, Handler
    <2>5. UploadsInv
      BY <2>1, <2>2, ZenonT(40) DEF UploadsInv
    <2>6. QED
      BY <2>4, <2>5
  <1>2. /\ \A c \in Clients : up[c].pc = "idle" /\ up[c].body = None
        /\ \A n \in Names : marker[n] = None /\ data[n] = None
    BY DEF Init, Idle
  <1>3. /\ \A n \in Names : MarkedBytes[n] = 0 /\ StoredBytes[n] = 0
        /\ \A c \in Clients : /\ BodiesAt(Reserving)[c] = 0 /\ BodiesAt(Promised)[c] = 0
                              /\ BodiesAt({"stream", "hashed"})[c] = 0
    BY <1>2, ThingsApart, ZenonT(40) DEF MarkedBytes, StoredBytes, BodiesAt, Bytes, Reserving, Promised
  <1>4. /\ Total(MarkedBytes) = 0 /\ Total(StoredBytes) = 0
        /\ Total(BodiesAt(Reserving)) = 0 /\ Total(BodiesAt(Promised)) = 0
        /\ Total(BodiesAt({"stream", "hashed"})) = 0
    <2>1. Total(MarkedBytes) = 0
      BY <1>1, <1>3, TotalZero, SumTypes, Zenon
    <2>2. Total(StoredBytes) = 0
      BY <1>1, <1>3, TotalZero, SumTypes, Zenon
    <2>3. ASSUME NEW pcs, \A c \in Clients : BodiesAt(pcs)[c] = 0 PROVE Total(BodiesAt(pcs)) = 0
      BY <1>1, <2>3, TotalZero, SumTypes, Zenon
    <2>4. QED
      BY <1>3, <2>1, <2>2, <2>3, Zenon
  <1>5. LedgerInv
    BY <1>2, <1>4 DEF LedgerInv, Init
  <1>6. QuotaKept /\ AdmittedFits
    BY <1>4, BoundsAreNaturals DEF QuotaKept, AdmittedFits, UsedBytes
  <1>7. NamesInv /\ AckedUploadStays
    BY <1>2, ThingsApart DEF NamesInv, AckedUploadStays, Doing, Complete, Init
  <1>8. QED
    BY <1>1, <1>5, <1>6, <1>7 DEF Inv

LEMMA InvHolds == Spec => []Inv
  <1>1. Inv /\ [Next]_vars => Inv'
    BY UploadsKept, CapacityHolds, FilesHolds DEF Inv, CapacityInv, FilesInv
  <1>2. QED
    BY <1>1, InitiallySound, PTL DEF Spec

\* Every request, the two locks, the ledger and the ingest Job stay in their types.
THEOREM TypeCorrect == Spec => []TypeOK
  <1>1. Inv => TypeOK
    BY DEF Inv
  <1>2. QED
    BY <1>1, InvHolds, PTL

\* For every number of uploaders and names and every quota: what the completion markers
\* record and what was promised to uploads still arriving stay within --staging-quota-bytes,
\* although Reserve decides on a scan of the markers that other uploads overtake.
THEOREM QuotaIsKept == Spec => []QuotaKept
  <1>1. Inv => QuotaKept
    BY DEF Inv
  <1>2. QED
    BY <1>1, InvHolds, PTL

\* For every volume and headroom: the files stored and the bodies still to be written leave
\* the headroom free, across crashes, failed writes and sweeps of the temporary files.
THEOREM AdmittedUploadsFit == Spec => []AdmittedFits
  <1>1. Inv => AdmittedFits
    BY DEF Inv
  <1>2. QED
    BY <1>1, InvHolds, PTL

\* A name and a content a client was told are stored belong together, in the file and in the
\* marker, for ever or until an ingest Job has removed an upload of that name.
THEOREM AcknowledgedUploadsStay == Spec => []AckedUploadStays
  <1>1. Inv => AckedUploadStays
    BY DEF Inv
  <1>2. QED
    BY <1>1, InvHolds, PTL
=============================================================================
