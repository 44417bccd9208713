-------------------------- MODULE VaultServer_proofs --------------------------
(***************************************************************************)
(* Proofs about one vault on the server, for any paths, contents, limits   *)
(* and retention periods.  For any number of requests in flight: the state *)
(* is well-typed and the byte budget holds whatever fails; while nothing   *)
(* has failed, rows and blobs agree, the handlers implement GateService,   *)
(* and writes in turn leave their history.  For one writer at a time, with *)
(* failures: rows and blobs agree again after `undo`, the trash opens to   *)
(* what was deleted, and the content of a live row is kept.                *)
(***************************************************************************)
EXTENDS VaultServer, FiniteSetTheorems, NaturalsInduction, TLAPS

-----------------------------------------------------------------------------
(* Sums.  MapThenSumSet folds over a set in the order of CHOOSE.  The      *)
(* lemmas show that the fold is well-defined on a finite set and that      *)
(* every element can be split off.                                         *)

Pick(s) == CHOOSE x \in s : TRUE

\* g is the fold of the weights w over the subsets of U.
IsSum(g, w, U) ==
    g = [s \in SUBSET U |-> IF s = {} THEN 0 ELSE w[Pick(s)] + g[s \ {Pick(s)}]]

SumOf(w, U) == (CHOOSE g : IsSum(g, w, U))[U]

\* The bytes of the rows of U.
Bytes(rr, U) == MapThenSumSet(LAMBDA q : rr[q].size, U)

\* A set without the element picked from it is smaller.
LEMMA PickIn == ASSUME NEW s, s # {} PROVE Pick(s) \in s /\ s \ {Pick(s)} # s
  BY DEF Pick

\* A family of subsets of a finite set has a minimal member: induction over
\* finite sets without an operator parameter.
LEMMA SumMin ==
  ASSUME NEW U, IsFiniteSet(U), NEW T, T \subseteq SUBSET U, T # {}
  PROVE  \E s \in T : \A t \in T : ~(t \subseteq s /\ t # s)
<1>1. FiniteSubsetsOf(U) = SUBSET U
  BY FS_FiniteSubsetsOfFinite
<1>2. \E s \in T : \A t \in T : <<t, s>> \notin StrictSubsetOrdering(U)
  BY <1>1, FS_StrictSubsetOrderingWellFounded, WFMin
<1>3. QED
  BY <1>2 DEF StrictSubsetOrdering

\* The fold's equation has one solution: two of them agree where both are
\* defined.
LEMMA SumUnique ==
  ASSUME NEW U, NEW V, IsFiniteSet(U), NEW w, NEW g, NEW h, IsSum(g, w, U), IsSum(h, w, V),
         NEW W, W \subseteq U, W \subseteq V
  PROVE  g[W] = h[W]
<1> DEFINE T == {s \in SUBSET (U \cap V) : g[s] # h[s]}
<1>1. SUFFICES ASSUME T # {} PROVE FALSE
  OBVIOUS
<1>2. IsFiniteSet(U \cap V)
  BY FS_Subset
<1>a. T \subseteq SUBSET (U \cap V)
  OBVIOUS
<1>b. \E s \in T : \A t \in T : ~(t \subseteq s /\ t # s)
  <2> HIDE DEF T
  <2> QED BY <1>1, <1>2, <1>a, SumMin
<1>3. PICK s \in T : \A t \in T : ~(t \subseteq s /\ t # s)
  BY <1>b
<1>4. /\ g[s] = IF s = {} THEN 0 ELSE w[Pick(s)] + g[s \ {Pick(s)}]
      /\ h[s] = IF s = {} THEN 0 ELSE w[Pick(s)] + h[s \ {Pick(s)}]
  BY DEF IsSum
<1>5. s # {}
  BY <1>4
<1>6. g[s \ {Pick(s)}] = h[s \ {Pick(s)}]
  BY <1>3, <1>5, PickIn
<1>7. QED
  BY <1>4, <1>6

\* The fold's equation has a solution on every finite set.
LEMMA SumExists ==
  ASSUME NEW U, IsFiniteSet(U), NEW w
  PROVE  \E g : IsSum(g, w, U)
<1> DEFINE T == {V \in SUBSET U : ~ \E g : IsSum(g, w, V)}
<1>1. SUFFICES ASSUME T # {} PROVE FALSE
  OBVIOUS
<1>2. \E s \in T : \A t \in T : ~(t \subseteq s /\ t # s)
  <2>1. T \subseteq SUBSET U
    OBVIOUS
  <2> HIDE DEF T
  <2>2. QED
    BY <1>1, <2>1, SumMin
<1>3. PICK V \in T : \A t \in T : ~(t \subseteq V /\ t # V)
  BY <1>2
<1>4. \A t : t \subseteq V /\ t # V => \E g : IsSum(g, w, t)
  BY <1>3
<1>5. IsFiniteSet(V) /\ V \subseteq U /\ ~ \E g : IsSum(g, w, V)
  BY FS_Subset
<1> HIDE DEF T
<1> DEFINE part(t) == CHOOSE g : IsSum(g, w, t)
           G == [s \in SUBSET V |->
                   IF s = {} THEN 0
                   ELSE w[Pick(s)] + part(s \ {Pick(s)})[s \ {Pick(s)}]]
<1>6. ASSUME NEW t, t \subseteq V, t # V
      PROVE  IsSum(part(t), w, t)
  BY <1>4, <1>6
<1>7. ASSUME NEW t, t \subseteq V, t # V
      PROVE  G[t] = part(t)[t]
  <2>1. part(t)[t] = IF t = {} THEN 0 ELSE w[Pick(t)] + part(t)[t \ {Pick(t)}]
    <3> HIDE DEF part
    <3> QED BY <1>6, <1>7 DEF IsSum
  <2>2. CASE t = {}
    BY <2>1, <2>2
  <2>3. CASE t # {}
    <3>1. t \ {Pick(t)} \subseteq V /\ t \ {Pick(t)} # V /\ t \ {Pick(t)} \subseteq t
      BY <1>7, <2>3, PickIn
    <3>2. IsSum(part(t), w, t) /\ IsSum(part(t \ {Pick(t)}), w, t \ {Pick(t)})
      BY <1>6, <1>7, <3>1
    <3>3. IsFiniteSet(t)
      BY <1>5, <1>7, FS_Subset
    <3>4. part(t)[t \ {Pick(t)}] = part(t \ {Pick(t)})[t \ {Pick(t)}]
      <4> HIDE DEF part
      <4> QED BY <3>1, <3>2, <3>3, SumUnique
    <3>5. G[t] = w[Pick(t)] + part(t \ {Pick(t)})[t \ {Pick(t)}]
      <4> HIDE DEF part
      <4> QED BY <1>7, <2>3
    <3>6. QED
      <4> HIDE DEF part, G
      <4> QED BY <2>1, <2>3, <3>4, <3>5
  <2>4. QED
    BY <2>2, <2>3
<1>8. ASSUME NEW s \in SUBSET V
      PROVE  G[s] = IF s = {} THEN 0 ELSE w[Pick(s)] + G[s \ {Pick(s)}]
  <2>1. CASE s = {}
    BY <2>1
  <2>2. CASE s # {}
    <3>1. s \ {Pick(s)} \subseteq V /\ s \ {Pick(s)} # V
      BY <2>2, PickIn
    <3>2. G[s] = w[Pick(s)] + part(s \ {Pick(s)})[s \ {Pick(s)}]
      <4> HIDE DEF part
      <4> QED BY <2>2
    <3>3. G[s \ {Pick(s)}] = part(s \ {Pick(s)})[s \ {Pick(s)}]
      BY <1>7, <3>1
    <3>4. QED
      <4> HIDE DEF part, G
      <4> QED BY <2>2, <3>2, <3>3
  <2>3. QED
    BY <2>1, <2>2
<1>9. G = [s \in SUBSET V |-> G[s]]
  <2> HIDE DEF part
  <2> QED OBVIOUS
<1>10. IsSum(G, w, V)
  <2> HIDE DEF G
  <2> QED BY <1>8, <1>9 DEF IsSum
<1>11. QED
  BY <1>5, <1>10

\* The fold, unfolded once.
LEMMA SumRec ==
  ASSUME NEW U, IsFiniteSet(U), NEW w
  PROVE  /\ U = {} => SumOf(w, U) = 0
         /\ U # {} => SumOf(w, U) = w[Pick(U)] + SumOf(w, U \ {Pick(U)})
<1> DEFINE all(V) == CHOOSE g : IsSum(g, w, V)
           V == U \ {Pick(U)}
<1>1. IsFiniteSet(V)
  BY FS_Subset
<1>2. IsSum(all(U), w, U) /\ IsSum(all(V), w, V)
  BY <1>1, SumExists
<1>3. SumOf(w, U) = all(U)[U] /\ SumOf(w, V) = all(V)[V]
  BY DEF SumOf
<1> HIDE DEF all
<1>4. all(U)[U] = IF U = {} THEN 0 ELSE w[Pick(U)] + all(U)[U \ {Pick(U)}]
  BY <1>2 DEF IsSum
<1>5. all(U)[V] = all(V)[V]
  BY <1>2, SumUnique
<1>6. QED
  BY <1>3, <1>4, <1>5

\* The sum depends on the weights of the summed elements only.
LEMMA SumSame ==
  ASSUME NEW U, IsFiniteSet(U), NEW w, NEW v, \A q \in U : w[q] = v[q]
  PROVE  SumOf(w, U) = SumOf(v, U)
<1> DEFINE T == {s \in SUBSET U : SumOf(w, s) # SumOf(v, s)}
<1>1. SUFFICES ASSUME T # {} PROVE FALSE
  OBVIOUS
<1>2. \E s \in T : \A t \in T : ~(t \subseteq s /\ t # s)
  <2>1. T \subseteq SUBSET U
    OBVIOUS
  <2> HIDE DEF T
  <2>2. QED
    BY <1>1, <2>1, SumMin
<1>3. PICK s \in T : \A t \in T : ~(t \subseteq s /\ t # s)
  BY <1>2
<1>4. IsFiniteSet(s)
  BY FS_Subset
<1>5. s # {}
  BY <1>4, SumRec
<1>6. Pick(s) \in s /\ s \ {Pick(s)} # s
  BY <1>5, PickIn
<1>7. SumOf(w, s \ {Pick(s)}) = SumOf(v, s \ {Pick(s)})
  BY <1>3, <1>6
<1>8. QED
  BY <1>4, <1>5, <1>6, <1>7, SumRec

\* A sum of naturals is a natural.
LEMMA SumNat ==
  ASSUME NEW U, IsFiniteSet(U), NEW w, \A q \in U : w[q] \in Nat
  PROVE  SumOf(w, U) \in Nat
<1> DEFINE T == {s \in SUBSET U : SumOf(w, s) \notin Nat}
<1>1. SUFFICES ASSUME T # {} PROVE FALSE
  OBVIOUS
<1>2. \E s \in T : \A t \in T : ~(t \subseteq s /\ t # s)
  <2>1. T \subseteq SUBSET U
    OBVIOUS
  <2> HIDE DEF T
  <2>2. QED
    BY <1>1, <2>1, SumMin
<1>3. PICK s \in T : \A t \in T : ~(t \subseteq s /\ t # s)
  BY <1>2
<1>4. IsFiniteSet(s)
  BY FS_Subset
<1>5. s # {}
  BY <1>4, SumRec
<1>6. Pick(s) \in s /\ s \ {Pick(s)} # s
  BY <1>5, PickIn
<1>7. SumOf(w, s \ {Pick(s)}) \in Nat /\ w[Pick(s)] \in Nat
  BY <1>3, <1>6
<1>8. SumOf(w, s) = w[Pick(s)] + SumOf(w, s \ {Pick(s)})
  BY <1>4, <1>5, SumRec
<1>9. SumOf(w, s) \notin Nat
  OBVIOUS
<1> HIDE DEF T
<1>10. QED
  BY <1>7, <1>8, <1>9

\* Any element can be taken out of a sum, not only the picked one.
LEMMA SumSplit ==
  ASSUME NEW U, IsFiniteSet(U), NEW w, \A q \in U : w[q] \in Nat, NEW x \in U
  PROVE  SumOf(w, U) = w[x] + SumOf(w, U \ {x})
<1> DEFINE T == {s \in SUBSET U : \E y \in s : SumOf(w, s) # w[y] + SumOf(w, s \ {y})}
<1>1. SUFFICES ASSUME T # {} PROVE FALSE
  OBVIOUS
<1>2. \E s \in T : \A t \in T : ~(t \subseteq s /\ t # s)
  <2>1. T \subseteq SUBSET U
    OBVIOUS
  <2> HIDE DEF T
  <2>2. QED
    BY <1>1, <2>1, SumMin
<1>3. PICK s \in T : \A t \in T : ~(t \subseteq s /\ t # s)
  BY <1>2
<1>4. PICK y \in s : SumOf(w, s) # w[y] + SumOf(w, s \ {y})
  OBVIOUS
<1> DEFINE c == Pick(s)
<1>5. IsFiniteSet(s) /\ IsFiniteSet(s \ {y}) /\ IsFiniteSet(s \ {c}) /\ IsFiniteSet((s \ {y}) \ {c})
  BY FS_Subset
<1>6. c \in s /\ SumOf(w, s) = w[c] + SumOf(w, s \ {c})
  BY <1>5, SumRec, PickIn
<1>7. y # c
  BY <1>4, <1>6
<1> HIDE DEF c
<1>8. SumOf(w, s \ {c}) = w[y] + SumOf(w, (s \ {c}) \ {y})
  BY <1>3, <1>6, <1>7
<1>9. SumOf(w, s \ {y}) = w[c] + SumOf(w, (s \ {y}) \ {c})
  BY <1>3, <1>6, <1>7
<1>10. (s \ {c}) \ {y} = (s \ {y}) \ {c}
  OBVIOUS
<1>11. w[y] \in Nat /\ w[c] \in Nat /\ SumOf(w, (s \ {y}) \ {c}) \in Nat
  BY <1>5, <1>6, SumNat
<1>12. SumOf(w, s) = w[c] + (w[y] + SumOf(w, (s \ {y}) \ {c}))
  BY <1>6, <1>8, <1>10
<1>13. SumOf(w, s \ {y}) = w[c] + SumOf(w, (s \ {y}) \ {c})
  BY <1>9
<1> HIDE DEF T
<1>14. QED
  BY <1>4, <1>11, <1>12, <1>13

\* MapThenSumSet over the sizes of rows is this sum.
LEMMA BytesSum ==
  ASSUME NEW rr, NEW U, IsFiniteSet(U), NEW w, \A q \in U : w[q] = rr[q].size
  PROVE  Bytes(rr, U) = SumOf(w, U)
<1> DEFINE Fits(g) == g = [s \in SUBSET U |->
       IF s = {} THEN 0 ELSE rr[CHOOSE x \in s : TRUE].size + g[s \ {CHOOSE x \in s : TRUE}]]
<1>1. Bytes(rr, U) = (CHOOSE g : Fits(g))[U]
  BY Zenon DEF Bytes, MapThenSumSet, MapThenFoldSet
<1>2. ASSUME NEW g
      PROVE  Fits(g) <=> IsSum(g, w, U)
  <2>1. \A s \in SUBSET U : s # {} => rr[Pick(s)].size = w[Pick(s)]
    BY PickIn
  <2>2. [s \in SUBSET U |->
          IF s = {} THEN 0 ELSE rr[Pick(s)].size + g[s \ {Pick(s)}]]
        = [s \in SUBSET U |-> IF s = {} THEN 0 ELSE w[Pick(s)] + g[s \ {Pick(s)}]]
    BY <2>1
  <2>3. Fits(g) <=> g = [s \in SUBSET U |->
          IF s = {} THEN 0 ELSE rr[Pick(s)].size + g[s \ {Pick(s)}]]
    BY Zenon DEF Pick
  <2>4. QED
    BY <2>2, <2>3 DEF IsSum
<1>3. PICK g : IsSum(g, w, U)
  BY SumExists
<1>4. Fits(g)
  BY <1>2, <1>3
<1> HIDE DEF Fits
<1>5. IsSum(CHOOSE h : Fits(h), w, U) /\ IsSum(CHOOSE h : IsSum(h, w, U), w, U)
  BY <1>2, <1>3, <1>4, Zenon
<1>6. (CHOOSE h : Fits(h))[U] = (CHOOSE h : IsSum(h, w, U))[U]
  BY <1>5, SumUnique
<1>7. QED
  BY <1>1, <1>6 DEF SumOf

\* The bytes of rows, with one of them split off.
LEMMA BytesSplit ==
  ASSUME NEW rr, NEW U, IsFiniteSet(U), \A q \in U : rr[q].size \in Nat, NEW x \in U
  PROVE  /\ Bytes(rr, U) \in Nat
         /\ Bytes(rr, U \ {x}) \in Nat
         /\ Bytes(rr, U) = rr[x].size + Bytes(rr, U \ {x})
<1> DEFINE w == [q \in U |-> rr[q].size]
<1>1. IsFiniteSet(U \ {x})
  BY FS_Subset
<1>2. /\ \A q \in U : w[q] = rr[q].size /\ w[q] \in Nat
      /\ \A q \in U \ {x} : w[q] = rr[q].size /\ w[q] \in Nat
  OBVIOUS
<1> HIDE DEF w
<1>3. Bytes(rr, U) = SumOf(w, U) /\ Bytes(rr, U \ {x}) = SumOf(w, U \ {x})
  BY <1>1, <1>2, BytesSum
<1>4. SumOf(w, U) \in Nat /\ SumOf(w, U \ {x}) \in Nat
  BY <1>1, <1>2, SumNat
<1>5. SumOf(w, U) = w[x] + SumOf(w, U \ {x})
  BY <1>2, SumSplit
<1>6. QED
  BY <1>2, <1>3, <1>4, <1>5

\* The bytes depend on the rows of the set only.
LEMMA BytesSame ==
  ASSUME NEW rr, NEW tt, NEW U, IsFiniteSet(U), \A q \in U : rr[q].size = tt[q].size
  PROVE  Bytes(rr, U) = Bytes(tt, U)
<1> DEFINE w == [q \in U |-> rr[q].size]
<1>1. \A q \in U : w[q] = rr[q].size /\ w[q] = tt[q].size
  OBVIOUS
<1> HIDE DEF w
<1>2. QED
  BY <1>1, BytesSum

\* No rows, no bytes.
LEMMA BytesNone == \A rr : Bytes(rr, {}) = 0
<1> TAKE rr
<1>1. Bytes(rr, {}) = SumOf(rr, {})
  BY BytesSum, FS_EmptySet
<1>2. QED
  BY <1>1, SumRec, FS_EmptySet

\* QuotaHolds and the handlers' `used` are such sums.
LEMMA QuotaBytes ==
  /\ QuotaHolds <=> Bytes(rows, {q \in Paths : IsLive(rows[q])}) <= MaxVaultBytes
  /\ QuotaHolds' <=> Bytes(rows', {q \in Paths : IsLive(rows'[q])}) <= MaxVaultBytes
  /\ \A p : used(p) = Bytes(rows, {q \in Paths \ {p} : IsLive(rows[q])})
  /\ \A p : used(p)' = Bytes(rows', {q \in Paths \ {p} : IsLive(rows'[q])})
<1>1. QuotaHolds <=> Bytes(rows, {q \in Paths : IsLive(rows[q])}) <= MaxVaultBytes
  BY Zenon DEF QuotaHolds, Bytes
<1>2. QuotaHolds' <=> Bytes(rows', {q \in Paths : IsLive(rows'[q])}) <= MaxVaultBytes
  BY Zenon DEF QuotaHolds, Bytes, MapThenSumSet, MapThenFoldSet, IsLive
<1>3. \A p : used(p) = Bytes(rows, {q \in Paths \ {p} : IsLive(rows[q])})
  BY Zenon DEF used, Bytes
<1>4. \A p : used(p)' = Bytes(rows', {q \in Paths \ {p} : IsLive(rows'[q])})
  BY Zenon DEF used, Bytes, MapThenSumSet, MapThenFoldSet, IsLive
<1>5. QED
  BY <1>1, <1>2, <1>3, <1>4

-----------------------------------------------------------------------------
(* Types                                                                   *)

\* A nonempty set of naturals has a minimum.
LEMMA MinOfNats ==
    ASSUME NEW S \in SUBSET Nat, S # {}
    PROVE  Min(S) \in S /\ \A n \in S : Min(S) <= n
<1> DEFINE R == {ss \in Nat \X Nat : ss[1] < ss[2]}
<1>1. IsWellFoundedOn(R, Nat)
  BY NatLessThanWellFounded, Zenon DEF OpToRel
<1>2. S \subseteq Nat
  OBVIOUS
<1>3. \E m \in S : \A n \in S : ~(<<n, m>> \in R)
  <2> HIDE DEF R
  <2> QED BY <1>1, <1>2, WFMin
<1>4. PICK m \in S : \A n \in S : ~(<<n, m>> \in R)
  BY <1>3
<1>5. ASSUME NEW n \in S, n < m PROVE <<n, m>> \in R
  BY <1>5
<1> HIDE DEF R
<1>6. ASSUME NEW n \in S PROVE m <= n
  <2>1. ~(n < m)
    BY <1>4, <1>5
  <2>2. n \in Nat /\ m \in Nat
    BY <1>2
  <2>3. QED
    BY <2>1, <2>2
<1>7. QED
  BY <1>6 DEF Min

\* There is a free suffix among the first Cardinality(entries) + 1, and all
\* lower ones are taken.
LEMMA FreeSuffix ==
    ASSUME NEW entries, IsFiniteSet(entries), NEW ts
    PROVE  /\ FreeSeq(entries, ts) \in Nat
           /\ \A e \in entries : e.ts = ts => e.seq # FreeSeq(entries, ts)
           /\ \A m \in Nat : m < FreeSeq(entries, ts) =>
                 \E e \in entries : e.ts = ts /\ e.seq = m
<1> DEFINE m == Cardinality(entries)
           free == {n \in 0..m : \A e \in entries : e.ts = ts => e.seq # n}
<1>1. m \in Nat
  BY FS_CardinalityType
<1>2. ASSUME free = {} PROVE FALSE
  <2> DEFINE f == [n \in 0..m |-> CHOOSE e \in entries : e.ts = ts /\ e.seq = n]
  <2>1. \A n \in 0..m : \E e \in entries : e.ts = ts /\ e.seq = n
    BY <1>2
  <2>2. \A n \in 0..m : f[n] \in entries /\ f[n].seq = n
    BY <2>1
  <2>3. f \in [0..m -> entries]
    BY <2>2
  <2>4. IsFiniteSet(0..m) /\ Cardinality(0..m) = m + 1
    BY <1>1, FS_Interval
  <2> HIDE DEF f
  <2>5. \E x, y \in 0..m : x # y /\ f[x] = f[y]
    BY <1>1, <2>3, <2>4, FS_PigeonHole
  <2>6. QED
    BY <2>2, <2>5
<1>3. free \in SUBSET Nat /\ FreeSeq(entries, ts) = Min(free)
  BY <1>1 DEF FreeSeq
<1>4. Min(free) \in free /\ \A n \in free : Min(free) <= n
  <2> HIDE DEF free
  <2> QED BY <1>2, <1>3, MinOfNats
<1>5. ASSUME NEW k \in Nat, k < FreeSeq(entries, ts)
      PROVE  \E e \in entries : e.ts = ts /\ e.seq = k
  <2>1. PICK n \in 0..m : n = FreeSeq(entries, ts)
    BY <1>3, <1>4
  <2>2. k \in 0..m
    BY <1>1, <1>5, <2>1
  <2>3. k \notin free
    BY <1>3, <1>4, <1>5, <2>1, <2>2
  <2>4. QED
    BY <2>2, <2>3
<1>6. QED
  BY <1>1, <1>3, <1>4, <1>5

\* An empty slot is a request.
LEMMA IdleType == IdleRequest \in Request /\ IdleRequest.stage = "idle" /\ ~IdleRequest.gone
BY ServerAssumption DEF IdleRequest, Request, Stages

\* The history tiers are finite.
HistoryFinite == \A t \in Tiers, p \in Paths : IsFiniteSet(history[t][p])

Typed == TypeOK /\ HistoryFinite

\* What move_live archives is a history entry.
LEMMA EntryType ==
    ASSUME Typed, NEW tier \in Tiers, NEW p \in Paths, NEW ts \in Nat
    PROVE  /\ MovedEntry(tier, p, ts) \in HistoryEntry \cup {None}
           /\ MovedEntry(tier, p, ts) = None <=> live[p] = None
           /\ live[p] # None => MovedEntry(tier, p, ts).content = live[p]
<1>1. FreeSeq(history[tier][p], ts) \in Nat
  BY FreeSuffix DEF Typed, HistoryFinite
<1>2. CASE live[p] # None
  <2>1. MovedEntry(tier, p, ts)
          = [ts |-> ts, seq |-> FreeSeq(history[tier][p], ts), content |-> live[p]]
    BY <1>2 DEF MovedEntry
  <2>2. live[p] \in Contents
    BY <1>2 DEF Typed, TypeOK
  <2>3. MovedEntry(tier, p, ts) \in HistoryEntry
    BY <1>1, <2>1, <2>2 DEF HistoryEntry
  <2>4. QED
    BY <1>2, <2>1, <2>3, RecordAssumption
<1>3. CASE live[p] = None
  BY <1>3 DEF MovedEntry
<1>4. QED
  BY <1>2, <1>3

\* What move_live does: the live file is gone from its place, the tiers stay
\* well-typed and finite, and the request goes on or, without its handler,
\* ends.
LEMMA MoveFacts ==
    ASSUME Typed, NEW r \in Requests, NEW tier \in Tiers, move_live(r, tier, req[r].path)
    PROVE  /\ live' = [live EXCEPT ![req[r].path] = None]
           /\ history' \in [Tiers -> [Paths -> SUBSET HistoryEntry]]
           /\ HistoryFinite'
           /\ \/ /\ tier = "Trash" /\ req[r].gone
                 /\ req' = [req EXCEPT ![r] = IdleRequest]
              \/ /\ ~(tier = "Trash" /\ req[r].gone)
                 /\ \E undo \in UndoToken \cup {None} :
                      /\ req' = [req EXCEPT ![r].stage = IF tier = "Trash" THEN "placed" ELSE "moved",
                                            ![r].undo  = undo]
                      /\ undo = None <=> live[req[r].path] = None
                      /\ undo # None => undo.entry.content = live[req[r].path]
<1> DEFINE p == req[r].path
           e == MovedEntry(tier, p, req[r].ts)
           undo == IF e = None THEN None ELSE [tier |-> tier, entry |-> e]
<1>1. req[r] \in Request /\ p \in Paths /\ req[r].ts \in Nat
  BY DEF Typed, TypeOK, Request
<1>2. /\ e \in HistoryEntry \cup {None}
      /\ e = None <=> live[p] = None
      /\ live[p] # None => e.content = live[p]
  BY <1>1, EntryType
<1>3. /\ live' = [live EXCEPT ![p] = None]
      /\ history' = IF e = None THEN history ELSE [history EXCEPT ![tier][p] = @ \cup {e}]
      /\ IF tier = "Trash" /\ req[r].gone
         THEN req' = [req EXCEPT ![r] = IdleRequest]
         ELSE req' = [req EXCEPT ![r].stage = IF tier = "Trash" THEN "placed" ELSE "moved",
                                 ![r].undo  = undo]
  BY DEF move_live
<1> HIDE DEF e
<1>4. history' \in [Tiers -> [Paths -> SUBSET HistoryEntry]]
  BY <1>1, <1>2, <1>3 DEF Typed, TypeOK
<1>5. HistoryFinite'
  <2>1. CASE e = None
    BY <1>3, <2>1 DEF Typed, HistoryFinite
  <2>2. CASE e # None
    <3>1. history' = [history EXCEPT ![tier][p] = @ \cup {e}]
      BY <1>3, <2>2
    <3>2. IsFiniteSet(history[tier][p] \cup {e})
      BY <1>1, FS_AddElement DEF Typed, HistoryFinite
    <3>3. \A t \in Tiers, q \in Paths :
             history'[t][q] = IF t = tier /\ q = p THEN history[tier][p] \cup {e} ELSE history[t][q]
      BY <1>1, <3>1 DEF Typed, TypeOK
    <3>4. QED
      BY <3>2, <3>3 DEF Typed, HistoryFinite
  <2>3. QED
    BY <2>1, <2>2
<1>6. undo \in UndoToken \cup {None} /\ (undo = None <=> live[p] = None)
      /\ (undo # None => undo.entry.content = live[p])
  <2>1. CASE e = None
    BY <1>2, <2>1
  <2>2. CASE e # None
    <3>1. undo = [tier |-> tier, entry |-> e]
      BY <2>2
    <3>2. undo \in UndoToken
      BY <1>2, <2>2, <3>1 DEF UndoToken
    <3>3. QED
      BY <1>2, <2>2, <3>1, <3>2, RecordAssumption
  <2>3. QED
    BY <2>1, <2>2
<1> HIDE DEF undo
<1>7. QED
  BY <1>3, <1>4, <1>5, <1>6

\* A request with a new stage is a request.
LEMMA StageType ==
    ASSUME NEW q \in Request, NEW stage \in Stages
    PROVE  /\ [q EXCEPT !.stage = stage] \in Request
           /\ [q EXCEPT !.stage = stage].stage = stage
           /\ \A f \in {"op", "path", "parent", "content", "ts", "cur", "gone", "undo"} :
                 [q EXCEPT !.stage = stage][f] = q[f]
BY DEF Request

\* The row an accepted request writes is a row.
LEMMA RowType ==
    ASSUME NEW q \in Request
    PROVE  /\ NewRow(q) \in Row
           /\ NewRow(q).deleted = (q.op # "put")
           /\ q.op = "put" => /\ NewRow(q).size = Size[q.content]
                              /\ NewRow(q).hash = HashOf[q.content]
           /\ q.op # "put" => NewRow(q).hash = IF q.cur # None THEN q.cur.hash ELSE NoHash
<1>1. q.content \in Contents /\ q.cur \in Row \cup {None}
  BY DEF Request
<1>2. HashOf[q.content] \in Hashes /\ Size[q.content] \in Nat
  BY <1>1, ServerAssumption
<1>3. CASE q.op = "put"
  BY <1>2, <1>3 DEF NewRow, Row
<1>4. CASE q.op # "put"
  BY <1>1, <1>4 DEF NewRow, Row
<1>5. QED
  BY <1>3, <1>4

\* A failure is counted.
LEMMA FaultType ==
    ASSUME TypeOK, NEW kind \in FaultKinds, Fault(kind)
    PROVE  /\ faults' \in [FaultKinds -> Nat]
           /\ faults'[kind] = faults[kind] + 1
           /\ kind \in Faults
           /\ \A k \in FaultKinds \ {kind} : faults'[k] = faults[k]
BY DEF TypeOK, Fault

\* Every action leaves the state well-typed and the history tiers finite.
LEMMA TypeStep ==
    ASSUME Typed, [Next]_vars
    PROVE  Typed'
<1> USE DEF Typed
<1>0. \A r \in Requests : req[r] \in Request
  BY DEF TypeOK
<1>1. ASSUME NEW r \in Requests, Begin(r) PROVE Typed'
  <2>1. PICK op \in {"put", "delete"}, p \in Paths, c \in Contents, parent \in Hashes \cup {NoHash} :
           req' = [req EXCEPT ![r] =
                     [stage |-> "begun", op |-> op, path |-> p, parent |-> parent,
                      content |-> c, ts |-> now, cur |-> None, gone |-> FALSE,
                      undo |-> None]]
    BY <1>1 DEF Begin
  <2>2. [stage |-> "begun", op |-> op, path |-> p, parent |-> parent,
         content |-> c, ts |-> now, cur |-> None, gone |-> FALSE, undo |-> None] \in Request
    BY DEF TypeOK, Request, Stages
  <2>3. req' \in [Requests -> Request]
    BY <2>1, <2>2 DEF TypeOK
  <2>4. started' \in Nat /\ UNCHANGED <<rows, rev, live, history, lock, now, faults>>
    BY <1>1 DEF Begin, TypeOK
  <2>5. QED
    BY <2>3, <2>4 DEF TypeOK, HistoryFinite
<1>2. ASSUME NEW r \in Requests, LockAndCheck(r) PROVE Typed'
  <2>1. rows[req[r].path] \in Row \cup {None}
    BY <1>0 DEF TypeOK, Request
  <2>2. [req[r] EXCEPT !.stage = "gated", !.cur = rows[req[r].path]] \in Request
    BY <1>0, <2>1 DEF Request, Stages
  <2>3. req' \in [Requests -> Request] /\ lock' \in Requests \cup {None}
    BY <1>2, <2>2, IdleType DEF LockAndCheck, TypeOK
  <2>4. QED
    BY <1>2, <2>3 DEF LockAndCheck, TypeOK, HistoryFinite
<1>3. ASSUME NEW r \in Requests, NEW tier \in Tiers, move_live(r, tier, req[r].path),
             UNCHANGED <<rows, rev, lock, now, started, faults>>
      PROVE  Typed'
  <2>1. live' \in [Paths -> Contents \cup {None}]
    BY <1>0, <1>3, MoveFacts DEF TypeOK, Request
  <2>2. history' \in [Tiers -> [Paths -> SUBSET HistoryEntry]] /\ HistoryFinite'
    BY <1>3, MoveFacts
  <2>3. req' \in [Requests -> Request]
    <3>1. CASE req' = [req EXCEPT ![r] = IdleRequest]
      BY <3>1, IdleType DEF TypeOK
    <3>2. CASE \E undo \in UndoToken \cup {None} :
                  req' = [req EXCEPT ![r].stage = IF tier = "Trash" THEN "placed" ELSE "moved",
                                     ![r].undo  = undo]
      <4>1. PICK undo \in UndoToken \cup {None} :
                  req' = [req EXCEPT ![r].stage = IF tier = "Trash" THEN "placed" ELSE "moved",
                                     ![r].undo  = undo]
        BY <3>2
      <4>2. [req[r] EXCEPT !.stage = IF tier = "Trash" THEN "placed" ELSE "moved",
                           !.undo = undo] \in Request
        BY <1>0 DEF Request, Stages
      <4>3. QED
        BY <4>1, <4>2 DEF TypeOK
    <3>3. QED
      BY <1>3, <3>1, <3>2, MoveFacts
  <2>4. QED
    BY <1>3, <2>1, <2>2, <2>3 DEF TypeOK
<1>4. ASSUME NEW r \in Requests, ArchiveVersion(r) PROVE Typed'
  <2>1. CASE IsLive(req[r].cur)
    BY <1>3, <1>4, <2>1 DEF ArchiveVersion, Tiers
  <2>2. CASE ~IsLive(req[r].cur)
    <3>1. [req[r] EXCEPT !.stage = "moved"] \in Request
      BY <1>0, StageType DEF Stages
    <3>2. /\ req' = [req EXCEPT ![r].stage = "moved"]
          /\ UNCHANGED <<live, history, rows, rev, lock, now, started, faults>>
      BY <1>4, <2>2 DEF ArchiveVersion
    <3>3. req' \in [Requests -> Request]
      BY <3>1, <3>2 DEF TypeOK
    <3>4. QED
      BY <3>2, <3>3 DEF TypeOK, HistoryFinite
  <2>3. QED
    BY <2>1, <2>2
<1>5. ASSUME NEW r \in Requests, PutLive(r) PROVE Typed'
  <2>1. (IF req[r].gone THEN IdleRequest ELSE [req[r] EXCEPT !.stage = "placed"]) \in Request
    BY <1>0, StageType, IdleType DEF Stages
  <2>2. req' \in [Requests -> Request]
    BY <1>5, <2>1 DEF PutLive, TypeOK
  <2>3. live' \in [Paths -> Contents \cup {None}]
    BY <1>0, <1>5 DEF PutLive, TypeOK, Request
  <2>4. QED
    BY <1>5, <2>2, <2>3 DEF PutLive, TypeOK, HistoryFinite
<1>6. ASSUME NEW r \in Requests, TrashLive(r) PROVE Typed'
  BY <1>3, <1>6 DEF TrashLive, Tiers
<1>7. ASSUME NEW r \in Requests, WriteRow(req[r])
      PROVE  rows' \in [Paths -> Row \cup {None}] /\ rev' \in Nat
  <2>1. NewRow(req[r]) \in Row
    BY <1>0, RowType
  <2>2. rows' = [rows EXCEPT ![req[r].path] = NewRow(req[r])] /\ rev' = rev + 1
    BY <1>7 DEF WriteRow
  <2>3. rows' \in [Paths -> Row \cup {None}]
    BY <2>1, <2>2 DEF TypeOK
  <2>4. QED
    BY <2>2, <2>3 DEF TypeOK
<1>8. ASSUME NEW r \in Requests, Commit(r) PROVE Typed'
  BY <1>7, <1>8, IdleType DEF Commit, TypeOK, HistoryFinite
<1>9. ASSUME NEW r \in Requests, Undo(r) PROVE Typed'
  <2> DEFINE q == req[r]
  <2>1. q \in Request /\ q.path \in Paths
    BY <1>0 DEF Request
  <2>2. (IF lock = r THEN [q EXCEPT !.stage = "undone"] ELSE IdleRequest) \in Request
    BY <2>1, StageType, IdleType DEF Stages
  <2>3. req' \in [Requests -> Request]
    BY <1>9, <2>2 DEF Undo, TypeOK
  <2>4. CASE live' = [live EXCEPT ![q.path] = None] /\ UNCHANGED history
    BY <1>9, <2>1, <2>3, <2>4 DEF Undo, TypeOK, HistoryFinite
  <2>5. CASE \E e \in UndoFile(q) :
                 /\ live' = [live EXCEPT ![q.path] = e.content]
                 /\ history' = [history EXCEPT ![q.undo.tier][q.path] = @ \ {e}]
    <3>1. PICK e \in UndoFile(q) :
                 /\ live' = [live EXCEPT ![q.path] = e.content]
                 /\ history' = [history EXCEPT ![q.undo.tier][q.path] = @ \ {e}]
      BY <2>5
    <3>2. q.undo \in UndoToken /\ e \in history[q.undo.tier][q.path]
      BY <2>1 DEF UndoFile, Request
    <3>3. q.undo.tier \in Tiers
      BY <3>2 DEF UndoToken
    <3>4. e.content \in Contents
      BY <2>1, <3>2, <3>3 DEF TypeOK, HistoryEntry
    <3> DEFINE t == q.undo.tier
    <3> HIDE DEF q, t
    <3>5. \A u \in Tiers, p \in Paths :
             history'[u][p] = IF u = t /\ p = q.path THEN history[t][q.path] \ {e} ELSE history[u][p]
      BY <2>1, <3>1, <3>3 DEF TypeOK, t
    <3>6. history' \in [Tiers -> [Paths -> SUBSET HistoryEntry]]
      BY <2>1, <3>1, <3>3 DEF TypeOK, t
    <3>7. IsFiniteSet(history[t][q.path] \ {e})
      BY <2>1, <3>3, FS_RemoveElement DEF HistoryFinite, t
    <3>8. HistoryFinite'
      BY <3>5, <3>7 DEF HistoryFinite
    <3>9. live' \in [Paths -> Contents \cup {None}]
      BY <2>1, <3>1, <3>4 DEF TypeOK
    <3>10. QED
      BY <1>9, <2>3, <3>6, <3>8, <3>9 DEF Undo, TypeOK
  <2>6. QED
    BY <1>9, <2>4, <2>5 DEF Undo
<1>10. ASSUME NEW r \in Requests, Rollback(r) PROVE Typed'
  BY <1>10, IdleType DEF Rollback, TypeOK, HistoryFinite
<1>11. ASSUME NEW r \in Requests, CommitFails(r) PROVE Typed'
  <2>1. req' \in [Requests -> Request]
    BY <1>0, <1>11, StageType DEF CommitFails, TypeOK, Stages
  <2>2. faults' \in [FaultKinds -> Nat]
    BY <1>11, FaultType DEF CommitFails, FaultKinds
  <2>3. rows' \in [Paths -> Row \cup {None}] /\ rev' \in Nat /\ lock' \in Requests \cup {None}
    BY <1>7, <1>11 DEF CommitFails, TypeOK
  <2>4. QED
    BY <1>11, <2>1, <2>2, <2>3 DEF CommitFails, TypeOK, HistoryFinite
<1>12. ASSUME NEW r \in Requests, PutLiveFails(r) PROVE Typed'
  <2>1. faults' \in [FaultKinds -> Nat]
    BY <1>12, FaultType DEF PutLiveFails, FaultKinds
  <2>2. QED
    BY <1>12, <2>1, IdleType DEF PutLiveFails, TypeOK, HistoryFinite
<1>13. ASSUME NEW r \in Requests, Disconnect(r) PROVE Typed'
  <2>1. faults' \in [FaultKinds -> Nat]
    BY <1>13, FaultType DEF Disconnect, FaultKinds
  <2>2. [req[r] EXCEPT !.gone = TRUE] \in Request
    BY <1>0 DEF Request
  <2>3. (IF req[r].stage \in {"gated", "moved"}
         THEN [req[r] EXCEPT !.gone = TRUE] ELSE IdleRequest) \in Request
    BY <2>2, IdleType
  <2>4. req' \in [Requests -> Request]
    BY <1>13, <2>3 DEF Disconnect, TypeOK
  <2>5. QED
    BY <1>13, <2>1, <2>4 DEF Disconnect, TypeOK, HistoryFinite
<1>14. CASE Crash
  <2>1. faults' \in [FaultKinds -> Nat]
    BY <1>14, FaultType DEF Crash, FaultKinds
  <2>2. QED
    BY <1>14, <2>1, IdleType DEF Crash, TypeOK, HistoryFinite
<1>15. CASE Prune
  <2>1. PICK p \in Paths, t \in Tiers, kept \in SUBSET HistoryEntry :
            kept \in SUBSET history[t][p] /\ history' = [history EXCEPT ![t][p] = kept]
    <3>1. PICK p \in Paths : prune_versions(p) \/ prune_trash(p)
      BY <1>15 DEF Prune
    <3>2. CASE prune_versions(p)
      <4>1. PICK kept \in NewestCuts(history["Versions"][p], MAX_VERSIONS_PER_FILE) :
               history' = [history EXCEPT !["Versions"][p] =
                              {e \in kept : Age(e) <= VERSION_RETENTION_SECS}]
        BY <3>2 DEF prune_versions
      <4>2. {e \in kept : Age(e) <= VERSION_RETENTION_SECS} \in SUBSET history["Versions"][p]
        BY DEF NewestCuts
      <4>3. history["Versions"][p] \subseteq HistoryEntry
        BY DEF TypeOK, Tiers
      <4>4. QED
        BY <4>1, <4>2, <4>3 DEF Tiers
    <3>3. CASE prune_trash(p)
      <4>1. history' = [history EXCEPT !["Trash"][p] =
                           {e \in history["Trash"][p] : Age(e) <= TRASH_RETENTION_SECS}]
        BY <3>3 DEF prune_trash, TypeOK, Tiers
      <4>2. history["Trash"][p] \subseteq HistoryEntry
        BY DEF TypeOK, Tiers
      <4>3. QED
        BY <4>1, <4>2 DEF Tiers
    <3>4. QED
      BY <3>1, <3>2, <3>3
  <2>2. IsFiniteSet(kept)
    BY <2>1, FS_Subset DEF HistoryFinite
  <2>3. \A u \in Tiers, q \in Paths :
           history'[u][q] = IF u = t /\ q = p THEN kept ELSE history[u][q]
    BY <2>1 DEF TypeOK
  <2>4. HistoryFinite'
    BY <2>2, <2>3 DEF HistoryFinite
  <2>5. history' \in [Tiers -> [Paths -> SUBSET HistoryEntry]]
    BY <2>1 DEF TypeOK
  <2>6. QED
    BY <1>15, <2>4, <2>5 DEF Prune, TypeOK
<1>16. CASE Tick
  BY <1>16 DEF Tick, TypeOK, HistoryFinite
<1>17. CASE UNCHANGED vars
  BY <1>17 DEF vars, TypeOK, HistoryFinite
<1>18. QED
  BY <1>1, <1>2, <1>4, <1>5, <1>6, <1>8, <1>9, <1>10, <1>11, <1>12, <1>13, <1>14, <1>15,
     <1>16, <1>17 DEF Next, Step

-----------------------------------------------------------------------------
(* The row lock                                                            *)

\* The handler of r is past the gate and its transaction is open.
Holds(r) == req[r].stage \in {"gated", "moved", "placed"} /\ ~req[r].gone

\* A request that lost its handler never gets as far as the row, and only a
\* put archives and goes on.
StageInv ==
    \A r \in Requests :
        /\ req[r].stage \in {"placed", "failed", "undone"} => ~req[r].gone
        /\ req[r].stage = "moved" => req[r].op = "put"

\* One transaction at a time holds the vault row, and the row it read under
\* the lock is still the row.
LockInv == \A r \in Requests : Holds(r) => lock = r /\ req[r].cur = rows[req[r].path]

Kept == {"op", "path", "parent", "content", "cur"}

\* The three things a step can do to the rows and to the handlers past the
\* gate: leave the rows and let no new handler in,
Advances ==
    /\ rows' = rows
    /\ \A s \in Requests : Holds(s)' =>
          Holds(s) /\ lock' = lock /\ \A f \in Kept : req'[s][f] = req[s][f]

\* let one in,
Accepts(r) ==
    /\ rows' = rows
    /\ lock = None /\ lock' = r
    /\ verdict(req[r]) = "accept"
    /\ req'[r].cur = rows[req[r].path]
    /\ \A f \in Kept \ {"cur"} : req'[r][f] = req[r][f]
    /\ \A s \in Requests \ {r} : req'[s] = req[s]

\* or write the row of the one that is in and let it go.
Writes(r) ==
    /\ Holds(r)
    /\ rows' = [rows EXCEPT ![req[r].path] = NewRow(req[r])]
    /\ \A s \in Requests : ~Holds(s)'

\* Every step keeps StageInv and is of one of the three kinds.
LEMMA LockStep ==
    ASSUME Typed, StageInv, LockInv, [Next]_vars
    PROVE  /\ StageInv'
           /\ Advances \/ \E r \in Requests : Accepts(r) \/ Writes(r)
<1>0. \A r \in Requests : req[r] \in Request
  BY DEF Typed, TypeOK
<1>1. ASSUME NEW r \in Requests, NEW q, req' = [req EXCEPT ![r] = q]
      PROVE  req'[r] = q /\ \A s \in Requests \ {r} : req'[s] = req[s]
  BY <1>1 DEF Typed, TypeOK
<1>2. ASSUME NEW r \in Requests, NEW q, req' = [req EXCEPT ![r] = q],
             q.stage \in {"placed", "failed", "undone"} => ~q.gone,
             q.stage = "moved" => q.op = "put"
      PROVE  StageInv'
  BY <1>1, <1>2 DEF StageInv
<1>3. ASSUME NEW r \in Requests, req' = [req EXCEPT ![r] = IdleRequest], rows' = rows,
             lock' = lock \/ lock = r \/ (lock = None /\ lock' = None)
      PROVE  StageInv' /\ Advances
  <2>1. req'[r] = IdleRequest /\ \A s \in Requests \ {r} : req'[s] = req[s]
    BY <1>1, <1>3
  <2>2. StageInv'
    BY <1>2, <1>3, IdleType
  <2>3. ~Holds(r)'
    BY <2>1, IdleType DEF Holds
  <2>4. QED
    BY <1>3, <2>1, <2>2, <2>3 DEF Advances, Holds, LockInv
<1>4. ASSUME NEW r \in Requests, NEW q, req' = [req EXCEPT ![r] = q],
             q.stage \in {"placed", "failed", "undone"} => ~q.gone,
             q.stage = "moved" => q.op = "put",
             (q.stage \in {"gated", "moved", "placed"} /\ ~q.gone) => Holds(r) /\ lock' = lock,
             \A f \in Kept : q[f] = req[r][f],
             rows' = rows, lock' = lock \/ lock = r
      PROVE  StageInv' /\ Advances
  <2>1. req'[r] = q /\ \A s \in Requests \ {r} : req'[s] = req[s]
    BY <1>1, <1>4
  <2>2. StageInv'
    BY <1>2, <1>4
  <2>3. ASSUME NEW s \in Requests, Holds(s)'
        PROVE  Holds(s) /\ lock' = lock /\ \A f \in Kept : req'[s][f] = req[s][f]
    BY <1>4, <2>1, <2>3 DEF Holds, LockInv
  <2>4. QED
    BY <1>4, <2>2, <2>3 DEF Advances
<1>5. ASSUME NEW r \in Requests, Begin(r) PROVE StageInv' /\ Advances
  <2>1. PICK op \in {"put", "delete"}, p \in Paths, c \in Contents, parent \in Hashes \cup {NoHash} :
           req' = [req EXCEPT ![r] =
                     [stage |-> "begun", op |-> op, path |-> p, parent |-> parent,
                      content |-> c, ts |-> now, cur |-> None, gone |-> FALSE,
                      undo |-> None]]
    BY <1>5 DEF Begin
  <2>2. req'[r].stage = "begun" /\ \A s \in Requests \ {r} : req'[s] = req[s]
    BY <2>1 DEF Typed, TypeOK
  <2>3. rows' = rows /\ lock' = lock
    BY <1>5 DEF Begin
  <2>4. QED
    BY <2>2, <2>3 DEF StageInv, Advances, Holds
<1>6. ASSUME NEW r \in Requests, LockAndCheck(r) PROVE StageInv' /\ (Advances \/ Accepts(r))
  <2>1. CASE verdict(req[r]) # "accept"
    BY <1>3, <1>6, <2>1 DEF LockAndCheck
  <2>2. CASE verdict(req[r]) = "accept"
    <3>1. /\ req' = [req EXCEPT ![r] = [req[r] EXCEPT !.stage = "gated",
                                                      !.cur = rows[req[r].path]]]
          /\ lock = None /\ lock' = r /\ rows' = rows
      BY <1>6, <2>2 DEF LockAndCheck
    <3> DEFINE q == [req[r] EXCEPT !.stage = "gated", !.cur = rows[req[r].path]]
    <3>2. /\ q.stage = "gated" /\ q.cur = rows[req[r].path]
          /\ \A f \in Kept \ {"cur"} : q[f] = req[r][f]
      BY <1>0 DEF Request, Kept
    <3> HIDE DEF q
    <3>3. req'[r] = q /\ \A s \in Requests \ {r} : req'[s] = req[s]
      BY <1>1, <3>1 DEF q
    <3>4. StageInv'
      BY <3>2, <3>3 DEF StageInv
    <3>5. QED
      BY <2>2, <3>1, <3>2, <3>3, <3>4 DEF Accepts
  <2>3. QED
    BY <2>1, <2>2
<1>7. ASSUME NEW r \in Requests, NEW tier \in Tiers, move_live(r, tier, req[r].path),
             req[r].stage = "gated", tier = "Trash" \/ req[r].op = "put", UNCHANGED <<rows, lock>>
      PROVE  StageInv' /\ Advances
  <2>1. CASE req' = [req EXCEPT ![r] = IdleRequest]
    BY <1>3, <1>7, <2>1
  <2>2. CASE /\ ~(tier = "Trash" /\ req[r].gone)
             /\ \E undo \in UndoToken \cup {None} :
                  req' = [req EXCEPT ![r].stage = IF tier = "Trash" THEN "placed" ELSE "moved",
                                     ![r].undo  = undo]
    <3>1. PICK undo \in UndoToken \cup {None} :
                  req' = [req EXCEPT ![r].stage = IF tier = "Trash" THEN "placed" ELSE "moved",
                                     ![r].undo  = undo]
      BY <2>2
    <3> DEFINE q == [req[r] EXCEPT !.stage = IF tier = "Trash" THEN "placed" ELSE "moved",
                                   !.undo = undo]
    <3>2. req' = [req EXCEPT ![r] = q]
      BY <3>1
    <3>3. /\ q.stage = (IF tier = "Trash" THEN "placed" ELSE "moved")
          /\ (q.gone <=> req[r].gone) /\ \A f \in Kept : q[f] = req[r][f]
      BY <1>0 DEF Request, Kept
    <3> HIDE DEF q
    <3>4. q.op = req[r].op
      BY <3>3 DEF Kept
    <3>5. /\ q.stage \in {"placed", "failed", "undone"} => ~q.gone
          /\ q.stage = "moved" => q.op = "put"
          /\ (q.stage \in {"gated", "moved", "placed"} /\ ~q.gone) => Holds(r) /\ lock' = lock
      BY <1>7, <2>2, <3>3, <3>4 DEF Holds
    <3>6. QED
      BY <1>4, <1>7, <3>2, <3>3, <3>5
  <2>3. QED
    BY <1>7, <2>1, <2>2, MoveFacts
<1>8. ASSUME NEW r \in Requests, ArchiveVersion(r) PROVE StageInv' /\ Advances
  <2>1. CASE IsLive(req[r].cur)
    BY <1>7, <1>8, <2>1 DEF ArchiveVersion, Tiers
  <2>2. CASE ~IsLive(req[r].cur)
    <3> DEFINE q == [req[r] EXCEPT !.stage = "moved"]
    <3>1. req' = [req EXCEPT ![r] = q] /\ rows' = rows /\ lock' = lock
          /\ req[r].stage = "gated" /\ req[r].op = "put"
      BY <1>8, <2>2 DEF ArchiveVersion
    <3>2. q.stage = "moved" /\ (q.gone <=> req[r].gone) /\ q.op = req[r].op
          /\ \A f \in Kept : q[f] = req[r][f]
      BY <1>0 DEF Request, Kept
    <3> HIDE DEF q
    <3>3. /\ q.stage \in {"placed", "failed", "undone"} => ~q.gone
          /\ q.stage = "moved" => q.op = "put"
          /\ (q.stage \in {"gated", "moved", "placed"} /\ ~q.gone) => Holds(r) /\ lock' = lock
      BY <3>1, <3>2 DEF Holds
    <3>4. QED
      BY <1>4, <3>1, <3>2, <3>3
  <2>3. QED
    BY <2>1, <2>2
<1>9. ASSUME NEW r \in Requests, PutLive(r) PROVE StageInv' /\ Advances
  <2>0. req[r].stage = "moved" /\ rows' = rows /\ lock' = lock
    BY <1>9 DEF PutLive
  <2>1. CASE req[r].gone
    BY <1>3, <1>9, <2>0, <2>1 DEF PutLive
  <2>2. CASE ~req[r].gone
    <3> DEFINE q == [req[r] EXCEPT !.stage = "placed"]
    <3>1. req' = [req EXCEPT ![r] = q]
      BY <1>9, <2>2 DEF PutLive
    <3>2. q.stage = "placed" /\ (q.gone <=> req[r].gone) /\ \A f \in Kept : q[f] = req[r][f]
      BY <1>0 DEF Request, Kept
    <3> HIDE DEF q
    <3>3. QED
      BY <1>4, <2>0, <2>2, <3>1, <3>2 DEF Holds
  <2>3. QED
    BY <2>1, <2>2
<1>10. ASSUME NEW r \in Requests, TrashLive(r) PROVE StageInv' /\ Advances
  BY <1>7, <1>10 DEF TrashLive, Tiers
<1>11. ASSUME NEW r \in Requests, req[r].stage = "placed", WriteRow(req[r]), NEW q,
              req' = [req EXCEPT ![r] = q], q.stage \notin {"gated", "moved", "placed"}, ~q.gone
       PROVE  StageInv' /\ Writes(r)
  <2>1. Holds(r) /\ lock = r
    BY <1>11 DEF Holds, StageInv, LockInv
  <2>2. req'[r] = q /\ \A s \in Requests \ {r} : req'[s] = req[s]
    BY <1>1, <1>11
  <2>3. \A s \in Requests : ~Holds(s)'
    BY <1>11, <2>1, <2>2 DEF Holds, LockInv
  <2>4. StageInv'
    BY <1>2, <1>11
  <2>5. QED
    BY <1>11, <2>1, <2>3, <2>4 DEF Writes, WriteRow
<1>12. ASSUME NEW r \in Requests, Commit(r) PROVE StageInv' /\ Writes(r)
  BY <1>11, <1>12, IdleType DEF Commit
<1>13. ASSUME NEW r \in Requests, Undo(r) PROVE StageInv' /\ Advances
  <2>0. req[r].stage = "failed" /\ ~req[r].gone /\ rows' = rows /\ lock' = lock
    BY <1>13 DEF Undo, StageInv
  <2>1. CASE lock = r
    <3> DEFINE q == [req[r] EXCEPT !.stage = "undone"]
    <3>1. req' = [req EXCEPT ![r] = q]
      BY <1>13, <2>1 DEF Undo
    <3>2. q.stage = "undone" /\ (q.gone <=> req[r].gone) /\ \A f \in Kept : q[f] = req[r][f]
      BY <1>0 DEF Request, Kept
    <3> HIDE DEF q
    <3>3. QED
      BY <1>4, <2>0, <3>1, <3>2
  <2>2. CASE lock # r
    BY <1>3, <1>13, <2>0, <2>2 DEF Undo
  <2>3. QED
    BY <2>1, <2>2
<1>14. ASSUME NEW r \in Requests, Rollback(r) PROVE StageInv' /\ Advances
  <2>0. lock = r /\ rows' = rows /\ req[r].stage \in {"failed", "undone"}
    BY <1>14 DEF Rollback
  <2>1. CASE req[r].stage = "undone"
    BY <1>3, <1>14, <2>0, <2>1 DEF Rollback
  <2>2. CASE req[r].stage # "undone"
    BY <1>14, <2>0, <2>2 DEF Rollback, StageInv, Advances, Holds, LockInv
  <2>3. QED
    BY <2>1, <2>2
<1>15. ASSUME NEW r \in Requests, CommitFails(r) PROVE StageInv' /\ (Advances \/ Writes(r))
  <2> DEFINE q == [req[r] EXCEPT !.stage = "failed"]
  <2>1. req' = [req EXCEPT ![r] = q] /\ req[r].stage = "placed" /\ ~req[r].gone
    BY <1>15 DEF CommitFails, StageInv
  <2>2. q.stage = "failed" /\ (q.gone <=> req[r].gone) /\ \A f \in Kept : q[f] = req[r][f]
    BY <1>0 DEF Request, Kept
  <2> HIDE DEF q
  <2>3. CASE UNCHANGED <<rows, rev, lock>>
    <3>1. /\ q.stage \in {"placed", "failed", "undone"} => ~q.gone
          /\ q.stage = "moved" => q.op = "put"
          /\ (q.stage \in {"gated", "moved", "placed"} /\ ~q.gone) => Holds(r) /\ lock' = lock
      BY <2>1, <2>2
    <3>2. QED
      BY <1>4, <2>1, <2>2, <2>3, <3>1
  <2>4. CASE WriteRow(req[r])
    BY <1>11, <2>1, <2>2, <2>4
  <2>5. QED
    BY <1>15, <2>3, <2>4 DEF CommitFails
<1>16. ASSUME NEW r \in Requests, PutLiveFails(r) PROVE StageInv' /\ Advances
  BY <1>3, <1>16 DEF PutLiveFails
<1>17. ASSUME NEW r \in Requests, Disconnect(r) PROVE StageInv' /\ Advances
  <2>0. rows' = rows /\ (lock' = lock \/ lock = r)
    BY <1>17 DEF Disconnect
  <2>1. CASE req[r].stage \in {"gated", "moved"}
    <3> DEFINE q == [req[r] EXCEPT !.gone = TRUE]
    <3>1. req' = [req EXCEPT ![r] = q]
      BY <1>17, <2>1 DEF Disconnect
    <3>2. q.stage = req[r].stage /\ q.gone /\ q.op = req[r].op /\ \A f \in Kept : q[f] = req[r][f]
      BY <1>0 DEF Request, Kept
    <3> HIDE DEF q
    <3>3. /\ q.stage \in {"placed", "failed", "undone"} => ~q.gone
          /\ q.stage = "moved" => q.op = "put"
          /\ (q.stage \in {"gated", "moved", "placed"} /\ ~q.gone) => Holds(r) /\ lock' = lock
      BY <2>1, <3>2 DEF StageInv
    <3>4. QED
      BY <1>4, <2>0, <3>1, <3>2, <3>3
  <2>2. CASE req[r].stage \notin {"gated", "moved"}
    BY <1>3, <1>17, <2>0, <2>2 DEF Disconnect
  <2>3. QED
    BY <2>1, <2>2
<1>18. CASE Crash
  <2>1. \A s \in Requests : req'[s] = IdleRequest
    BY <1>18 DEF Crash
  <2>2. QED
    BY <1>18, <2>1, IdleType DEF Crash, StageInv, Advances, Holds
<1>19. CASE Prune \/ Tick \/ UNCHANGED vars
  BY <1>19 DEF Prune, Tick, vars, StageInv, Advances, Holds
<1>20. QED
  BY <1>5, <1>6, <1>8, <1>9, <1>10, <1>12, <1>13, <1>14, <1>15, <1>16, <1>17, <1>18, <1>19
     DEF Next, Step

-----------------------------------------------------------------------------
(* The gate and the byte budget                                            *)

\* Whoever is past the gate passed its checks, and they still hold: the
\* parent hash matches, and a put fits beside the other live rows.
GateInv ==
    \A r \in Requests : Holds(r) =>
        /\ req[r].cur = None \/ req[r].cur.hash = req[r].parent
        /\ req[r].op = "put" => used(req[r].path) + Size[req[r].content] <= MaxVaultBytes

LiveRows == {q \in Paths : IsLive(rows[q])}

ServerInv ==
    /\ Typed /\ StageInv /\ LockInv /\ GateInv
    /\ IsFiniteSet(LiveRows)
    /\ QuotaHolds

\* A row that is not None says whether it is live.
LEMMA LiveRow ==
    ASSUME NEW row \in Row
    PROVE  /\ row.size \in Nat
           /\ IsLive(row) <=> ~row.deleted
BY RecordAssumption DEF Row, IsLive

\* The server starts in the invariant.
LEMMA ServerInit == Init => ServerInv
<1> SUFFICES ASSUME Init PROVE ServerInv
  OBVIOUS
<1>1. \A r \in Requests : req[r] = IdleRequest
  BY DEF Init
<1>2. TypeOK
  BY IdleType DEF Init, TypeOK, FaultKinds
<1>3. HistoryFinite
  BY FS_EmptySet DEF Init, HistoryFinite
<1>4. StageInv /\ LockInv /\ GateInv
  BY <1>1, IdleType DEF StageInv, LockInv, GateInv, Holds
<1>5. LiveRows = {}
  BY DEF Init, LiveRows, IsLive
<1>6. Bytes(rows, {}) = 0 /\ MaxVaultBytes \in Nat
  BY BytesNone, ServerAssumption
<1>7. QuotaHolds
  BY <1>5, <1>6, QuotaBytes DEF LiveRows
<1>8. QED
  BY <1>2, <1>3, <1>4, <1>5, <1>7, FS_EmptySet DEF ServerInv, Typed

\* Rows that stay keep their sums.
LEMMA SameRows ==
    ASSUME rows' = rows
    PROVE  /\ LiveRows' = LiveRows
           /\ QuotaHolds' <=> QuotaHolds
           /\ \A p : used(p)' = used(p)
<1>1. {q \in Paths : IsLive(rows'[q])} = {q \in Paths : IsLive(rows[q])}
  OBVIOUS
<1>2. \A p : {q \in Paths \ {p} : IsLive(rows'[q])} = {q \in Paths \ {p} : IsLive(rows[q])}
  OBVIOUS
<1>3. LiveRows' = LiveRows
  BY DEF LiveRows, IsLive
<1>4. QuotaHolds' <=> QuotaHolds
  BY <1>1, QuotaBytes
<1>5. \A p : used(p)' = used(p)
  BY <1>2, QuotaBytes
<1>6. QED
  BY <1>3, <1>4, <1>5

\* A step that writes no row and lets nobody in keeps the lock and the gate.
LEMMA AdvanceKeeps ==
    ASSUME ServerInv, Advances
    PROVE  LockInv' /\ GateInv' /\ IsFiniteSet(LiveRows)' /\ QuotaHolds'
<1>1. LiveRows' = LiveRows /\ (QuotaHolds' <=> QuotaHolds) /\ \A p : used(p)' = used(p)
  BY SameRows DEF Advances
<1>2. LockInv'
  BY DEF ServerInv, Advances, LockInv, Kept
<1>3. ASSUME NEW r \in Requests, Holds(r)'
      PROVE  /\ req'[r].cur = None \/ req'[r].cur.hash = req'[r].parent
             /\ req'[r].op = "put" => used(req[r].path)' + Size[req'[r].content] <= MaxVaultBytes
             /\ req'[r].path = req[r].path
  <2>1. Holds(r) /\ \A f \in Kept : req'[r][f] = req[r][f]
    BY <1>3 DEF Advances
  <2>2. /\ req'[r].cur = req[r].cur /\ req'[r].parent = req[r].parent /\ req'[r].op = req[r].op
        /\ req'[r].content = req[r].content /\ req'[r].path = req[r].path
    BY <2>1 DEF Kept
  <2>3. PICK p : p = req[r].path
    OBVIOUS
  <2>4. used(p)' = used(p)
    BY SameRows DEF Advances
  <2>5. used(req[r].path)' = used(p)'
    BY <2>2, <2>3, QuotaBytes
  <2>6. QED
    BY <2>1, <2>2, <2>3, <2>4, <2>5 DEF ServerInv, GateInv
<1>4. GateInv'
  BY <1>3 DEF GateInv, used
<1>5. QED
  BY <1>1, <1>2, <1>4 DEF ServerInv

\* What the checks under the lock have established when they accept.
LEMMA AcceptedFacts ==
    ASSUME NEW q, verdict(q) = "accept"
    PROVE  /\ rows[q.path] = None \/ rows[q.path].hash = q.parent
           /\ q.op = "put" => ~(used(q.path) + Size[q.content] > MaxVaultBytes)
BY DEF verdict

\* The bytes of the other live rows are a number.
LEMMA UsedType ==
    ASSUME ServerInv, NEW p
    PROVE  used(p) \in Nat
<1> DEFINE U == {q \in Paths \ {p} : IsLive(rows[q])}
<1>1. U \subseteq LiveRows
  BY DEF LiveRows
<1>2. IsFiniteSet(U)
  BY <1>1, FS_Subset DEF ServerInv
<1>3. \A q \in U : rows[q].size \in Nat
  BY LiveRow DEF ServerInv, Typed, TypeOK, IsLive
<1>4. used(p) = Bytes(rows, U)
  BY QuotaBytes
<1> DEFINE w == [q \in U |-> rows[q].size]
<1>5. \A q \in U : w[q] = rows[q].size /\ w[q] \in Nat
  BY <1>3
<1> HIDE DEF U, w
<1>6. Bytes(rows, U) = SumOf(w, U) /\ SumOf(w, U) \in Nat
  BY <1>2, <1>5, BytesSum, SumNat
<1>7. QED
  BY <1>4, <1>6

\* The handler that is let in has passed the checks.
LEMMA AcceptKeeps ==
    ASSUME ServerInv, NEW r \in Requests, Accepts(r)
    PROVE  LockInv' /\ GateInv' /\ IsFiniteSet(LiveRows)' /\ QuotaHolds'
<1>1. LiveRows' = LiveRows /\ (QuotaHolds' <=> QuotaHolds) /\ \A p : used(p)' = used(p)
  BY SameRows DEF Accepts
<1>2. \A s \in Requests : Holds(s)' => s = r
  <2>1. \A s \in Requests : ~Holds(s)
    BY ServerAssumption DEF ServerInv, LockInv, Accepts
  <2>2. QED
    BY <2>1 DEF Accepts, Holds
<1>3. /\ req'[r].op = req[r].op /\ req'[r].path = req[r].path /\ req'[r].parent = req[r].parent
      /\ req'[r].content = req[r].content /\ req'[r].cur = rows[req[r].path]
      /\ lock' = r /\ rows' = rows
  BY DEF Accepts, Kept
<1>4. LockInv'
  BY <1>2, <1>3 DEF LockInv
<1>5. PICK p : p = req[r].path
  OBVIOUS
<1>6. /\ rows[p] = None \/ rows[p].hash = req[r].parent
      /\ req[r].op = "put" => ~(used(p) + Size[req[r].content] > MaxVaultBytes)
  BY <1>5, AcceptedFacts DEF Accepts
<1>7. used(p) \in Nat /\ MaxVaultBytes \in Nat /\ Size[req[r].content] \in Nat
  BY UsedType, ServerAssumption DEF ServerInv, Typed, TypeOK, Request
<1>8. used(req[r].path)' = used(p)
  BY <1>1, <1>3, <1>5, QuotaBytes
<1>9. GateInv'
  <2>1. SUFFICES ASSUME NEW s \in Requests, Holds(s)'
                 PROVE  /\ req'[s].cur = None \/ req'[s].cur.hash = req'[s].parent
                        /\ req'[s].op = "put" => used(req[s].path)' + Size[req'[s].content] <= MaxVaultBytes
    BY DEF GateInv, used
  <2>2. s = r
    BY <1>2, <2>1
  <2>3. req'[r].op = "put" => used(req[r].path)' + Size[req'[r].content] <= MaxVaultBytes
    BY <1>3, <1>6, <1>7, <1>8
  <2>4. req'[r].cur = None \/ req'[r].cur.hash = req'[r].parent
    BY <1>3, <1>5, <1>6
  <2>5. QED
    BY <2>2, <2>3, <2>4
<1>10. QED
  BY <1>1, <1>4, <1>9 DEF ServerInv

\* The committed row fits into the budget: a put was checked against the
\* other rows as they still are, a delete frees bytes.
LEMMA WriteKeeps ==
    ASSUME ServerInv, Typed', NEW r \in Requests, Writes(r)
    PROVE  LockInv' /\ GateInv' /\ IsFiniteSet(LiveRows)' /\ QuotaHolds'
<1>1. LockInv' /\ GateInv'
  BY DEF Writes, LockInv, GateInv
<1>2. PICK q : q = req[r]
  OBVIOUS
<1>3. PICK p : p = q.path
  OBVIOUS
<1>4. q \in Request /\ p \in Paths /\ q.content \in Contents /\ Size[q.content] \in Nat
  BY <1>2, <1>3, ServerAssumption DEF ServerInv, Typed, TypeOK, Request
<1>5. PICK row \in Row : row = NewRow(q)
  BY <1>4, RowType
<1>6. rows' = [rows EXCEPT ![p] = row]
  BY <1>2, <1>3, <1>5 DEF Writes
<1>7. /\ rows'[p] = row
      /\ \A x \in Paths \ {p} : rows'[x] = rows[x]
  BY <1>4, <1>6 DEF ServerInv, Typed, TypeOK
<1> DEFINE old == {x \in Paths : IsLive(rows[x])}
           new == {x \in Paths : IsLive(rows'[x])}
           others == {x \in Paths \ {p} : IsLive(rows[x])}
<1>8. others \subseteq old /\ others \subseteq new /\ new \subseteq old \cup {p} /\ LiveRows' = new
  BY <1>7 DEF LiveRows, IsLive
<1>9. IsFiniteSet(old) /\ IsFiniteSet(old \cup {p})
  BY FS_AddElement DEF ServerInv, LiveRows
<1>10. IsFiniteSet(new) /\ IsFiniteSet(others)
  BY <1>8, <1>9, FS_Subset
<1>11. /\ \A x \in old : rows[x].size \in Nat
       /\ \A x \in new : rows'[x].size \in Nat
  BY LiveRow DEF ServerInv, Typed, TypeOK, IsLive
<1>12. Bytes(rows', others) = Bytes(rows, others)
  <2>1. \A x \in others : rows'[x].size = rows[x].size
    BY <1>7
  <2> HIDE DEF others
  <2>2. QED
    BY <1>10, <2>1, BytesSame
<1>13. MaxVaultBytes \in Nat /\ Bytes(rows, old) <= MaxVaultBytes
  BY QuotaBytes, ServerAssumption DEF ServerInv
<1>14. CASE q.op = "put"
  <2>1. row.size = Size[q.content] /\ p \in new /\ new \ {p} = others
    <3>1. row.size = Size[q.content] /\ row.deleted = FALSE
      BY <1>4, <1>5, <1>14, RowType
    <3>2. IsLive(row)
      BY <1>5, <3>1, LiveRow
    <3>3. QED
      BY <1>4, <1>7, <3>1, <3>2
  <2>2. used(p) + Size[q.content] <= MaxVaultBytes
    BY <1>2, <1>3, <1>14 DEF ServerInv, GateInv, Writes
  <2>3. used(p) = Bytes(rows, others)
    BY QuotaBytes
  <2> HIDE DEF new, others
  <2>4. /\ Bytes(rows', new) = rows'[p].size + Bytes(rows', new \ {p})
        /\ Bytes(rows', new \ {p}) \in Nat
    BY <1>10, <1>11, <2>1, BytesSplit
  <2>5. Bytes(rows', new) = Size[q.content] + Bytes(rows, others) /\ Bytes(rows, others) \in Nat
    BY <1>7, <1>12, <2>1, <2>4
  <2>6. Bytes(rows', new) <= MaxVaultBytes
    BY <1>4, <1>13, <2>2, <2>3, <2>5
  <2>7. QED
    BY <1>1, <1>8, <1>10, <2>6, QuotaBytes DEF new
<1>15. CASE q.op # "put"
  <2>1. new = others
    <3>1. row.deleted = TRUE
      BY <1>4, <1>5, <1>15, RowType
    <3>2. ~IsLive(row)
      BY <1>5, <3>1, LiveRow
    <3>3. QED
      BY <1>4, <1>7, <3>2
  <2>2. Bytes(rows', new) = Bytes(rows, others)
    BY <1>12, <2>1
  <2>3. Bytes(rows, others) <= MaxVaultBytes
    <3>1. CASE p \in old
      <4>1. old \ {p} = others
        OBVIOUS
      <4>2. rows[p].size \in Nat
        BY <1>11, <3>1
      <4> HIDE DEF old, others
      <4>3. /\ Bytes(rows, old) = rows[p].size + Bytes(rows, old \ {p})
            /\ Bytes(rows, old \ {p}) \in Nat /\ Bytes(rows, old) \in Nat
        BY <1>9, <1>11, <3>1, BytesSplit
      <4>4. Bytes(rows, old) = rows[p].size + Bytes(rows, others) /\ Bytes(rows, others) \in Nat
        BY <4>1, <4>3
      <4>5. Bytes(rows, others) <= Bytes(rows, old)
        BY <4>2, <4>4
      <4>6. QED
        BY <1>13, <4>3, <4>4, <4>5
    <3>2. CASE p \notin old
      <4>1. old = others
        BY <3>2
      <4>2. QED
        BY <1>13, <4>1
    <3>3. QED
      BY <3>1, <3>2
  <2>4. Bytes(rows', new) <= MaxVaultBytes
    BY <2>2, <2>3
  <2>5. QED
    BY <1>1, <1>8, <1>10, <2>4, QuotaBytes
<1>16. QED
  BY <1>14, <1>15

\* Every step keeps the invariant.
LEMMA ServerStep == ServerInv /\ [Next]_vars => ServerInv'
<1> SUFFICES ASSUME ServerInv, [Next]_vars PROVE ServerInv'
  OBVIOUS
<1>1. Typed'
  BY TypeStep DEF ServerInv
<1>2. /\ StageInv'
      /\ Advances \/ \E r \in Requests : Accepts(r) \/ Writes(r)
  BY LockStep DEF ServerInv
<1>3. LockInv' /\ GateInv' /\ IsFiniteSet(LiveRows)' /\ QuotaHolds'
  BY <1>1, <1>2, AdvanceKeeps, AcceptKeeps, WriteKeeps
<1>4. QED
  BY <1>1, <1>2, <1>3 DEF ServerInv

\* The invariant holds of every behaviour of the server.
LEMMA ServerInvariant == Spec => []ServerInv
BY ServerInit, ServerStep, PTL DEF Spec

\* The server's state is well-typed, with every failure in it: in particular a
\* free suffix is always found for a history file.
THEOREM ServerTypes == Spec => []TypeOK
<1>1. ServerInv => TypeOK
  BY DEF ServerInv, Typed
<1>2. QED
  BY <1>1, ServerInvariant, PTL

\* The byte budget holds for any number of concurrent writers, also when
\* commits fail or answer an error after they were applied, handlers are
\* dropped and the server crashes.
THEOREM QuotaKept == Spec => []QuotaHolds
<1>1. ServerInv => QuotaHolds
  BY DEF ServerInv
<1>2. QED
  BY <1>1, ServerInvariant, PTL

-----------------------------------------------------------------------------
(* Rows and blobs, while nothing has failed                                *)

Healthy == \A k \in FaultKinds : faults[k] = 0

\* Row and blob of p agree.
Agree(p) ==
    IF IsLive(rows[p])
    THEN live[p] # None /\ HashOf[live[p]] = rows[p].hash
    ELSE live[p] = None

\* Every handler is there and on its way, a put has moved the old file away
\* before it places the new one, and all other paths agree with their rows.
Calm ==
    /\ \A r \in Requests :
          /\ ~req[r].gone /\ req[r].stage \notin {"failed", "undone"}
          /\ req[r].stage \in {"begun", "gated"} => req[r].undo = None
          /\ req[r].stage = "moved" => live[req[r].path] = None
          /\ req[r].stage = "placed" =>
                live[req[r].path] = IF req[r].op = "put" THEN req[r].content ELSE None
    /\ \A p \in Paths : (\A r \in Requests : ~Unsettled(r, p)) => Agree(p)

CalmInv == Healthy => Calm

\* Failures of a kind the environment does not produce do not happen.
FaultInv == \A k \in FaultKinds : k \notin Faults => faults[k] = 0

\* A failure is never taken back, and only a failure action adds one.
LEMMA HealthyStep ==
    ASSUME Typed, [Next]_vars, Healthy'
    PROVE  /\ Healthy
           /\ \/ \E r \in Requests : Begin(r) \/ Step(r)
              \/ Prune \/ Tick \/ UNCHANGED vars
<1>1. ASSUME NEW kind \in FaultKinds, Fault(kind) PROVE FALSE
  <2>1. faults'[kind] = faults[kind] + 1 /\ faults[kind] \in Nat /\ faults'[kind] = 0
    BY <1>1, FaultType DEF Healthy, Typed, TypeOK
  <2>2. QED
    BY <2>1
<1>2. {"commit", "uncertain", "blob", "disconnect", "crash"} \subseteq FaultKinds
  BY DEF FaultKinds
<1>3. \/ \E r \in Requests : Begin(r) \/ Step(r)
      \/ Prune \/ Tick \/ UNCHANGED vars
  BY <1>1, <1>2 DEF Next, CommitFails, PutLiveFails, Disconnect, Crash
<1>4. faults' = faults
  BY <1>3 DEF Begin, Step, LockAndCheck, ArchiveVersion, PutLive, TrashLive, Commit, Undo,
              Rollback, Prune, Tick, vars
<1>5. QED
  BY <1>3, <1>4 DEF Healthy

\* While nothing has failed, at most one request has touched a blob whose row
\* is not committed, and it holds the lock.
LEMMA OneWriter ==
    ASSUME LockInv, Calm, NEW r \in Requests, req[r].stage \in {"gated", "moved", "placed"}
    PROVE  /\ Holds(r) /\ lock = r /\ req[r].cur = rows[req[r].path]
           /\ \A s \in Requests, p \in Paths : Unsettled(s, p) => s = r
<1>1. Holds(r) /\ lock = r /\ req[r].cur = rows[req[r].path]
  BY DEF Calm, Holds, LockInv
<1>2. ASSUME NEW s \in Requests, NEW p \in Paths, Unsettled(s, p) PROVE s = r
  BY <1>1, <1>2 DEF Unsettled, Calm, Holds, LockInv
<1>3. QED
  BY <1>1, <1>2

\* What a step of the path of r may change: the slot of r, and the row and the
\* blob of its path.
Local(r) ==
    /\ \A s \in Requests \ {r} : req'[s] = req[s]
    /\ \A p \in Paths \ {req[r].path} : rows'[p] = rows[p] /\ live'[p] = live[p]

\* The other slots and paths stay calm.
LEMMA LocalCalm ==
    ASSUME Typed, LockInv, Calm, NEW r \in Requests, NEW x \in Paths, x = req[r].path, Local(r),
           req[r].stage \in {"gated", "moved", "placed"},
           ~req'[r].gone, req'[r].stage \notin {"begun", "gated", "failed", "undone"},
           req'[r].stage \in {"moved", "placed"} => req'[r].path = x,
           req'[r].stage = "moved" => live'[x] = None,
           req'[r].stage = "placed" =>
                live'[x] = IF req'[r].op = "put" THEN req'[r].content ELSE None,
           req'[r].stage \notin {"moved", "placed"} => Agree(x)'
    PROVE  Calm'
<1>1. \A s \in Requests, p \in Paths : Unsettled(s, p) => s = r
  BY OneWriter
<1>2. ASSUME NEW s \in Requests, s # r
      PROVE  /\ ~req'[s].gone /\ req'[s].stage \notin {"failed", "undone"}
             /\ req'[s].stage \in {"begun", "gated"} => req'[s].undo = None
             /\ req'[s].stage \notin {"moved", "placed"}
  <2>1. req'[s] = req[s] /\ req[s].path \in Paths
    BY <1>2 DEF Local, Typed, TypeOK, Request
  <2>2. req[s].stage \notin {"moved", "placed"}
    BY <1>1, <1>2, <2>1 DEF Unsettled
  <2>3. QED
    BY <2>1, <2>2 DEF Calm
<1>3. ASSUME NEW p \in Paths, \A s \in Requests : ~Unsettled(s, p)'
      PROVE  Agree(p)'
  <2>1. CASE p = x
    <3>1. req'[r].stage \notin {"moved", "placed"}
      BY <1>3, <2>1 DEF Unsettled
    <3>2. QED
      BY <2>1, <3>1
  <2>2. CASE p # x
    <3>1. \A s \in Requests : ~Unsettled(s, p)
      BY <1>1, <2>2 DEF Unsettled
    <3>2. Agree(p)
      BY <3>1 DEF Calm
    <3>3. rows'[p] = rows[p] /\ live'[p] = live[p]
      BY <2>2 DEF Local
    <3>4. QED
      BY <3>2, <3>3 DEF Agree
  <2>3. QED
    BY <2>1, <2>2
<1>4. QED
  BY <1>2, <1>3 DEF Calm

\* Steps that touch neither rows nor blobs and leave every slot where it is or
\* outside a write keep Calm.
LEMMA QuietCalm ==
    ASSUME Calm, rows' = rows, live' = live, NEW r \in Requests,
           \A s \in Requests \ {r} : req'[s] = req[s],
           req[r].stage \in {"idle", "begun"}, req'[r].stage \in {"idle", "begun", "gated"},
           ~req'[r].gone, req'[r].stage \in {"begun", "gated"} => req'[r].undo = None
    PROVE  Calm'
<1>1. \A s \in Requests, p \in Paths : Unsettled(s, p)' <=> Unsettled(s, p)
  BY DEF Unsettled
<1>2. \A p \in Paths : Agree(p)' <=> Agree(p)
  BY DEF Agree
<1>3. QED
  BY <1>1, <1>2 DEF Calm

\* What a handler's step does to its slot and its blob while nothing fails.
LEMMA MoveCalm ==
    ASSUME Typed, LockInv, Calm, NEW r \in Requests, NEW tier \in Tiers, NEW x \in Paths,
           x = req[r].path, move_live(r, tier, x),
           req[r].stage = "gated", UNCHANGED rows,
           (tier = "Trash") <=> req[r].op # "put"
    PROVE  /\ Calm' /\ Local(r)
           /\ req'[r].stage = IF tier = "Trash" THEN "placed" ELSE "moved"
           /\ ~req'[r].gone
           /\ req'[r].undo = None <=> live[x] = None
           /\ req'[r].undo # None => req'[r].undo.entry.content = live[x]
           /\ \A f \in Kept : req'[r][f] = req[r][f]
<1>1. req[r] \in Request /\ ~req[r].gone
  BY DEF Typed, TypeOK, Calm
<1>2. live' = [live EXCEPT ![x] = None]
  BY MoveFacts
<1>3. \E undo \in UndoToken \cup {None} :
          /\ req' = [req EXCEPT ![r].stage = IF tier = "Trash" THEN "placed" ELSE "moved",
                                ![r].undo  = undo]
          /\ undo = None <=> live[req[r].path] = None
          /\ undo # None => undo.entry.content = live[req[r].path]
  <2>1. move_live(r, tier, req[r].path)
    OBVIOUS
  <2>2. QED
    BY <1>1, <2>1, MoveFacts, Zenon
<1>4. PICK undo \in UndoToken \cup {None} :
          /\ req' = [req EXCEPT ![r].stage = IF tier = "Trash" THEN "placed" ELSE "moved",
                                ![r].undo  = undo]
          /\ undo = None <=> live[x] = None
          /\ undo # None => undo.entry.content = live[x]
  BY <1>3
<1> DEFINE q == [req[r] EXCEPT !.stage = IF tier = "Trash" THEN "placed" ELSE "moved",
                               !.undo = undo]
<1>5. /\ q.stage = (IF tier = "Trash" THEN "placed" ELSE "moved") /\ q.undo = undo
      /\ ~q.gone /\ \A f \in Kept : q[f] = req[r][f]
  BY <1>1 DEF Request, Kept
<1>6. req'[r] = q /\ \A s \in Requests \ {r} : req'[s] = req[s]
  BY <1>4 DEF Typed, TypeOK
<1> HIDE DEF q
<1>7. /\ Local(r) /\ live'[x] = None
  BY <1>2, <1>6 DEF Local, Typed, TypeOK
<1>8. q.path = x /\ q.op = req[r].op
  BY <1>5 DEF Kept
<1>9. Calm'
  BY <1>5, <1>6, <1>7, <1>8, LocalCalm DEF Tiers
<1>10. QED
  BY <1>4, <1>5, <1>6, <1>7, <1>9

\* The content a put placed has the hash of the row it commits.
LEMMA CommitAgrees ==
    ASSUME Typed, LockInv, Calm, NEW r \in Requests, Commit(r), NEW x \in Paths, x = req[r].path
    PROVE  Agree(x)' /\ rows'[x] = NewRow(req[r]) /\ Local(r)
<1>1. PICK q \in Request : q = req[r]
  BY DEF Typed, TypeOK
<1>2. PICK row \in Row : row = NewRow(q)
  BY RowType
<1>3. /\ q.stage = "placed" /\ rows' = [rows EXCEPT ![x] = row] /\ live' = live
      /\ req' = [req EXCEPT ![r] = IdleRequest]
  BY <1>1, <1>2 DEF Commit, WriteRow
<1>4. rows'[x] = row /\ Local(r)
  BY <1>3 DEF Local, Typed, TypeOK
<1>5. live'[x] = IF q.op = "put" THEN q.content ELSE None
  BY <1>1, <1>3 DEF Calm
<1>6. q.content \in Contents /\ None \notin Contents
  BY ServerAssumption DEF Request
<1>7. CASE q.op = "put"
  <2>1. row.deleted = FALSE /\ row.hash = HashOf[q.content]
    BY <1>2, <1>7, RowType
  <2>2. IsLive(row)
    BY <2>1, LiveRow
  <2>3. QED
    BY <1>1, <1>2, <1>4, <1>5, <1>6, <1>7, <2>1, <2>2 DEF Agree
<1>8. CASE q.op # "put"
  <2>1. row.deleted = TRUE
    BY <1>2, <1>8, RowType
  <2>2. ~IsLive(row)
    BY <2>1, LiveRow
  <2>3. QED
    BY <1>1, <1>2, <1>4, <1>5, <1>8, <2>2 DEF Agree
<1>9. QED
  BY <1>7, <1>8

\* Every step without a failure keeps Calm.
LEMMA CalmStep ==
    ASSUME ServerInv, Calm,
           \/ \E r \in Requests : Begin(r) \/ Step(r)
           \/ Prune \/ Tick \/ UNCHANGED vars
    PROVE  Calm'
<1>0. Typed /\ LockInv /\ StageInv
  BY DEF ServerInv
<1>1. ASSUME NEW r \in Requests, Begin(r) PROVE Calm'
  <2>1. PICK op \in {"put", "delete"}, p \in Paths, c \in Contents, parent \in Hashes \cup {NoHash} :
           req' = [req EXCEPT ![r] =
                     [stage |-> "begun", op |-> op, path |-> p, parent |-> parent,
                      content |-> c, ts |-> now, cur |-> None, gone |-> FALSE,
                      undo |-> None]]
    BY <1>1 DEF Begin
  <2>2. req'[r] = [stage |-> "begun", op |-> op, path |-> p, parent |-> parent,
                   content |-> c, ts |-> now, cur |-> None, gone |-> FALSE, undo |-> None]
        /\ \A s \in Requests \ {r} : req'[s] = req[s]
    BY <1>0, <2>1 DEF Typed, TypeOK
  <2>3. req'[r].stage = "begun" /\ ~req'[r].gone /\ req'[r].undo = None
    BY <2>2
  <2>4. rows' = rows /\ live' = live /\ req[r].stage = "idle"
    BY <1>1 DEF Begin
  <2>5. QED
    BY <2>2, <2>3, <2>4, QuietCalm
<1>2. ASSUME NEW r \in Requests, LockAndCheck(r) PROVE Calm'
  <2>1. rows' = rows /\ live' = live /\ req[r].stage = "begun"
    BY <1>2 DEF LockAndCheck
  <2>2. req[r] \in Request /\ ~req[r].gone /\ req[r].undo = None
    BY <1>0, <2>1 DEF Typed, TypeOK, Calm
  <2>3. CASE verdict(req[r]) = "accept"
    <3> DEFINE q == [req[r] EXCEPT !.stage = "gated", !.cur = rows[req[r].path]]
    <3>1. req' = [req EXCEPT ![r] = q]
      BY <1>2, <2>3 DEF LockAndCheck
    <3>2. q.stage = "gated" /\ ~q.gone /\ q.undo = None
      BY <2>2 DEF Request
    <3> HIDE DEF q
    <3>3. req'[r] = q /\ \A s \in Requests \ {r} : req'[s] = req[s]
      BY <1>0, <3>1 DEF Typed, TypeOK
    <3>4. QED
      BY <2>1, <3>2, <3>3, QuietCalm
  <2>4. CASE verdict(req[r]) # "accept"
    <3>1. req' = [req EXCEPT ![r] = IdleRequest]
      BY <1>2, <2>4 DEF LockAndCheck
    <3>2. req'[r] = IdleRequest /\ \A s \in Requests \ {r} : req'[s] = req[s]
      BY <1>0, <3>1 DEF Typed, TypeOK
    <3>3. QED
      BY <2>1, <3>2, IdleType, QuietCalm
  <2>5. QED
    BY <2>3, <2>4
<1>3. ASSUME NEW r \in Requests, ArchiveVersion(r) PROVE Calm'
  <2>1. PICK x \in Paths : x = req[r].path
    BY <1>0 DEF Typed, TypeOK, Request
  <2>2. /\ req[r].stage = "gated" /\ req[r].op = "put" /\ rows' = rows
        /\ req[r] \in Request /\ ~req[r].gone
    BY <1>0, <1>3 DEF ArchiveVersion, Calm, Typed, TypeOK
  <2>3. CASE IsLive(req[r].cur)
    BY <1>0, <1>3, <2>1, <2>2, <2>3, MoveCalm DEF ArchiveVersion, Tiers
  <2>4. CASE ~IsLive(req[r].cur)
    <3> DEFINE q == [req[r] EXCEPT !.stage = "moved"]
    <3>1. req' = [req EXCEPT ![r] = q] /\ live' = live
      BY <1>3, <2>4 DEF ArchiveVersion
    <3>2. q.stage = "moved" /\ ~q.gone /\ q.path = x
      BY <2>1, <2>2 DEF Request
    <3> HIDE DEF q
    <3>3. req'[r] = q /\ \A s \in Requests \ {r} : req'[s] = req[s]
      BY <1>0, <3>1 DEF Typed, TypeOK
    <3>4. live[x] = None
      <4>1. ~IsLive(rows[x])
        BY <1>0, <2>1, <2>2, <2>4, OneWriter
      <4>2. \A s \in Requests : ~Unsettled(s, x)
        BY <1>0, <2>2, OneWriter DEF Unsettled
      <4>3. QED
        BY <4>1, <4>2 DEF Calm, Agree
    <3>5. Local(r)
      BY <2>2, <3>1, <3>3 DEF Local
    <3>6. QED
      BY <1>0, <2>1, <2>2, <3>1, <3>2, <3>3, <3>4, <3>5, LocalCalm
  <2>5. QED
    BY <2>3, <2>4
<1>4. ASSUME NEW r \in Requests, PutLive(r) PROVE Calm'
  <2>1. PICK x \in Paths : x = req[r].path
    BY <1>0 DEF Typed, TypeOK, Request
  <2>2. /\ req[r].stage = "moved" /\ req[r].op = "put" /\ rows' = rows
        /\ req[r] \in Request /\ ~req[r].gone
    BY <1>0, <1>4 DEF PutLive, Calm, Typed, TypeOK, StageInv
  <2> DEFINE q == [req[r] EXCEPT !.stage = "placed"]
  <2>3. req' = [req EXCEPT ![r] = q] /\ live' = [live EXCEPT ![x] = req[r].content]
    BY <1>4, <2>1, <2>2 DEF PutLive
  <2>4. q.stage = "placed" /\ ~q.gone /\ q.path = x /\ q.op = "put" /\ q.content = req[r].content
    BY <2>1, <2>2 DEF Request
  <2> HIDE DEF q
  <2>5. /\ req'[r] = q /\ \A s \in Requests \ {r} : req'[s] = req[s]
        /\ live'[x] = req[r].content
    BY <1>0, <2>3 DEF Typed, TypeOK
  <2>6. Local(r)
    BY <1>0, <2>1, <2>2, <2>3, <2>5 DEF Local, Typed, TypeOK
  <2>7. QED
    BY <1>0, <2>1, <2>2, <2>4, <2>5, <2>6, LocalCalm
<1>5. ASSUME NEW r \in Requests, TrashLive(r) PROVE Calm'
  <2>1. PICK x \in Paths : x = req[r].path
    BY <1>0 DEF Typed, TypeOK, Request
  <2>2. QED
    BY <1>0, <1>5, <2>1, MoveCalm DEF TrashLive, Tiers
<1>6. ASSUME NEW r \in Requests, Commit(r) PROVE Calm'
  <2>1. PICK x \in Paths : x = req[r].path
    BY <1>0 DEF Typed, TypeOK, Request
  <2>2. Agree(x)' /\ Local(r)
    BY <1>0, <1>6, <2>1, CommitAgrees
  <2>3. req'[r] = IdleRequest /\ req[r].stage = "placed"
    BY <1>0, <1>6 DEF Commit, Typed, TypeOK
  <2>4. QED
    BY <1>0, <2>1, <2>2, <2>3, IdleType, LocalCalm
<1>7. ASSUME NEW r \in Requests, Undo(r) \/ Rollback(r) PROVE FALSE
  BY <1>7 DEF Undo, Rollback, Calm
<1>8. CASE Prune \/ Tick \/ UNCHANGED vars
  <2>1. rows' = rows /\ live' = live /\ req' = req
    BY <1>8 DEF Prune, Tick, vars
  <2>2. QED
    BY <2>1 DEF Calm, Unsettled, Agree
<1>9. QED
  BY <1>1, <1>2, <1>3, <1>4, <1>5, <1>6, <1>7, <1>8 DEF Step

\* The whole invariant.
FullInv == ServerInv /\ CalmInv /\ FaultInv

\* The server starts calm and without failures.
LEMMA FullInit == Init => FullInv
<1> SUFFICES ASSUME Init PROVE FullInv
  OBVIOUS
<1>1. \A r \in Requests : req[r] = IdleRequest
  BY DEF Init
<1>2. Calm
  BY <1>1, IdleType DEF Calm, Agree, Init, IsLive
<1>3. FaultInv
  BY DEF Init, FaultInv
<1>4. QED
  BY <1>2, <1>3, ServerInit DEF FullInv, CalmInv

\* Every step keeps the whole invariant.
LEMMA FullStep == FullInv /\ [Next]_vars => FullInv'
<1> SUFFICES ASSUME FullInv, [Next]_vars PROVE FullInv'
  OBVIOUS
<1>1. ServerInv /\ CalmInv /\ FaultInv /\ Typed
  BY DEF FullInv, ServerInv
<1>2. ServerInv'
  BY <1>1, ServerStep
<1>3. CalmInv'
  <2>1. SUFFICES ASSUME Healthy' PROVE Calm'
    BY DEF CalmInv
  <2>2. QED
    BY <1>1, <2>1, HealthyStep, CalmStep DEF CalmInv
<1>4. FaultInv'
  <2>1. CASE \E kind \in FaultKinds : Fault(kind)
    <3>1. PICK kind \in FaultKinds : Fault(kind)
      BY <2>1
    <3>2. kind \in Faults /\ \A k \in FaultKinds \ {kind} : faults'[k] = faults[k]
      BY <1>1, <3>1, FaultType DEF Typed
    <3>3. QED
      BY <1>1, <3>2 DEF FaultInv
  <2>2. CASE faults' = faults
    BY <1>1, <2>2 DEF FaultInv
  <2>3. (\E kind \in FaultKinds : Fault(kind)) \/ faults' = faults
    BY DEF Next, Begin, Step, LockAndCheck, ArchiveVersion, PutLive, TrashLive, Commit, Undo,
           Rollback, Prune, Tick, vars, CommitFails, PutLiveFails, Disconnect, Crash, FaultKinds
  <2>4. QED
    BY <2>1, <2>2, <2>3
<1>5. QED
  BY <1>2, <1>3, <1>4 DEF FullInv

\* The whole invariant holds of every behaviour of the server.
LEMMA FullInvariant == Spec => []FullInv
BY FullInit, FullStep, PTL DEF Spec

\* "The row and the file never disagree": for any number of concurrent
\* writers, row and blob of a path that nobody is writing agree, as long as no
\* commit fails.  (RowsAndBlobsUndone is about failing commits.)
THEOREM RowsAndBlobs ==
    ASSUME "commit" \notin Faults
    PROVE  Spec => []RowBlobAgree
<1>1. FullInv => RowBlobAgree
  <2>1. SUFFICES ASSUME FullInv, OnlyCommitsFailed, NEW p \in Paths,
                        \A r \in Requests : ~Unsettled(r, p)
                 PROVE  Agree(p)
    BY DEF RowBlobAgree, Agree
  <2>2. Healthy
    BY <2>1 DEF FullInv, FaultInv, OnlyCommitsFailed, Healthy, FaultKinds
  <2>3. QED
    BY <2>1, <2>2 DEF FullInv, CalmInv, Calm
<1>2. QED
  BY <1>1, FullInvariant, PTL

-----------------------------------------------------------------------------
(* The handlers implement GateService, when nothing fails                  *)

\* The body the mapping shows for a path: its blob, or the one that the
\* write in progress has put aside.
BodyOK ==
    \A p \in Paths :
        /\ (\A r \in Requests : ~Unsettled(r, p)) => AbsBody[p] = live[p]
        /\ \A r \in Requests : Unsettled(r, p) =>
              AbsBody[p] = IF req[r].undo = None THEN None ELSE req[r].undo.entry.content

\* At most one write is in progress, so the mapping's choice is that one.
LEMMA BodyFacts == LockInv /\ Calm => BodyOK
<1> SUFFICES ASSUME LockInv, Calm, NEW p \in Paths
             PROVE  /\ (\A r \in Requests : ~Unsettled(r, p)) => AbsBody[p] = live[p]
                    /\ \A r \in Requests : Unsettled(r, p) =>
                          AbsBody[p] = IF req[r].undo = None THEN None
                                       ELSE req[r].undo.entry.content
  BY DEF BodyOK
<1>1. (\A r \in Requests : ~Unsettled(r, p)) => AbsBody[p] = live[p]
  BY DEF AbsBody
<1>2. ASSUME NEW r \in Requests, Unsettled(r, p)
      PROVE  AbsBody[p] = IF req[r].undo = None THEN None ELSE req[r].undo.entry.content
  <2>1. \A s \in Requests : Unsettled(s, p) => s = r
    BY <1>2, OneWriter DEF Unsettled, Calm
  <2>2. (CHOOSE s \in Requests : Unsettled(s, p)) = r
    BY <1>2, <2>1
  <2>3. QED
    BY <1>2, <2>2 DEF AbsBody
<1>3. QED
  BY <1>1, <1>2

\* The same of the next state.
LEMMA BodyFactsNext == (LockInv /\ Calm)' => BodyOK'
BY BodyFacts, PTL

\* While nothing fails, the calls the mapping shows are the requests between
\* their arrival and their commit.
Waiting == {"begun", "gated", "moved", "placed"}

\* The call of a request.
CallOf(q) == [op |-> q.op, path |-> q.path, parent |-> q.parent,
              hash |-> HashOf[q.content], content |-> q.content]

\* The mapping's calls, slot by slot.
LEMMA CallFacts ==
    Calm => AbsCall = [r \in Requests |-> IF req[r].stage \in Waiting THEN CallOf(req[r]) ELSE None]
BY DEF Calm, AbsCall, Waiting, CallOf

\* The same of the next state.
LEMMA CallFactsNext ==
    Calm' => AbsCall' = [r \in Requests |-> IF req'[r].stage \in Waiting THEN CallOf(req'[r]) ELSE None]
<1>1. (Calm => AbsCall = [r \in Requests |-> IF req[r].stage \in Waiting THEN CallOf(req[r]) ELSE None])'
  BY CallFacts, PTL
<1>2. QED
  BY <1>1

\* A call is never None.
LEMMA CallType ==
    ASSUME NEW q \in Request
    PROVE  CallOf(q) # None /\ CallOf(q) \in Service!Call
<1>1. q.content \in Contents /\ HashOf[q.content] \in Hashes
  BY ServerAssumption DEF Request
<1>2. CallOf(q) \in [op : {"put", "delete"}, path : Paths, parent : Hashes \cup {NoHash},
                     hash : Hashes, content : Contents]
  BY <1>1 DEF CallOf, Request
<1>3. QED
  BY <1>2, RecordAssumption DEF Service!Call

\* A handler's step before its commit changes nothing the service shows.
LEMMA HiddenStep ==
    ASSUME Typed, LockInv, Calm, LockInv', Calm', NEW r \in Requests, NEW x \in Paths,
           x = req[r].path, rows' = rows, rev' = rev, Local(r),
           req[r].stage \in {"gated", "moved"}, req'[r].stage \in {"moved", "placed"},
           \A f \in Kept : req'[r][f] = req[r][f],
           IF req'[r].undo = None THEN AbsBody[x] = None
                                  ELSE AbsBody[x] = req'[r].undo.entry.content
    PROVE  AbsRows' = AbsRows /\ AbsBody' = AbsBody /\ AbsCall' = AbsCall
<1>1. AbsRows' = AbsRows
  BY DEF AbsRows
<1>2. /\ req'[r].op = req[r].op /\ req'[r].path = x /\ req'[r].parent = req[r].parent
      /\ req'[r].content = req[r].content
  BY DEF Kept
<1>3. AbsCall' = AbsCall
  BY <1>2, CallFacts, CallFactsNext DEF Local, Waiting, CallOf
<1>4. \A s \in Requests, p \in Paths : Unsettled(s, p) => s = r /\ p = x
  BY OneWriter DEF Unsettled
<1>5. ASSUME NEW p \in Paths PROVE AbsBody'[p] = AbsBody[p]
  <2>1. CASE p = x
    <3>1. Unsettled(r, p)'
      BY <1>2, <2>1 DEF Unsettled
    <3>2. AbsBody'[p] = IF req'[r].undo = None THEN None ELSE req'[r].undo.entry.content
      BY <3>1, BodyFactsNext DEF BodyOK
    <3>3. QED
      BY <2>1, <3>2
  <2>2. CASE p # x
    <3>1. \A s \in Requests : ~Unsettled(s, p)
      BY <1>4, <2>2
    <3>2. \A s \in Requests : ~Unsettled(s, p)'
      BY <1>2, <2>2, <3>1 DEF Unsettled, Local
    <3>3. AbsBody[p] = live[p] /\ AbsBody'[p] = live'[p]
      BY <3>1, <3>2, BodyFacts, BodyFactsNext DEF BodyOK
    <3>4. QED
      BY <2>2, <3>3 DEF Local
  <2>3. QED
    BY <2>1, <2>2
<1>6. AbsBody' = AbsBody
  <2>1. AbsBody = [p \in Paths |-> AbsBody[p]] /\ AbsBody' = [p \in Paths |-> AbsBody'[p]]
    BY DEF AbsBody
  <2>2. QED
    BY <1>5, <2>1, Zenon
<1>7. QED
  BY <1>1, <1>3, <1>6

\* The steps of a put before its commit, and of a delete.
LEMMA MovesHidden ==
    ASSUME ServerInv, Calm, LockInv', Calm', NEW r \in Requests,
           ArchiveVersion(r) \/ PutLive(r) \/ TrashLive(r)
    PROVE  UNCHANGED Service!serviceVars
<1>0. Typed /\ LockInv /\ StageInv
  BY DEF ServerInv
<1>1. PICK x \in Paths : x = req[r].path
  BY <1>0 DEF Typed, TypeOK, Request
<1>2. /\ rows' = rows /\ rev' = rev /\ req[r] \in Request /\ ~req[r].gone
  BY <1>0 DEF ArchiveVersion, PutLive, TrashLive, Typed, TypeOK, Calm
<1>3. AbsRows' = AbsRows /\ AbsBody' = AbsBody /\ AbsCall' = AbsCall
  <2>1. ASSUME req[r].stage = "gated" PROVE AbsBody[x] = live[x]
    <3>1. \A s \in Requests : ~Unsettled(s, x)
      BY <1>0, <2>1, OneWriter DEF Unsettled
    <3>2. QED
      BY <1>0, <3>1, BodyFacts DEF BodyOK
  <2>2. ASSUME NEW tier \in Tiers, move_live(r, tier, x), req[r].stage = "gated",
               (tier = "Trash") <=> req[r].op # "put"
        PROVE  AbsRows' = AbsRows /\ AbsBody' = AbsBody /\ AbsCall' = AbsCall
    <3>1. /\ Local(r) /\ req'[r].stage \in {"moved", "placed"}
          /\ req'[r].undo = None <=> live[x] = None
          /\ req'[r].undo # None => req'[r].undo.entry.content = live[x]
          /\ \A f \in Kept : req'[r][f] = req[r][f]
      BY <1>0, <1>1, <1>2, <2>2, MoveCalm
    <3>2. IF req'[r].undo = None THEN AbsBody[x] = None
                                 ELSE AbsBody[x] = req'[r].undo.entry.content
      BY <2>1, <2>2, <3>1
    <3>3. QED
      BY <1>0, <1>1, <1>2, <2>2, <3>1, <3>2, HiddenStep
  <2>3. CASE TrashLive(r)
    BY <1>1, <2>2, <2>3 DEF TrashLive, Tiers
  <2>4. CASE ArchiveVersion(r) /\ IsLive(req[r].cur)
    BY <1>1, <2>2, <2>4 DEF ArchiveVersion, Tiers
  <2>5. CASE ArchiveVersion(r) /\ ~IsLive(req[r].cur)
    <3> DEFINE q == [req[r] EXCEPT !.stage = "moved"]
    <3>1. req' = [req EXCEPT ![r] = q] /\ live' = live /\ req[r].stage = "gated"
      BY <2>5 DEF ArchiveVersion
    <3>2. /\ q.stage = "moved" /\ q.undo = None /\ \A f \in Kept : q[f] = req[r][f]
      BY <1>2, <3>1 DEF Request, Kept, Calm
    <3> HIDE DEF q
    <3>3. req'[r] = q /\ \A s \in Requests \ {r} : req'[s] = req[s]
      BY <1>0, <3>1 DEF Typed, TypeOK
    <3>4. live[x] = None
      <4>1. ~IsLive(rows[x])
        BY <1>0, <1>1, <2>5, <3>1, OneWriter
      <4>2. \A s \in Requests : ~Unsettled(s, x)
        BY <1>0, <3>1, OneWriter DEF Unsettled
      <4>3. QED
        BY <4>1, <4>2 DEF Calm, Agree
    <3>5. Local(r)
      BY <1>2, <3>1, <3>3 DEF Local
    <3>6. AbsBody[x] = None
      BY <2>1, <3>1, <3>4
    <3>7. QED
      BY <1>0, <1>1, <1>2, <3>1, <3>2, <3>3, <3>5, <3>6, HiddenStep
  <2>6. CASE PutLive(r)
    <3> DEFINE q == [req[r] EXCEPT !.stage = "placed"]
    <3>1. /\ req' = [req EXCEPT ![r] = q] /\ live' = [live EXCEPT ![x] = req[r].content]
          /\ req[r].stage = "moved"
      BY <1>1, <1>2, <2>6 DEF PutLive
    <3>2. /\ q.stage = "placed" /\ q.undo = req[r].undo /\ \A f \in Kept : q[f] = req[r][f]
      BY <1>2 DEF Request, Kept
    <3> HIDE DEF q
    <3>3. req'[r] = q /\ \A s \in Requests \ {r} : req'[s] = req[s]
      BY <1>0, <3>1 DEF Typed, TypeOK
    <3>4. Local(r)
      BY <1>0, <1>1, <1>2, <3>1, <3>3 DEF Local, Typed, TypeOK
    <3>5. AbsBody[x] = IF req[r].undo = None THEN None ELSE req[r].undo.entry.content
      BY <1>0, <1>1, <3>1, BodyFacts DEF BodyOK, Unsettled
    <3>6. IF req'[r].undo = None THEN AbsBody[x] = None
                                 ELSE AbsBody[x] = req'[r].undo.entry.content
      BY <3>2, <3>3, <3>5
    <3>7. QED
      BY <1>0, <1>1, <1>2, <3>1, <3>2, <3>3, <3>4, <3>6, HiddenStep
  <2>7. QED
    BY <2>3, <2>4, <2>5, <2>6
<1>4. QED
  BY <1>2, <1>3 DEF Service!serviceVars, Service!gateVars

\* A commit is the step in which the service serves the request: the row it
\* read under the lock is still the path's row, so the gate it passed then is
\* the gate of this moment.
LEMMA CommitServes ==
    ASSUME ServerInv, Calm, LockInv', Calm', NEW r \in Requests, Commit(r)
    PROVE  Service!Serve(r)
<1>0. Typed /\ LockInv /\ GateInv
  BY DEF ServerInv
<1>1. PICK q \in Request : q = req[r]
  BY <1>0 DEF Typed, TypeOK
<1>2. PICK x \in Paths : x = q.path
  BY DEF Request
<1>3. /\ q.stage = "placed" /\ rev' = rev + 1 /\ live' = live
      /\ rows' = [rows EXCEPT ![x] = NewRow(q)]
      /\ req' = [req EXCEPT ![r] = IdleRequest]
  BY <1>1, <1>2 DEF Commit, WriteRow
<1>4. /\ Holds(r) /\ q.cur = rows[x]
      /\ \A s \in Requests, p \in Paths : Unsettled(s, p) => s = r /\ p = x
  BY <1>0, <1>1, <1>2, <1>3, OneWriter DEF Unsettled
<1>5. rows[x] = None \/ rows[x].hash = q.parent
  BY <1>0, <1>1, <1>4 DEF GateInv
<1>6. /\ rows'[x] = NewRow(q) /\ \A p \in Paths \ {x} : rows'[p] = rows[p]
      /\ req'[r] = IdleRequest /\ \A s \in Requests \ {r} : req'[s] = req[s]
  BY <1>0, <1>3 DEF Typed, TypeOK
<1>7. AbsCall[r] = CallOf(q) /\ CallOf(q) # None
  BY <1>1, <1>3, CallFacts, CallType DEF Waiting
<1>8. AbsCall' = [AbsCall EXCEPT ![r] = None]
  BY <1>6, CallFacts, CallFactsNext, IdleType DEF Waiting
<1>9. AbsBody' = [AbsBody EXCEPT ![x] = IF q.op = "put" THEN q.content ELSE None]
  <2>1. \A s \in Requests, p \in Paths : ~Unsettled(s, p)'
    BY <1>4, <1>6, IdleType DEF Unsettled
  <2>2. \A p \in Paths : AbsBody'[p] = live[p]
    BY <1>3, <2>1, BodyFactsNext DEF BodyOK
  <2>3. live[x] = IF q.op = "put" THEN q.content ELSE None
    BY <1>1, <1>2, <1>3 DEF Calm
  <2>4. \A p \in Paths \ {x} : AbsBody[p] = live[p]
    BY <1>0, <1>4, BodyFacts DEF BodyOK
  <2>5. AbsBody = [p \in Paths |-> AbsBody[p]] /\ AbsBody' = [p \in Paths |-> AbsBody'[p]]
    BY DEF AbsBody
  <2> HIDE DEF AbsBody
  <2>6. PICK b, c : b = AbsBody /\ c = AbsBody'
    OBVIOUS
  <2>7. c = [b EXCEPT ![x] = IF q.op = "put" THEN q.content ELSE None]
    BY <2>2, <2>3, <2>4, <2>5, <2>6
  <2>8. QED
    BY <2>6, <2>7
<1>10. rows[x] \in Row \cup {None} /\ NewRow(q) \in Row /\ NewRow(q) # None
  BY <1>0, RowType, RecordAssumption DEF Typed, TypeOK
<1>11. AbsRows' = [AbsRows EXCEPT ![x] = [hash |-> NewRow(q).hash, deleted |-> NewRow(q).deleted]]
  BY <1>6, <1>10 DEF AbsRows
<1>12. /\ rows[x] = None <=> AbsRows[x] = None
       /\ rows[x] # None => AbsRows[x].hash = rows[x].hash
  <2>1. AbsRows[x] = IF rows[x] = None THEN None
                     ELSE [hash |-> rows[x].hash, deleted |-> rows[x].deleted]
    BY DEF AbsRows
  <2>2. rows[x] # None => [hash |-> rows[x].hash, deleted |-> rows[x].deleted] \in Entry
    BY <1>10 DEF Row, Entry
  <2>3. QED
    BY <2>1, <2>2, SentinelAssumption
<1>13. /\ CallOf(q).op = q.op /\ CallOf(q).path = x /\ CallOf(q).parent = q.parent
       /\ CallOf(q).hash = HashOf[q.content] /\ CallOf(q).content = q.content
  BY <1>2 DEF CallOf
<1>14. CASE q.op = "put"
  <2>1. NewRow(q).hash = HashOf[q.content] /\ NewRow(q).deleted = FALSE
    BY <1>14, RowType
  <2>2. Service!CommitPut(x, HashOf[q.content], q.content)
    BY <1>3, <1>9, <1>11, <1>14, <2>1 DEF Service!CommitPut, Service!Live
  <2>3. Service!put_gate(AbsRows[x], q.parent, HashOf[q.content]) = "accept"
    BY <1>5, <1>12 DEF Service!put_gate
  <2>4. QED
    BY <1>7, <1>8, <1>13, <1>14, <2>2, <2>3 DEF Service!Serve
<1>15. CASE q.op # "put"
  <2>0. q.op = "delete"
    BY <1>15 DEF Request
  <2>1. /\ NewRow(q).hash = IF rows[x] # None THEN rows[x].hash ELSE NoHash
        /\ NewRow(q).deleted = TRUE
    BY <1>4, <1>15, RowType
  <2>2. Service!tombstone(AbsRows[x]) = [hash |-> NewRow(q).hash, deleted |-> NewRow(q).deleted]
    BY <1>12, <2>1 DEF Service!tombstone
  <2>3. Service!CommitDelete(x)
    BY <1>3, <1>9, <1>11, <1>15, <2>2 DEF Service!CommitDelete
  <2>4. Service!delete_gate(AbsRows[x], q.parent) = "accept"
    BY <1>5, <1>12 DEF Service!delete_gate
  <2>5. QED
    BY <1>7, <1>8, <1>13, <2>0, <2>3, <2>4 DEF Service!Serve
<1>16. QED
  BY <1>14, <1>15

\* A request that arrives is submitted; one the checks refuse is refused.
LEMMA EndsShown ==
    ASSUME ServerInv, Calm, LockInv', Calm', NEW r \in Requests, Begin(r) \/ LockAndCheck(r)
    PROVE  Service!Submit(r) \/ Service!Refuse(r) \/ UNCHANGED Service!serviceVars
<1>0. Typed /\ LockInv
  BY DEF ServerInv
<1>1. /\ rows' = rows /\ rev' = rev /\ live' = live
      /\ req[r] \in Request /\ req[r].stage \in {"idle", "begun"}
  BY <1>0 DEF Begin, LockAndCheck, Typed, TypeOK
<1>2. PICK q \in Request : req' = [req EXCEPT ![r] = q] /\ q.stage \in {"begun", "gated", "idle"}
                           /\ (LockAndCheck(r) /\ q.stage # "idle" => CallOf(q) = CallOf(req[r]))
                           /\ (Begin(r) => q.stage = "begun")
  <2>1. CASE Begin(r)
    <3>1. PICK op \in {"put", "delete"}, p \in Paths, c \in Contents,
               parent \in Hashes \cup {NoHash} :
             req' = [req EXCEPT ![r] =
                       [stage |-> "begun", op |-> op, path |-> p, parent |-> parent,
                        content |-> c, ts |-> now, cur |-> None, gone |-> FALSE,
                        undo |-> None]]
      BY <2>1 DEF Begin
    <3>2. [stage |-> "begun", op |-> op, path |-> p, parent |-> parent,
           content |-> c, ts |-> now, cur |-> None, gone |-> FALSE, undo |-> None] \in Request
      BY <1>0 DEF Request, Typed, TypeOK, Stages
    <3>3. ~LockAndCheck(r)
      BY <2>1 DEF Begin, LockAndCheck
    <3>4. QED
      BY <3>1, <3>2, <3>3
  <2>2. CASE LockAndCheck(r) /\ verdict(req[r]) = "accept"
    <3> DEFINE q == [req[r] EXCEPT !.stage = "gated", !.cur = rows[req[r].path]]
    <3>1. req' = [req EXCEPT ![r] = q]
      BY <2>2 DEF LockAndCheck
    <3>2. q \in Request /\ q.stage = "gated"
      BY <1>0, <1>1 DEF Request, Stages, Typed, TypeOK
    <3>3. CallOf(q) = CallOf(req[r])
      BY <1>1 DEF CallOf, Request
    <3>4. ~Begin(r)
      BY <2>2 DEF Begin, LockAndCheck
    <3> HIDE DEF q
    <3>5. QED
      BY <3>1, <3>2, <3>3, <3>4
  <2>3. CASE LockAndCheck(r) /\ verdict(req[r]) # "accept"
    <3>1. req' = [req EXCEPT ![r] = IdleRequest] /\ ~Begin(r)
      BY <2>3 DEF LockAndCheck, Begin
    <3>2. QED
      BY <3>1, IdleType
  <2>4. QED
    BY <2>1, <2>2, <2>3
<1>3. req'[r] = q /\ \A s \in Requests \ {r} : req'[s] = req[s]
  BY <1>0, <1>2 DEF Typed, TypeOK
<1>4. AbsRows' = AbsRows
  BY <1>1 DEF AbsRows
<1>5. AbsBody' = AbsBody
  <2>1. \A s \in Requests, p \in Paths : Unsettled(s, p)' <=> Unsettled(s, p)
    BY <1>1, <1>2, <1>3 DEF Unsettled
  <2>2. \A s \in Requests, p \in Paths : Unsettled(s, p) => s # r
    BY <1>1 DEF Unsettled
  <2>3. ASSUME NEW p \in Paths PROVE AbsBody'[p] = AbsBody[p]
    <3>1. CASE \A s \in Requests : ~Unsettled(s, p)
      BY <1>0, <1>1, <2>1, <3>1, BodyFacts, BodyFactsNext DEF BodyOK
    <3>2. CASE \E s \in Requests : Unsettled(s, p)
      <4>1. PICK s \in Requests : Unsettled(s, p)
        BY <3>2
      <4>2. req'[s] = req[s] /\ Unsettled(s, p)'
        BY <1>3, <2>1, <2>2, <4>1
      <4>3. AbsBody[p] = IF req[s].undo = None THEN None ELSE req[s].undo.entry.content
        BY <1>0, <4>1, BodyFacts DEF BodyOK
      <4>4. AbsBody'[p] = IF req'[s].undo = None THEN None ELSE req'[s].undo.entry.content
        BY <4>2, BodyFactsNext DEF BodyOK
      <4>5. QED
        BY <4>2, <4>3, <4>4
    <3>3. QED
      BY <3>1, <3>2
  <2>4. AbsBody = [p \in Paths |-> AbsBody[p]] /\ AbsBody' = [p \in Paths |-> AbsBody'[p]]
    BY DEF AbsBody
  <2>5. QED
    BY <2>3, <2>4, Zenon
<1>6. AbsCall = [s \in Requests |-> IF req[s].stage \in Waiting THEN CallOf(req[s]) ELSE None]
  BY CallFacts
<1>7. AbsCall' = [s \in Requests |-> IF req'[s].stage \in Waiting THEN CallOf(req'[s]) ELSE None]
  BY CallFactsNext
<1>8. UNCHANGED Service!gateVars
  BY <1>1, <1>4, <1>5 DEF Service!gateVars
<1>9. CASE Begin(r)
  <2>1. AbsCall[r] = None
    BY <1>6, <1>9 DEF Begin, Waiting
  <2>2. AbsCall' = [AbsCall EXCEPT ![r] = CallOf(q)]
    BY <1>2, <1>3, <1>6, <1>7, <1>9 DEF Waiting
  <2>3. QED
    BY <1>8, <2>1, <2>2, CallType DEF Service!Submit
<1>10. CASE LockAndCheck(r)
  <2>1. AbsCall[r] = CallOf(req[r]) /\ CallOf(req[r]) # None
    BY <1>1, <1>6, <1>10, CallType DEF LockAndCheck, Waiting
  <2>2. CASE q.stage = "idle"
    <3>1. AbsCall' = [AbsCall EXCEPT ![r] = None]
      BY <1>2, <1>3, <1>6, <1>7, <2>2 DEF Waiting
    <3>2. QED
      BY <1>8, <2>1, <3>1 DEF Service!Refuse
  <2>3. CASE q.stage # "idle"
    <3>1. CallOf(req'[r]) = CallOf(req[r]) /\ req'[r].stage \in Waiting /\ req[r].stage \in Waiting
      BY <1>2, <1>3, <1>10, <2>3 DEF Waiting, LockAndCheck
    <3>2. AbsCall' = AbsCall
      BY <1>3, <1>6, <1>7, <3>1
    <3>3. QED
      BY <1>8, <3>2 DEF Service!serviceVars
  <2>4. QED
    BY <2>2, <2>3
<1>11. QED
  BY <1>9, <1>10

\* Every step without a failure is a step of the service or hidden from it.
LEMMA ServiceStep ==
    ASSUME ServerInv, Calm, LockInv', Calm',
           \/ \E r \in Requests : Begin(r) \/ Step(r)
           \/ Prune \/ Tick \/ UNCHANGED vars
    PROVE  [Service!ServiceNext]_(Service!serviceVars)
<1>1. ASSUME NEW r \in Requests, Begin(r) \/ LockAndCheck(r)
      PROVE  [Service!ServiceNext]_(Service!serviceVars)
  BY <1>1, EndsShown DEF Service!ServiceNext
<1>2. ASSUME NEW r \in Requests, ArchiveVersion(r) \/ PutLive(r) \/ TrashLive(r)
      PROVE  [Service!ServiceNext]_(Service!serviceVars)
  BY <1>2, MovesHidden
<1>3. ASSUME NEW r \in Requests, Commit(r) PROVE [Service!ServiceNext]_(Service!serviceVars)
  BY <1>3, CommitServes DEF Service!ServiceNext
<1>4. ASSUME NEW r \in Requests, Undo(r) \/ Rollback(r) PROVE FALSE
  BY <1>4 DEF Undo, Rollback, Calm
<1>5. CASE Prune \/ Tick \/ UNCHANGED vars
  <2>1. rows' = rows /\ rev' = rev /\ live' = live /\ req' = req
    BY <1>5 DEF Prune, Tick, vars
  <2>2. AbsRows' = AbsRows /\ AbsBody' = AbsBody /\ AbsCall' = AbsCall
    BY <2>1 DEF AbsRows, AbsBody, AbsCall, Unsettled
  <2>3. QED
    BY <2>1, <2>2 DEF Service!serviceVars, Service!gateVars
<1>6. QED
  BY <1>1, <1>2, <1>3, <1>4, <1>5 DEF Step

\* "Two devices racing on one path get exactly one 200 and one 409": for any
\* number of concurrent requests, the handlers on rows, lock and blob files
\* implement the service in which a request takes effect in one step, at
\* most once, and only if its parent hash matches at that moment, as long as
\* nothing fails.
THEOREM Implements ==
    ASSUME Faults = {}
    PROVE  Spec => ImplementsService
<1>1. Init => Service!ServiceInit
  <2>1. SUFFICES ASSUME Init PROVE Service!ServiceInit
    OBVIOUS
  <2>2. \A r \in Requests : req[r] = IdleRequest
    BY <2>1 DEF Init
  <2>3. \A r \in Requests : req[r].stage = "idle"
    BY <2>2, IdleType
  <2>4. AbsCall = [r \in Requests |-> None]
    BY <2>3 DEF AbsCall
  <2>5. AbsBody = [p \in Paths |-> None]
    BY <2>1, <2>3 DEF AbsBody, Unsettled, Init
  <2>6. AbsRows = [p \in Paths |-> None]
    BY <2>1 DEF AbsRows, Init
  <2>7. QED
    BY <2>1, <2>4, <2>5, <2>6
    DEF Service!ServiceInit, Service!GateInit, Service!EmptyManifest, Init
<1>2. FullInv => ServerInv /\ LockInv /\ Calm
  <2>1. SUFFICES ASSUME FullInv PROVE ServerInv /\ LockInv /\ Calm
    OBVIOUS
  <2>2. Healthy
    BY <2>1 DEF FullInv, FaultInv, Healthy
  <2>3. QED
    BY <2>1, <2>2 DEF FullInv, CalmInv, ServerInv
<1>3. FullInv /\ FullInv' /\ [Next]_vars => [Service!ServiceNext]_(Service!serviceVars)
  <2>1. SUFFICES ASSUME FullInv, FullInv', [Next]_vars
                 PROVE  [Service!ServiceNext]_(Service!serviceVars)
    OBVIOUS
  <2>2. ServerInv /\ Calm /\ Typed
    BY <1>2, <2>1 DEF ServerInv
  <2>3. Healthy'
    BY <2>1 DEF FullInv, FaultInv, Healthy
  <2>4. LockInv' /\ Calm'
    BY <2>1, <2>3 DEF FullInv, CalmInv, ServerInv
  <2>5. \/ \E r \in Requests : Begin(r) \/ Step(r)
        \/ Prune \/ Tick \/ UNCHANGED vars
    BY <2>1, <2>2, <2>3, HealthyStep
  <2>6. QED
    BY <2>2, <2>4, <2>5, ServiceStep
<1>4. QED
  BY <1>1, <1>3, FullInvariant, PTL DEF Spec, ImplementsService, Service!ServiceSpec

-----------------------------------------------------------------------------
(* History, for one writer at a time                                       *)

\* The failures are counted by one sum.
LEMMA FaultSum ==
    FaultCount = SumOf(faults, FaultKinds) /\ FaultCount' = SumOf(faults', FaultKinds)
<1>1. FaultCount = SumOf(faults, FaultKinds)
  BY Zenon DEF FaultCount, MapThenSumSet, MapThenFoldSet, SumOf, IsSum, Pick
<1>2. FaultCount' = SumOf(faults', FaultKinds)
  BY Zenon DEF FaultCount, MapThenSumSet, MapThenFoldSet, SumOf, IsSum, Pick
<1>3. QED
  BY <1>1, <1>2

LEMMA FiniteKinds == IsFiniteSet(FaultKinds)
<1>1. FaultKinds = {"commit"} \cup {"uncertain"} \cup {"blob"} \cup {"disconnect"} \cup {"crash"}
  BY DEF FaultKinds
<1>2. \A x : IsFiniteSet({x})
  BY FS_Singleton
<1>3. \A S, T : IsFiniteSet(S) /\ IsFiniteSet(T) => IsFiniteSet(S \cup T)
  BY FS_Union
<1>4. QED
  BY <1>1, <1>2, <1>3

\* The sum is a number, is 0 only without failures, and grows with each.
LEMMA FaultNumber ==
    ASSUME TypeOK
    PROVE  FaultCount \in Nat /\ (FaultCount = 0 => Healthy)
<1>1. \A k \in FaultKinds : faults[k] \in Nat
  BY DEF TypeOK
<1>2. SumOf(faults, FaultKinds) \in Nat
  BY <1>1, FiniteKinds, SumNat
<1>3. ASSUME NEW k \in FaultKinds
      PROVE  SumOf(faults, FaultKinds) = faults[k] + SumOf(faults, FaultKinds \ {k})
             /\ SumOf(faults, FaultKinds \ {k}) \in Nat
  <2>1. IsFiniteSet(FaultKinds \ {k})
    BY FiniteKinds, FS_Subset
  <2>2. QED
    BY <1>1, <2>1, FiniteKinds, SumSplit, SumNat
<1>4. FaultCount = SumOf(faults, FaultKinds)
  BY FaultSum
<1>5. ASSUME FaultCount = 0, NEW k \in FaultKinds PROVE faults[k] = 0
  <2>1. PICK a, b, c : /\ a = SumOf(faults, FaultKinds) /\ b = SumOf(faults, FaultKinds \ {k})
                       /\ c = faults[k]
    OBVIOUS
  <2>2. a = 0 /\ b \in Nat /\ c \in Nat /\ a = c + b
    BY <1>1, <1>3, <1>4, <1>5, <2>1
  <2>3. QED
    BY <2>1, <2>2
<1>6. QED
  BY <1>2, <1>4, <1>5 DEF Healthy

LEMMA FaultAdds ==
    ASSUME TypeOK, NEW kind \in FaultKinds, Fault(kind)
    PROVE  FaultCount' = FaultCount + 1
<1>1. /\ \A k \in FaultKinds : faults[k] \in Nat /\ faults'[k] \in Nat
      /\ faults'[kind] = faults[kind] + 1
      /\ \A k \in FaultKinds \ {kind} : faults'[k] = faults[k]
  BY FaultType DEF TypeOK
<1>2. IsFiniteSet(FaultKinds \ {kind})
  BY FiniteKinds, FS_Subset
<1>3. PICK f, g : f = faults /\ g = faults'
  OBVIOUS
<1>4. SumOf(f, FaultKinds \ {kind}) = SumOf(g, FaultKinds \ {kind})
      /\ SumOf(f, FaultKinds \ {kind}) \in Nat
  BY <1>1, <1>2, <1>3, SumSame, SumNat
<1>5. /\ SumOf(f, FaultKinds) = f[kind] + SumOf(f, FaultKinds \ {kind})
      /\ SumOf(g, FaultKinds) = g[kind] + SumOf(g, FaultKinds \ {kind})
  BY <1>1, <1>3, FiniteKinds, SumSplit
<1>6. QED
  BY <1>1, <1>3, <1>4, <1>5, FaultSum

\* A cut to the n newest entries has every entry that, with the entries as new
\* as itself, is one of n.
LEMMA CutKeeps ==
    ASSUME NEW S, IsFiniteSet(S), NEW n \in Nat, NEW K \in NewestCuts(S, n), NEW e \in S,
           \A f \in S : f.ts \in Nat,
           Cardinality({f \in S : f.ts >= e.ts}) <= n
    PROVE  e \in K
<1>1. PICK U : U = {f \in S : f.ts >= e.ts}
  OBVIOUS
<1>2. /\ K \subseteq S /\ IsFiniteSet(K) /\ IsFiniteSet(U)
      /\ Cardinality(K) = IF Cardinality(S) < n THEN Cardinality(S) ELSE n
      /\ \A k \in K, f \in S \ K : k.ts >= f.ts
  BY <1>1, FS_Subset DEF NewestCuts
<1>3. SUFFICES ASSUME e \notin K PROVE FALSE
  OBVIOUS
<1>4. Cardinality(S) \in Nat /\ Cardinality(K) \in Nat /\ Cardinality(U) \in Nat
  BY <1>2, FS_CardinalityType
<1>5. Cardinality(K) # Cardinality(S)
  BY <1>2, <1>3, FS_Subset
<1>6. Cardinality(K) = n
  BY <1>2, <1>4, <1>5
<1>7. K \subseteq U /\ e \in U
  BY <1>1, <1>2, <1>3
<1>8. Cardinality(K) <= Cardinality(U) /\ (Cardinality(K) = Cardinality(U) => K = U)
  BY <1>2, <1>7, FS_Subset
<1>9. QED
  BY <1>1, <1>3, <1>4, <1>6, <1>7, <1>8

\* What the steps of the only writer w do.  Its slot keeps these, unless it is
\* filled or emptied.
SameSlot(w) ==
    /\ req'[w].op = req[w].op /\ req'[w].path = req[w].path
    /\ req'[w].content = req[w].content /\ req'[w].ts = req[w].ts

Still == rows' = rows /\ live' = live /\ history' = history /\ now' = now

OtherFault == \E kind \in FaultKinds \ {"commit"} : Fault(kind)

\* A request arrives in a second of its own,
Arrives(w) ==
    /\ Still /\ faults' = faults /\ req[w].stage = "idle"
    /\ req'[w].stage = "begun" /\ req'[w].ts = now /\ ~req'[w].gone /\ req'[w].undo = None
    /\ \A t \in Tiers, p \in Paths : \A e \in history[t][p] : e.ts # now

\* is let in,
Enters(w) ==
    /\ Still /\ faults' = faults /\ SameSlot(w) /\ req[w].stage = "begun"
    /\ req'[w].stage = "gated" /\ req'[w].cur = rows[req[w].path]
    /\ req'[w].gone = req[w].gone /\ req'[w].undo = req[w].undo

\* is refused or has ended its rollback, or is cut off,
Leaves(w) ==
    /\ Still /\ req'[w] = IdleRequest /\ req[w].stage # "idle"
    /\ (faults' = faults /\ req[w].stage \in {"begun", "undone"}) \/ OtherFault

\* or only its handler is, and the blob task runs on;
Orphans(w) ==
    /\ Still /\ SameSlot(w) /\ OtherFault /\ req[w].stage \in {"gated", "moved"}
    /\ req'[w].stage = req[w].stage /\ req'[w].gone
    /\ req'[w].cur = req[w].cur /\ req'[w].undo = req[w].undo

\* it moves the old file, if there is one, to a tier as e,
Moves(w, tier, e) ==
    /\ rows' = rows /\ now' = now /\ faults' = faults /\ req[w].stage = "gated"
    /\ tier = IF req[w].op = "put" THEN "Versions" ELSE "Trash"
    /\ e = None <=> live[req[w].path] = None
    /\ e # None => e.ts = req[w].ts /\ e.content = live[req[w].path] /\ e \in HistoryEntry
    /\ live' = [live EXCEPT ![req[w].path] = None]
    /\ \A t \in Tiers, p \in Paths :
          history'[t][p] = IF t = tier /\ p = req[w].path /\ e # None
                           THEN history[t][p] \cup {e} ELSE history[t][p]
    /\ \/ tier = "Trash" /\ req[w].gone /\ req'[w] = IdleRequest
       \/ /\ ~(tier = "Trash" /\ req[w].gone) /\ SameSlot(w)
          /\ req'[w].stage = IF tier = "Trash" THEN "placed" ELSE "moved"
          /\ req'[w].gone = req[w].gone /\ req'[w].cur = req[w].cur
          /\ req'[w].undo = None <=> e = None
          /\ e # None => req'[w].undo.tier = tier /\ req'[w].undo.entry = e

\* or has none to move,
Passes(w) ==
    /\ Still /\ faults' = faults /\ SameSlot(w) /\ req[w].stage = "gated" /\ req[w].op = "put"
    /\ ~IsLive(req[w].cur) /\ req'[w].stage = "moved"
    /\ req'[w].gone = req[w].gone /\ req'[w].cur = req[w].cur /\ req'[w].undo = req[w].undo

\* places the new file,
Places(w) ==
    /\ rows' = rows /\ history' = history /\ now' = now /\ faults' = faults
    /\ req[w].stage = "moved" /\ live' = [live EXCEPT ![req[w].path] = req[w].content]
    /\ \/ req[w].gone /\ req'[w] = IdleRequest
       \/ /\ ~req[w].gone /\ SameSlot(w) /\ req'[w].stage = "placed" /\ ~req'[w].gone
          /\ req'[w].cur = req[w].cur /\ req'[w].undo = req[w].undo

\* and commits,
Commits(w) ==
    /\ live' = live /\ history' = history /\ now' = now /\ faults' = faults
    /\ req[w].stage = "placed" /\ req'[w] = IdleRequest
    /\ rows' = [rows EXCEPT ![req[w].path] = NewRow(req[w])]

\* or the commit fails, with or without its effect;
Errs(w) ==
    /\ live' = live /\ history' = history /\ now' = now /\ SameSlot(w)
    /\ req[w].stage = "placed" /\ req'[w].stage = "failed"
    /\ req'[w].gone = req[w].gone /\ req'[w].cur = req[w].cur /\ req'[w].undo = req[w].undo
    /\ \/ Fault("commit") /\ rows' = rows
       \/ Fault("uncertain")

\* it takes the move back, with e or without;
Undoes(w, e) ==
    /\ rows' = rows /\ now' = now /\ faults' = faults /\ req[w].stage = "failed"
    /\ \/ req'[w] = IdleRequest
       \/ /\ SameSlot(w) /\ req'[w].stage = "undone" /\ req'[w].gone = req[w].gone
          /\ req'[w].undo = req[w].undo
    /\ \/ UndoFile(req[w]) = {} /\ live' = [live EXCEPT ![req[w].path] = None] /\ history' = history
       \/ /\ e \in UndoFile(req[w]) /\ live' = [live EXCEPT ![req[w].path] = e.content]
          /\ \A t \in Tiers, p \in Paths :
                history'[t][p] = IF t = req[w].undo.tier /\ p = req[w].path
                                 THEN history[t][p] \ {e} ELSE history[t][p]

\* the retention pass shortens a tier of a path;
Shortens(p) ==
    /\ rows' = rows /\ live' = live /\ req' = req /\ now' = now /\ faults' = faults
    /\ \A t \in Tiers, x \in Paths \ {p} : history'[t][x] = history[t][x]
    /\ \/ /\ history'["Trash"][p] = history["Trash"][p]
          /\ \E kept \in NewestCuts(history["Versions"][p], MAX_VERSIONS_PER_FILE) :
                history'["Versions"][p] = {e \in kept : Age(e) <= VERSION_RETENTION_SECS}
       \/ /\ history'["Versions"][p] = history["Versions"][p]
          /\ history'["Trash"][p] = {e \in history["Trash"][p] : Age(e) <= TRASH_RETENTION_SECS}

\* time passes, or only the lock changes hands.
Waits(w) ==
    /\ rows' = rows /\ live' = live /\ req' = req /\ history' = history /\ faults' = faults
    /\ \/ now' = now
       \/ /\ now' = now + 1
          /\ req[w].stage # "idle" =>
                now < req[w].ts + VERSION_RETENTION_SECS /\ now < req[w].ts + TRASH_RETENTION_SECS

WriterStep(w) ==
    \/ Arrives(w) \/ Enters(w) \/ Leaves(w) \/ Orphans(w) \/ Passes(w) \/ Places(w)
    \/ Commits(w) \/ Errs(w) \/ Waits(w)
    \/ \E tier \in Tiers : \E e : Moves(w, tier, e)
    \/ \E e : Undoes(w, e)
    \/ \E p \in Paths : Shortens(p)

\* One writer, in a second of its own, and a server that keeps versions.
OneByOne(w) == Requests = {w} /\ OneWritePerSecond /\ MAX_VERSIONS_PER_FILE > 0

LEMMA MoveShape ==
    ASSUME Typed, NEW w \in Requests, NEW tier \in Tiers, move_live(w, tier, req[w].path),
           req[w].stage = "gated", UNCHANGED <<rows, now, faults>>,
           tier = IF req[w].op = "put" THEN "Versions" ELSE "Trash"
    PROVE  \E e : /\ Moves(w, tier, e)
                  /\ e # None => e.seq = FreeSeq(history[tier][req[w].path], req[w].ts)
<1>1. PICK q \in Request : q = req[w]
  BY DEF Typed, TypeOK
<1>2. q.path \in Paths /\ q.ts \in Nat
  BY DEF Request
<1>3. PICK e : e = MovedEntry(tier, q.path, q.ts)
  OBVIOUS
<1>4. /\ e \in HistoryEntry \cup {None}
      /\ e = None <=> live[q.path] = None
      /\ live[q.path] # None => e.content = live[q.path]
  BY <1>2, <1>3, EntryType
<1>5. e # None => e.ts = q.ts /\ e.seq = FreeSeq(history[tier][q.path], q.ts)
  BY <1>3 DEF MovedEntry
<1>6. /\ live' = [live EXCEPT ![q.path] = None]
      /\ history' = IF e = None THEN history ELSE [history EXCEPT ![tier][q.path] = @ \cup {e}]
      /\ IF tier = "Trash" /\ q.gone
         THEN req' = [req EXCEPT ![w] = IdleRequest]
         ELSE req' = [req EXCEPT ![w].stage = IF tier = "Trash" THEN "placed" ELSE "moved",
                                 ![w].undo  = IF e = None THEN None ELSE [tier |-> tier, entry |-> e]]
  BY <1>1, <1>3 DEF move_live
<1>7. \A t \in Tiers, p \in Paths :
          history'[t][p] = IF t = tier /\ p = q.path /\ e # None
                           THEN history[t][p] \cup {e} ELSE history[t][p]
  BY <1>2, <1>6 DEF Typed, TypeOK
<1>8. \/ tier = "Trash" /\ q.gone /\ req'[w] = IdleRequest
      \/ /\ ~(tier = "Trash" /\ q.gone) /\ SameSlot(w)
         /\ req'[w].stage = IF tier = "Trash" THEN "placed" ELSE "moved"
         /\ req'[w].gone = q.gone /\ req'[w].cur = q.cur
         /\ req'[w].undo = None <=> e = None
         /\ e # None => req'[w].undo.tier = tier /\ req'[w].undo.entry = e
  <2>1. CASE tier = "Trash" /\ q.gone
    <3>1. req'[w] = IdleRequest
      BY <1>6, <2>1 DEF Typed, TypeOK
    <3>2. QED
      BY <2>1, <3>1
  <2>2. CASE ~(tier = "Trash" /\ q.gone)
    <3>1. PICK undo : undo = IF e = None THEN None ELSE [tier |-> tier, entry |-> e]
      OBVIOUS
    <3>2. req' = [req EXCEPT ![w].stage = IF tier = "Trash" THEN "placed" ELSE "moved",
                             ![w].undo  = undo]
      BY <1>6, <2>2, <3>1
    <3>3. /\ SameSlot(w) /\ req'[w].stage = IF tier = "Trash" THEN "placed" ELSE "moved"
          /\ req'[w].gone = q.gone /\ req'[w].cur = q.cur /\ req'[w].undo = undo
      BY <1>1, <3>2 DEF Typed, TypeOK, Request, SameSlot
    <3>4. undo = None <=> e = None
      <4>1. e # None => undo \in UndoToken
        BY <1>4, <3>1 DEF UndoToken
      <4>2. QED
        BY <3>1, <4>1, RecordAssumption
    <3>5. QED
      BY <2>2, <3>1, <3>3, <3>4
  <2>3. QED
    BY <2>1, <2>2
<1>9. Moves(w, tier, e)
  BY <1>1, <1>4, <1>5, <1>6, <1>7, <1>8 DEF Moves
<1>10. QED
  BY <1>1, <1>5, <1>9

\* The retention pass as a step.
LEMMA PruneShape ==
    ASSUME Typed, Prune
    PROVE  \E p \in Paths : Shortens(p)
<1>1. PICK p \in Paths : prune_versions(p) \/ prune_trash(p)
  BY DEF Prune
<1>2. Shortens(p)
  <2>1. CASE prune_versions(p)
    <3>1. PICK kept \in NewestCuts(history["Versions"][p], MAX_VERSIONS_PER_FILE) :
             history' = [history EXCEPT !["Versions"][p] =
                           {e \in kept : Age(e) <= VERSION_RETENTION_SECS}]
      BY <2>1 DEF prune_versions
    <3>2. /\ \A t \in Tiers, x \in Paths \ {p} : history'[t][x] = history[t][x]
          /\ history'["Trash"][p] = history["Trash"][p]
          /\ history'["Versions"][p] = {e \in kept : Age(e) <= VERSION_RETENTION_SECS}
      BY <3>1 DEF Typed, TypeOK, Tiers
    <3>3. QED
      BY <3>2 DEF Prune, Shortens
  <2>2. CASE prune_trash(p)
    <3>1. history' = [history EXCEPT !["Trash"][p] = {e \in @ : Age(e) <= TRASH_RETENTION_SECS}]
      BY <2>2 DEF prune_trash
    <3>2. /\ \A t \in Tiers, x \in Paths \ {p} : history'[t][x] = history[t][x]
          /\ history'["Versions"][p] = history["Versions"][p]
          /\ history'["Trash"][p] = {e \in history["Trash"][p] : Age(e) <= TRASH_RETENTION_SECS}
      BY <3>1 DEF Typed, TypeOK, Tiers
    <3>3. QED
      BY <3>2 DEF Prune, Shortens
  <2>3. QED
    BY <1>1, <2>1, <2>2
<1>3. QED
  BY <1>2

\* Those are all the steps there are.
LEMMA WriterShape ==
    ASSUME NEW w, OneByOne(w), Typed, [Next]_vars
    PROVE  WriterStep(w)
<1>0. w \in Requests /\ \A r \in Requests : r = w
  BY DEF OneByOne
<1>1. PICK q \in Request : q = req[w]
  BY <1>0 DEF Typed, TypeOK
<1>2. \A z : req' = [req EXCEPT ![w] = z] => req'[w] = z
  BY <1>0 DEF Typed, TypeOK
<1>3. q.path \in Paths /\ q.ts \in Nat /\ IdleRequest.stage = "idle"
  BY IdleType DEF Request
<1>4. {"commit", "uncertain", "blob", "disconnect", "crash"} \subseteq FaultKinds
  BY DEF FaultKinds
<1>5. CASE Begin(w)
  <2>0. PICK op \in {"put", "delete"}, p \in Paths, c \in Contents, parent \in Hashes \cup {NoHash} :
           req' = [req EXCEPT ![w] =
                     [stage |-> "begun", op |-> op, path |-> p, parent |-> parent,
                      content |-> c, ts |-> now, cur |-> None, gone |-> FALSE,
                      undo |-> None]]
    BY <1>5 DEF Begin
  <2>1. PICK z : z = [stage |-> "begun", op |-> op, path |-> p, parent |-> parent, content |-> c,
                      ts |-> now, cur |-> None, gone |-> FALSE, undo |-> None]
    OBVIOUS
  <2>a. req'[w] = z /\ z.stage = "begun" /\ z.ts = now /\ ~z.gone /\ z.undo = None
    BY <1>2, <2>0, <2>1
  <2>2. \A t \in Tiers, x \in Paths : \A e \in history[t][x] : e.ts # now
    BY <1>5 DEF Begin, OneByOne
  <2>3. Arrives(w)
    BY <1>5, <2>a, <2>2 DEF Begin, Arrives, Still
  <2>4. QED
    BY <2>3 DEF WriterStep
<1>6. CASE LockAndCheck(w)
  <2>1. CASE verdict(req[w]) = "accept"
    <3>1. req' = [req EXCEPT ![w].stage = "gated", ![w].cur = rows[q.path]] /\ q.stage = "begun"
      BY <1>1, <1>6, <2>1 DEF LockAndCheck
    <3>2. /\ SameSlot(w) /\ req'[w].stage = "gated" /\ req'[w].cur = rows[q.path]
          /\ req'[w].gone = q.gone /\ req'[w].undo = q.undo
      BY <1>0, <1>1, <3>1 DEF Typed, TypeOK, Request, SameSlot
    <3>3. Enters(w)
      BY <1>1, <1>6, <3>1, <3>2 DEF LockAndCheck, Enters, Still
    <3>4. QED
      BY <3>3 DEF WriterStep
  <2>2. CASE verdict(req[w]) # "accept"
    <3>1. req'[w] = IdleRequest /\ q.stage = "begun"
      BY <1>1, <1>2, <1>6, <2>2 DEF LockAndCheck
    <3>2. Leaves(w)
      BY <1>1, <1>6, <3>1 DEF LockAndCheck, Leaves, Still
    <3>3. QED
      BY <3>2 DEF WriterStep
  <2>3. QED
    BY <2>1, <2>2
<1>7. CASE ArchiveVersion(w)
  <2>1. CASE IsLive(req[w].cur)
    <3>1. \E e : Moves(w, "Versions", e)
      BY <1>0, <1>7, <2>1, MoveShape DEF ArchiveVersion, Tiers
    <3>2. QED
      BY <3>1 DEF WriterStep, Tiers
  <2>2. CASE ~IsLive(req[w].cur)
    <3>1. req' = [req EXCEPT ![w].stage = "moved"] /\ q.stage = "gated"
      BY <1>1, <1>7, <2>2 DEF ArchiveVersion
    <3>2. /\ SameSlot(w) /\ req'[w].stage = "moved"
          /\ req'[w].gone = q.gone /\ req'[w].cur = q.cur /\ req'[w].undo = q.undo
      BY <1>0, <1>1, <3>1 DEF Typed, TypeOK, Request, SameSlot
    <3>3. Passes(w)
      BY <1>1, <1>7, <2>2, <3>2 DEF ArchiveVersion, Passes, Still
    <3>4. QED
      BY <3>3 DEF WriterStep
  <2>3. QED
    BY <2>1, <2>2
<1>8. CASE PutLive(w)
  <2>1. CASE q.gone
    <3>1. req'[w] = IdleRequest
      BY <1>0, <1>1, <1>8, <2>1 DEF PutLive, Typed, TypeOK
    <3>2. Places(w)
      BY <1>1, <1>8, <2>1, <3>1 DEF PutLive, Places
    <3>3. QED
      BY <3>2 DEF WriterStep
  <2>2. CASE ~q.gone
    <3>1. req'[w] = [q EXCEPT !.stage = "placed"]
      BY <1>0, <1>1, <1>8, <2>2 DEF PutLive, Typed, TypeOK
    <3>2. /\ SameSlot(w) /\ req'[w].stage = "placed" /\ ~req'[w].gone
          /\ req'[w].cur = q.cur /\ req'[w].undo = q.undo
      BY <1>1, <2>2, <3>1 DEF Request, SameSlot
    <3>3. Places(w)
      BY <1>1, <1>8, <2>2, <3>2 DEF PutLive, Places
    <3>4. QED
      BY <3>3 DEF WriterStep
  <2>3. QED
    BY <2>1, <2>2
<1>9. CASE TrashLive(w)
  <2>1. \E e : Moves(w, "Trash", e)
    BY <1>0, <1>9, MoveShape DEF TrashLive, Tiers
  <2>2. QED
    BY <2>1 DEF WriterStep, Tiers
<1>10. CASE Commit(w)
  <2>1. Commits(w)
    BY <1>2, <1>10 DEF Commit, WriteRow, Commits
  <2>2. QED
    BY <2>1 DEF WriterStep
<1>11. CASE Undo(w)
  <2>1. PICK z : /\ req' = [req EXCEPT ![w] = z]
                 /\ z = IdleRequest \/ z = [q EXCEPT !.stage = "undone"]
    BY <1>1, <1>11 DEF Undo
  <2>2. \/ req'[w] = IdleRequest
        \/ /\ SameSlot(w) /\ req'[w].stage = "undone" /\ req'[w].gone = q.gone
           /\ req'[w].undo = q.undo
    <3>1. req'[w] = z
      BY <1>2, <2>1
    <3>2. CASE z = [q EXCEPT !.stage = "undone"]
      <4>1. /\ z.op = q.op /\ z.path = q.path /\ z.content = q.content /\ z.ts = q.ts
            /\ z.stage = "undone" /\ z.gone = q.gone /\ z.undo = q.undo
        BY <3>2 DEF Request
      <4>2. QED
        BY <1>1, <3>1, <4>1 DEF SameSlot
    <3>3. QED
      BY <2>1, <3>1, <3>2
  <2>3. CASE UndoFile(q) = {} /\ live' = [live EXCEPT ![q.path] = None] /\ history' = history
    <3>1. Undoes(w, None)
      BY <1>1, <1>11, <2>2, <2>3 DEF Undo, Undoes
    <3>2. QED
      BY <3>1 DEF WriterStep
  <2>4. ASSUME NEW e \in UndoFile(q), live' = [live EXCEPT ![q.path] = e.content],
               history' = [history EXCEPT ![q.undo.tier][q.path] = @ \ {e}]
        PROVE  WriterStep(w)
    <3>1. q.undo \in UndoToken
      BY <2>4 DEF UndoFile, Request
    <3>2. q.undo.tier \in Tiers
      BY <3>1 DEF UndoToken
    <3>3. \A t \in Tiers, p \in Paths :
             history'[t][p] = IF t = q.undo.tier /\ p = q.path
                              THEN history[t][p] \ {e} ELSE history[t][p]
      BY <1>3, <2>4, <3>2 DEF Typed, TypeOK
    <3>4. q.stage = "failed" /\ rows' = rows /\ now' = now /\ faults' = faults
      BY <1>1, <1>11 DEF Undo
    <3>5. Undoes(w, e)
      BY <1>1, <2>2, <2>4, <3>3, <3>4 DEF Undoes
    <3>6. QED
      BY <3>5 DEF WriterStep
  <2>5. QED
    BY <1>1, <1>11, <2>3, <2>4 DEF Undo
<1>12. CASE Rollback(w)
  <2>1. CASE q.stage = "undone"
    <3>1. req'[w] = IdleRequest
      BY <1>1, <1>2, <1>12, <2>1 DEF Rollback
    <3>2. Leaves(w)
      BY <1>1, <1>12, <2>1, <3>1 DEF Rollback, Leaves, Still
    <3>3. QED
      BY <3>2 DEF WriterStep
  <2>2. CASE q.stage # "undone"
    <3>1. Waits(w)
      BY <1>1, <1>12, <2>2 DEF Rollback, Waits
    <3>2. QED
      BY <3>1 DEF WriterStep
  <2>3. QED
    BY <2>1, <2>2
<1>13. CASE CommitFails(w)
  <2>1. req' = [req EXCEPT ![w].stage = "failed"] /\ q.stage = "placed"
    BY <1>1, <1>13 DEF CommitFails
  <2>2. /\ SameSlot(w) /\ req'[w].stage = "failed"
        /\ req'[w].gone = q.gone /\ req'[w].cur = q.cur /\ req'[w].undo = q.undo
    BY <1>0, <1>1, <2>1 DEF Typed, TypeOK, Request, SameSlot
  <2>3. Errs(w)
    BY <1>1, <1>13, <2>1, <2>2 DEF CommitFails, Errs
  <2>4. QED
    BY <2>3 DEF WriterStep
<1>14. CASE PutLiveFails(w) \/ Crash
  <2>1. req'[w] = IdleRequest
    BY <1>0, <1>2, <1>14 DEF PutLiveFails, Crash
  <2>2. req[w].stage # "idle" /\ OtherFault
    BY <1>0, <1>4, <1>14 DEF PutLiveFails, Crash, OtherFault
  <2>3. Leaves(w)
    BY <1>14, <2>1, <2>2 DEF PutLiveFails, Crash, Leaves, Still
  <2>4. QED
    BY <2>3 DEF WriterStep
<1>15. CASE Disconnect(w)
  <2>1. OtherFault /\ Still /\ q.stage # "idle"
    BY <1>1, <1>4, <1>15 DEF Disconnect, OtherFault, Still
  <2>2. CASE q.stage \in {"gated", "moved"}
    <3>1. req'[w] = [q EXCEPT !.gone = TRUE]
      BY <1>0, <1>1, <1>15, <2>2 DEF Disconnect, Typed, TypeOK
    <3>2. /\ SameSlot(w) /\ req'[w].stage = q.stage /\ req'[w].gone
          /\ req'[w].cur = q.cur /\ req'[w].undo = q.undo
      BY <1>1, <3>1 DEF Request, SameSlot
    <3>3. Orphans(w)
      BY <1>1, <2>1, <2>2, <3>2 DEF Orphans
    <3>4. QED
      BY <3>3 DEF WriterStep
  <2>3. CASE q.stage \notin {"gated", "moved"}
    <3>1. req'[w] = IdleRequest
      BY <1>0, <1>1, <1>15, <2>3 DEF Disconnect, Typed, TypeOK
    <3>2. Leaves(w)
      BY <1>1, <2>1, <3>1 DEF Leaves
    <3>3. QED
      BY <3>2 DEF WriterStep
  <2>4. QED
    BY <2>2, <2>3
<1>16. CASE Prune
  BY <1>0, <1>16, PruneShape DEF WriterStep
<1>17. CASE Tick
  <2>1. PICK m : m = Min({VERSION_RETENTION_SECS, TRASH_RETENTION_SECS})
    OBVIOUS
  <2>2. /\ m \in Nat /\ m <= VERSION_RETENTION_SECS /\ m <= TRASH_RETENTION_SECS
        /\ VERSION_RETENTION_SECS \in Nat /\ TRASH_RETENTION_SECS \in Nat
    BY <2>1, MinOfNats, ServerAssumption
  <2>3. now \in Nat /\ (q.stage # "idle" => now < q.ts + m)
    BY <1>0, <1>1, <1>17, <2>1 DEF Tick, Typed, TypeOK
  <2>4. q.stage # "idle" =>
           now < q.ts + VERSION_RETENTION_SECS /\ now < q.ts + TRASH_RETENTION_SECS
    BY <1>3, <2>2, <2>3
  <2>5. Waits(w)
    BY <1>1, <1>17, <2>4 DEF Tick, Waits
  <2>6. QED
    BY <2>5 DEF WriterStep
<1>18. CASE UNCHANGED vars
  <2>1. Waits(w)
    BY <1>18 DEF vars, Waits
  <2>2. QED
    BY <2>1 DEF WriterStep
<1> HIDE DEF WriterStep
<1>19. QED
  BY <1>0, <1>5, <1>6, <1>7, <1>8, <1>9, <1>10, <1>11, <1>12, <1>13, <1>14, <1>15, <1>16, <1>17, <1>18
     DEF Next, Step

\* The entry that a request has archived.
Own(w, t, p, e) ==
    req[w].undo # None /\ t = req[w].undo.tier /\ p = req[w].path /\ e = req[w].undo.entry

\* The history is of the past.  A request is younger than all of it but its own
\* entry, which stays where it is until the request has ended or taken it back.
Past(w) ==
    /\ \A t \in Tiers, p \in Paths : \A e \in history[t][p] : e.ts <= now
    /\ req[w].stage \in {"begun", "gated"} => req[w].undo = None
    /\ req[w].stage # "idle" =>
          /\ req[w].ts <= now
          /\ now <= req[w].ts + VERSION_RETENTION_SECS
          /\ now <= req[w].ts + TRASH_RETENTION_SECS
          /\ \A t \in Tiers, p \in Paths : \A e \in history[t][p] :
                e.ts < req[w].ts \/ Own(w, t, p, e)
          /\ req[w].undo # None =>
                /\ req[w].undo.entry.ts = req[w].ts
                /\ req[w].stage # "undone" =>
                      req[w].undo.entry \in history[req[w].undo.tier][req[w].path]

\* The retention pass drops entries, never that of a request.
LEMMA ShortensKeeps ==
    ASSUME NEW w, OneByOne(w), Typed, Past(w), NEW p \in Paths, Shortens(p)
    PROVE  /\ \A t \in Tiers, x \in Paths : history'[t][x] \subseteq history[t][x]
           /\ req[w].stage # "idle" => \A t \in Tiers, x \in Paths : \A e \in history[t][x] :
                 Own(w, t, x, e) => e \in history'[t][x]
<1>0. /\ w \in Requests /\ now \in Nat /\ MAX_VERSIONS_PER_FILE \in Nat /\ MAX_VERSIONS_PER_FILE >= 1
      /\ VERSION_RETENTION_SECS \in Nat /\ TRASH_RETENTION_SECS \in Nat /\ req[w].ts \in Nat
  BY ServerAssumption DEF OneByOne, Typed, TypeOK, Request
<1>1. \A t \in Tiers, x \in Paths : \A e \in history[t][x] : e.ts \in Nat
  BY DEF Typed, TypeOK, HistoryEntry
<1>2. \A t \in Tiers : t = "Versions" \/ t = "Trash"
  BY DEF Tiers
<1>3. \A t \in Tiers, x \in Paths : history'[t][x] \subseteq history[t][x]
  BY <1>2 DEF Shortens, NewestCuts
<1>4. ASSUME req[w].stage # "idle", NEW t \in Tiers, NEW e \in history[t][p], Own(w, t, p, e)
      PROVE  e \in history'[t][p]
  <2>1. e.ts = req[w].ts
    BY <1>4 DEF Past, Own
  <2>2. Age(e) <= VERSION_RETENTION_SECS /\ Age(e) <= TRASH_RETENTION_SECS
    BY <1>0, <1>4, <2>1 DEF Past, Age
  <2>3. CASE /\ history'["Versions"][p] = history["Versions"][p]
             /\ history'["Trash"][p] = {f \in history["Trash"][p] : Age(f) <= TRASH_RETENTION_SECS}
    BY <1>2, <2>2, <2>3
  <2>4. ASSUME NEW kept \in NewestCuts(history["Versions"][p], MAX_VERSIONS_PER_FILE),
               history'["Versions"][p] = {f \in kept : Age(f) <= VERSION_RETENTION_SECS},
               history'["Trash"][p] = history["Trash"][p]
        PROVE  e \in history'[t][p]
    <3>1. CASE t = "Versions"
      <4>1. PICK S : S = history["Versions"][p]
        OBVIOUS
      <4>2. IsFiniteSet(S) /\ e \in S /\ \A f \in S : f.ts \in Nat
        BY <1>1, <3>1, <4>1 DEF Typed, HistoryFinite
      <4>3. \A f \in S : f.ts < e.ts \/ f = e
        BY <1>4, <2>1, <3>1, <4>1 DEF Past, Own
      <4>4. {f \in S : f.ts >= e.ts} = {e}
        BY <4>2, <4>3
      <4>5. Cardinality({f \in S : f.ts >= e.ts}) <= MAX_VERSIONS_PER_FILE
        BY <1>0, <4>4, FS_Singleton
      <4>6. e \in kept
        BY <1>0, <2>4, <4>1, <4>2, <4>5, CutKeeps
      <4>7. QED
        BY <2>2, <2>4, <3>1, <4>6
    <3>2. CASE t = "Trash"
      BY <2>4, <3>2
    <3>3. QED
      BY <1>2, <3>1, <3>2
  <2>5. QED
    BY <2>3, <2>4 DEF Shortens
<1>5. QED
  BY <1>3, <1>4 DEF Shortens

LEMMA PastStep ==
    ASSUME NEW w, OneByOne(w), Typed, Past(w), WriterStep(w)
    PROVE  Past(w)'
<1>0. /\ w \in Requests /\ now \in Nat /\ req[w].ts \in Nat /\ req[w].path \in Paths
      /\ VERSION_RETENTION_SECS \in Nat /\ TRASH_RETENTION_SECS \in Nat
      /\ req[w].undo \in UndoToken \cup {None}
  BY ServerAssumption DEF OneByOne, Typed, TypeOK, Request
<1>1. \A t \in Tiers, x \in Paths : \A e \in history[t][x] : e.ts \in Nat
  BY DEF Typed, TypeOK, HistoryEntry
<1>2. IdleRequest.stage = "idle"
  BY IdleType
<1>3. CASE Arrives(w)
  BY <1>0, <1>1, <1>3 DEF Arrives, Still, Past, Own
<1>4. CASE Enters(w)
  BY <1>4 DEF Enters, Still, SameSlot, Past, Own
<1>5. CASE Leaves(w)
  BY <1>2, <1>5 DEF Leaves, Still, Past
<1>6. CASE Orphans(w)
  BY <1>6 DEF Orphans, Still, SameSlot, Past, Own
<1>7. CASE Passes(w)
  BY <1>7 DEF Passes, Still, SameSlot, Past, Own
<1>8. CASE Places(w)
  BY <1>2, <1>8 DEF Places, SameSlot, Past, Own
<1>9. CASE Commits(w)
  BY <1>2, <1>9 DEF Commits, Past
<1>10. CASE Errs(w)
  BY <1>10 DEF Errs, SameSlot, Past, Own
<1>11. CASE Waits(w)
  BY <1>0, <1>1, <1>11 DEF Waits, Past, Own
<1>12. ASSUME NEW tier \in Tiers, NEW e, Moves(w, tier, e) PROVE Past(w)'
  <2>1. \A t \in Tiers, x \in Paths : \A f \in history[t][x] : f.ts < req[w].ts
    BY <1>12 DEF Moves, Past, Own
  <2>2. \A t \in Tiers, x \in Paths : \A f \in history'[t][x] :
           \/ f \in history[t][x]
           \/ f = e /\ e # None /\ t = tier /\ x = req[w].path /\ f.ts = req[w].ts
    <3>1. \A t \in Tiers, x \in Paths :
             history'[t][x] = IF t = tier /\ x = req[w].path /\ e # None
                              THEN history[t][x] \cup {e} ELSE history[t][x]
      BY <1>12 DEF Moves
    <3>2. e # None => e.ts = req[w].ts
      BY <1>12 DEF Moves
    <3>3. QED
      BY <3>1, <3>2
  <2>3. /\ now' = now /\ req[w].stage = "gated" /\ req[w].ts <= now
        /\ e # None => e \in history'[tier][req[w].path] /\ e.ts = req[w].ts
    BY <1>0, <1>12 DEF Moves, Past
  <2>4. ASSUME NEW t \in Tiers, NEW x \in Paths, NEW f \in history'[t][x] PROVE f.ts <= now'
    <3>1. CASE f \in history[t][x]
      BY <2>3, <3>1 DEF Past
    <3>2. CASE f.ts = req[w].ts
      BY <2>3, <3>2
    <3>3. QED
      BY <2>2, <3>1, <3>2
  <2>5. CASE req'[w] = IdleRequest
    BY <1>2, <2>4, <2>5 DEF Past
  <2>6. CASE /\ SameSlot(w) /\ req'[w].stage = IF tier = "Trash" THEN "placed" ELSE "moved"
             /\ req'[w].undo = None <=> e = None
             /\ e # None => req'[w].undo.tier = tier /\ req'[w].undo.entry = e
    <3>1. /\ req'[w].ts = req[w].ts /\ req'[w].path = req[w].path
          /\ req'[w].stage \notin {"idle", "begun", "gated", "undone"}
      BY <2>6 DEF SameSlot
    <3>2. ASSUME NEW t \in Tiers, NEW x \in Paths, NEW f \in history'[t][x]
          PROVE  f.ts < req'[w].ts \/ Own(w, t, x, f)'
      BY <2>1, <2>2, <2>6, <3>1 DEF Own
    <3>3. req'[w].undo # None =>
             /\ req'[w].undo.entry.ts = req'[w].ts
             /\ req'[w].undo.entry \in history'[req'[w].undo.tier][req'[w].path]
      BY <2>3, <2>6, <3>1
    <3>4. QED
      BY <2>3, <2>4, <3>1, <3>2, <3>3 DEF Past
  <2>7. QED
    BY <1>12, <2>5, <2>6 DEF Moves
<1>13. ASSUME NEW e, Undoes(w, e) PROVE Past(w)'
  <2>1. \A t \in Tiers, x \in Paths : history'[t][x] \subseteq history[t][x]
    BY <1>13 DEF Undoes
  <2>2. now' = now /\ req[w].stage = "failed"
    BY <1>13 DEF Undoes
  <2>3. CASE req'[w] = IdleRequest
    BY <1>2, <2>1, <2>2, <2>3 DEF Past
  <2>4. CASE SameSlot(w) /\ req'[w].stage = "undone" /\ req'[w].undo = req[w].undo
    BY <2>1, <2>2, <2>4 DEF Past, SameSlot, Own
  <2>5. QED
    BY <1>13, <2>3, <2>4 DEF Undoes
<1>14. ASSUME NEW p \in Paths, Shortens(p) PROVE Past(w)'
  <2>1. /\ \A t \in Tiers, x \in Paths : history'[t][x] \subseteq history[t][x]
        /\ req[w].stage # "idle" => \A t \in Tiers, x \in Paths : \A e \in history[t][x] :
              Own(w, t, x, e) => e \in history'[t][x]
    BY <1>14, ShortensKeeps
  <2>2. now' = now /\ req' = req
    BY <1>14 DEF Shortens
  <2>3. req[w].undo # None => req[w].undo.tier \in Tiers
    BY <1>0 DEF UndoToken
  <2>4. req[w].stage \notin {"idle", "undone"} /\ req[w].undo # None =>
           req[w].undo.entry \in history'[req[w].undo.tier][req[w].path]
    BY <1>0, <2>1, <2>3 DEF Past, Own
  <2>5. QED
    BY <2>1, <2>2, <2>4 DEF Past, Own
<1>15. QED
  BY <1>3, <1>4, <1>5, <1>6, <1>7, <1>8, <1>9, <1>10, <1>11, <1>12, <1>13, <1>14 DEF WriterStep

\* Failures are counted and never taken back.
LEMMA FaultsGrow ==
    ASSUME NEW w, OneByOne(w), Typed, WriterStep(w)
    PROVE  /\ FaultCount \in Nat /\ FaultCount' \in Nat
           /\ \/ faults' = faults /\ FaultCount' = FaultCount
              \/ (\E kind \in FaultKinds : Fault(kind)) /\ FaultCount' = FaultCount + 1
<1>1. faults' = faults => FaultCount' = FaultCount
  BY FaultSum
<1>2. \A kind \in FaultKinds : Fault(kind) => FaultCount' = FaultCount + 1
  BY FaultAdds DEF Typed
<1>3. FaultCount \in Nat
  BY FaultNumber DEF Typed
<1>4. {"commit", "uncertain"} \subseteq FaultKinds
  BY DEF FaultKinds
<1>5. faults' = faults \/ \E kind \in FaultKinds : Fault(kind)
  BY <1>4 DEF WriterStep, Arrives, Enters, Leaves, Orphans, Passes, Places, Commits, Errs, Waits,
              Moves, Undoes, Shortens, OtherFault
<1>6. QED
  BY <1>1, <1>2, <1>3, <1>5

\* The request works on the row and the file that it has read and moved; a
\* handler is gone only after a failure.
Placing(w) ==
    /\ req[w].stage \in {"gated", "moved", "placed"} => req[w].cur = rows[req[w].path]
    /\ req[w].stage = "moved" /\ IsLive(rows[req[w].path]) => live[req[w].path] = None
    /\ req[w].stage = "placed" =>
          live[req[w].path] = IF req[w].op = "put" THEN req[w].content ELSE None
    /\ req[w].undo # None => req[w].undo.tier = IF req[w].op = "put" THEN "Versions" ELSE "Trash"
    /\ req[w].gone => FaultCount > 0

LEMMA PlacingStep ==
    ASSUME NEW w, OneByOne(w), Typed, StageInv, Placing(w), WriterStep(w)
    PROVE  Placing(w)'
<1>0. /\ w \in Requests /\ req[w].path \in Paths /\ FaultCount \in Nat /\ FaultCount' \in Nat
      /\ FaultCount' = FaultCount \/ FaultCount' = FaultCount + 1
      /\ live \in [Paths -> Contents \cup {None}] /\ rows \in [Paths -> Row \cup {None}]
      /\ IdleRequest.stage = "idle" /\ ~IdleRequest.gone /\ IdleRequest.undo = None
      /\ req[w].stage = "moved" => req[w].op = "put"
      /\ req[w].op \in {"put", "delete"}
  BY FaultsGrow, IdleType DEF OneByOne, Typed, TypeOK, Request, StageInv, IdleRequest
<1>1. FaultCount > 0 => FaultCount' > 0
  BY <1>0
<1>2. CASE req'[w] = IdleRequest
  BY <1>0, <1>2 DEF Placing
<1>3. CASE Arrives(w)
  BY <1>3 DEF Arrives, Placing
<1>4. CASE Enters(w)
  BY <1>1, <1>4 DEF Enters, Still, SameSlot, Placing
<1>5. CASE Orphans(w)
  <2>1. FaultCount' = FaultCount + 1
    <3>1. PICK kind \in FaultKinds : Fault(kind)
      BY <1>5 DEF Orphans, OtherFault
    <3>2. QED
      BY <3>1, FaultAdds DEF Typed
  <2>2. FaultCount' > 0
    BY <1>0, <2>1
  <2>3. QED
    BY <1>5, <2>2 DEF Orphans, Still, SameSlot, Placing
<1>6. CASE Passes(w)
  BY <1>1, <1>6 DEF Passes, Still, SameSlot, Placing
<1>7. CASE Places(w) /\ req'[w] # IdleRequest
  BY <1>0, <1>7 DEF Places, SameSlot, Placing
<1>8. CASE Errs(w)
  BY <1>1, <1>8 DEF Errs, SameSlot, Placing
<1>9. CASE Waits(w)
  <2>1. FaultCount' = FaultCount
    BY <1>9, FaultSum DEF Waits
  <2>2. QED
    BY <1>9, <2>1 DEF Waits, Placing
<1>10. ASSUME NEW tier \in Tiers, NEW e, Moves(w, tier, e), req'[w] # IdleRequest PROVE Placing(w)'
  <2>1. /\ SameSlot(w) /\ req'[w].stage = (IF tier = "Trash" THEN "placed" ELSE "moved")
        /\ req'[w].gone = req[w].gone /\ req'[w].cur = req[w].cur /\ rows' = rows
        /\ req[w].stage = "gated" /\ live'[req[w].path] = None
        /\ tier = IF req[w].op = "put" THEN "Versions" ELSE "Trash"
        /\ req'[w].undo # None => req'[w].undo.tier = tier
    BY <1>0, <1>10 DEF Moves
  <2>2. QED
    BY <1>1, <2>1 DEF SameSlot, Placing
<1>11. ASSUME NEW e, Undoes(w, e), req'[w] # IdleRequest PROVE Placing(w)'
  BY <1>1, <1>11 DEF Undoes, SameSlot, Placing
<1>12. ASSUME NEW p \in Paths, Shortens(p) PROVE Placing(w)'
  <2>1. FaultCount' = FaultCount
    BY <1>12, FaultSum DEF Shortens
  <2>2. QED
    BY <1>12, <2>1 DEF Shortens, Placing
<1>13. QED
  BY <1>2, <1>3, <1>4, <1>5, <1>6, <1>7, <1>8, <1>9, <1>10, <1>11, <1>12
     DEF WriterStep, Leaves, Commits

\* A commit or its failure is the only failure, before and after.
LEMMA OnlyCommits ==
    ASSUME NEW w, OneByOne(w), Typed, WriterStep(w), OnlyCommitsFailed'
    PROVE  OnlyCommitsFailed /\ ~OtherFault /\ ~Fault("uncertain")
<1>1. ASSUME NEW kind \in FaultKinds \ {"commit"}, Fault(kind) PROVE FALSE
  <2>1. faults'[kind] = faults[kind] + 1 /\ faults[kind] \in Nat /\ faults'[kind] = 0
    BY <1>1, FaultType DEF OnlyCommitsFailed, Typed, TypeOK
  <2>2. QED
    BY <2>1
<1>2. ~OtherFault /\ ~Fault("uncertain")
  BY <1>1 DEF OtherFault, FaultKinds
<1>3. CASE faults' = faults
  BY <1>2, <1>3 DEF OnlyCommitsFailed
<1>4. CASE \E kind \in FaultKinds : Fault(kind)
  <2>1. PICK kind \in FaultKinds : Fault(kind)
    BY <1>4
  <2>2. kind = "commit"
    BY <1>1, <2>1
  <2>3. \A k \in FaultKinds \ {"commit"} : faults'[k] = faults[k]
    BY <2>1, <2>2, FaultType DEF Typed
  <2>4. QED
    BY <1>2, <2>3 DEF OnlyCommitsFailed
<1>5. QED
  BY <1>3, <1>4, FaultsGrow

\* While at most commits have failed: the move of a request in progress has put
\* aside the content of the live row, and all other paths agree with their rows.
Clean(w) ==
    OnlyCommitsFailed =>
        /\ ~req[w].gone
        /\ req[w].stage \in {"moved", "placed", "failed"} =>
              IF req[w].undo = None THEN ~IsLive(rows[req[w].path])
              ELSE /\ IsLive(rows[req[w].path])
                   /\ HashOf[req[w].undo.entry.content] = rows[req[w].path].hash
        /\ req[w].stage = "moved" => live[req[w].path] = None
        /\ \A p \in Paths : ~Unsettled(w, p) => Agree(p)

\* What undo puts back is the request's own entry.
LEMMA UndoOwn ==
    ASSUME NEW w, OneByOne(w), Typed, Past(w), req[w].stage = "failed"
    PROVE  /\ UndoFile(req[w]) = {} => req[w].undo = None
           /\ \A e \in UndoFile(req[w]) : /\ req[w].undo # None /\ e = req[w].undo.entry
                                          /\ e \in HistoryEntry
                                          /\ e \in history[req[w].undo.tier][req[w].path]
<1>0. w \in Requests /\ req[w].ts \in Nat /\ req[w].path \in Paths /\ req[w].undo \in UndoToken \cup {None}
  BY DEF OneByOne, Typed, TypeOK, Request
<1>1. req[w].undo # None => req[w].undo.tier \in Tiers
  BY <1>0 DEF UndoToken
<1>2. req[w].undo # None => req[w].undo.entry \in UndoFile(req[w])
  BY DEF UndoFile, Past
<1>3. ASSUME NEW e \in UndoFile(req[w])
      PROVE  /\ req[w].undo # None /\ e = req[w].undo.entry /\ e \in HistoryEntry
             /\ e \in history[req[w].undo.tier][req[w].path]
  <2>1. req[w].undo # None /\ e \in history[req[w].undo.tier][req[w].path] /\ e.ts = req[w].ts
    BY DEF UndoFile, Past
  <2>2. e \in HistoryEntry
    BY <1>0, <1>1, <2>1 DEF Typed, TypeOK
  <2>3. e = req[w].undo.entry
    BY <1>0, <1>1, <2>1 DEF Past, Own
  <2>4. QED
    BY <2>1, <2>2, <2>3
<1>4. QED
  BY <1>2, <1>3

\* A row that a commit writes agrees with the file that was placed.
LEMMA CommitsAgree ==
    ASSUME NEW w, OneByOne(w), Typed, Placing(w), Commits(w), NEW x \in Paths, x = req[w].path
    PROVE  /\ Agree(x)' /\ rows'[x] = NewRow(req[w]) /\ NewRow(req[w]) \in Row
           /\ \A p \in Paths \ {x} : rows'[p] = rows[p]
<1>1. PICK q \in Request : q = req[w] /\ w \in Requests
  BY DEF OneByOne, Typed, TypeOK
<1>2. PICK row \in Row : row = NewRow(q)
  BY RowType
<1>3. rows'[x] = row /\ \A p \in Paths \ {x} : rows'[p] = rows[p]
  BY <1>1, <1>2 DEF Commits, Typed, TypeOK
<1>4. live'[x] = IF q.op = "put" THEN q.content ELSE None
  BY <1>1 DEF Commits, Placing
<1>5. q.content \in Contents /\ None \notin Contents
  BY ServerAssumption DEF Request
<1>6. row.deleted = (q.op # "put") /\ (q.op = "put" => row.hash = HashOf[q.content])
  BY <1>2, RowType
<1>7. IsLive(row) <=> ~row.deleted
  BY LiveRow
<1>8. QED
  BY <1>1, <1>2, <1>3, <1>4, <1>5, <1>6, <1>7 DEF Agree

LEMMA CleanStep ==
    ASSUME NEW w, OneByOne(w), Typed, StageInv, Past(w), Placing(w), Clean(w), WriterStep(w)
    PROVE  Clean(w)'
<1> SUFFICES ASSUME OnlyCommitsFailed'
             PROVE  /\ ~req'[w].gone
                    /\ req'[w].stage \in {"moved", "placed", "failed"} =>
                          IF req'[w].undo = None THEN ~IsLive(rows'[req'[w].path])
                          ELSE /\ IsLive(rows'[req'[w].path])
                               /\ HashOf[req'[w].undo.entry.content] = rows'[req'[w].path].hash
                    /\ req'[w].stage = "moved" => live'[req'[w].path] = None
                    /\ \A p \in Paths : ~Unsettled(w, p)' => Agree(p)'
  BY DEF Clean
<1>0. /\ w \in Requests /\ req[w].path \in Paths
      /\ live \in [Paths -> Contents \cup {None}] /\ rows \in [Paths -> Row \cup {None}]
      /\ IdleRequest.stage = "idle" /\ ~IdleRequest.gone
      /\ req[w].op \in {"put", "delete"} /\ None \notin Contents
  BY IdleType, ServerAssumption DEF OneByOne, Typed, TypeOK, Request
<1>1. /\ ~OtherFault /\ ~Fault("uncertain") /\ OnlyCommitsFailed /\ ~req[w].gone
      /\ req[w].stage \in {"moved", "placed", "failed"} =>
            IF req[w].undo = None THEN ~IsLive(rows[req[w].path])
            ELSE /\ IsLive(rows[req[w].path])
                 /\ HashOf[req[w].undo.entry.content] = rows[req[w].path].hash
      /\ req[w].stage = "moved" => live[req[w].path] = None
      /\ \A p \in Paths : ~Unsettled(w, p) => Agree(p)
  BY OnlyCommits DEF Clean
<1>2. PICK x \in Paths : x = req[w].path
  BY <1>0
<1>3. CASE Arrives(w)
  BY <1>1, <1>3 DEF Arrives, Still, Unsettled, Agree
<1>4. CASE Enters(w)
  BY <1>1, <1>4 DEF Enters, Still, SameSlot, Unsettled, Agree
<1>5. CASE Leaves(w)
  BY <1>0, <1>1, <1>5 DEF Leaves, Still, Unsettled, Agree
<1>6. CASE Passes(w)
  <2>1. Agree(x) /\ ~IsLive(rows[x]) /\ req[w].undo = None
    BY <1>1, <1>2, <1>6 DEF Passes, Unsettled, Placing, Past
  <2>2. live[x] = None
    BY <2>1 DEF Agree
  <2>3. QED
    BY <1>1, <1>2, <1>6, <2>1, <2>2 DEF Passes, Still, SameSlot, Unsettled, Agree
<1>7. CASE Places(w)
  <2>1. /\ SameSlot(w) /\ req'[w].stage = "placed" /\ ~req'[w].gone /\ req'[w].undo = req[w].undo
        /\ rows' = rows /\ req[w].stage = "moved"
        /\ \A p \in Paths \ {x} : live'[p] = live[p]
    BY <1>0, <1>1, <1>2, <1>7 DEF Places
  <2>2. \A p \in Paths : ~Unsettled(w, p)' => Agree(p)'
    BY <1>1, <1>2, <2>1 DEF SameSlot, Unsettled, Agree
  <2>3. QED
    BY <1>1, <2>1, <2>2 DEF SameSlot
<1>8. CASE Commits(w)
  <2>1. Agree(x)' /\ (\A p \in Paths \ {x} : rows'[p] = rows[p]) /\ live' = live
    BY <1>2, <1>8, CommitsAgree DEF Commits
  <2>2. \A p \in Paths \ {x} : Agree(p)'
    BY <1>1, <1>2, <2>1 DEF Unsettled, Agree
  <2>3. req'[w].stage = "idle" /\ ~req'[w].gone
    BY <1>0, <1>8 DEF Commits
  <2>4. QED
    BY <2>1, <2>2, <2>3
<1>9. CASE Errs(w)
  BY <1>1, <1>9 DEF Errs, SameSlot, Unsettled, Agree
<1>10. CASE Waits(w)
  BY <1>1, <1>10 DEF Waits, Unsettled, Agree
<1>11. CASE \E p \in Paths : Shortens(p)
  BY <1>1, <1>11 DEF Shortens, Unsettled, Agree
<1>12. ASSUME NEW tier \in Tiers, NEW e, Moves(w, tier, e) PROVE Clean(w)'
  <2>1. /\ SameSlot(w) /\ req'[w].stage \in {"placed", "moved"} /\ ~req'[w].gone
        /\ rows' = rows /\ req[w].stage = "gated" /\ live'[x] = None
        /\ \A p \in Paths \ {x} : live'[p] = live[p]
        /\ (req'[w].undo = None <=> e = None) /\ (e = None <=> live[x] = None)
        /\ e # None => req'[w].undo.entry = e /\ e.content = live[x]
    BY <1>0, <1>1, <1>2, <1>12 DEF Moves
  <2>2. Agree(x) /\ req'[w].path = x
    BY <1>1, <1>2, <2>1 DEF Unsettled, SameSlot
  <2>3. IF req'[w].undo = None THEN ~IsLive(rows'[x])
        ELSE IsLive(rows'[x]) /\ HashOf[req'[w].undo.entry.content] = rows'[x].hash
    BY <2>1, <2>2 DEF Agree
  <2>4. \A p \in Paths : ~Unsettled(w, p)' => Agree(p)'
    BY <1>1, <1>2, <2>1, <2>2 DEF Unsettled, Agree
  <2>5. QED
    BY <2>1, <2>2, <2>3, <2>4 DEF Clean
<1>13. ASSUME NEW e, Undoes(w, e) PROVE Clean(w)'
  <2>1. /\ rows' = rows /\ req[w].stage = "failed"
        /\ \A p \in Paths \ {x} : live'[p] = live[p]
        /\ req'[w].stage \in {"idle", "undone"} /\ ~req'[w].gone
    BY <1>0, <1>1, <1>2, <1>13 DEF Undoes
  <2>2. CASE UndoFile(req[w]) = {} /\ live' = [live EXCEPT ![req[w].path] = None]
    <3>1. req[w].undo = None /\ live'[x] = None
      BY <1>0, <1>2, <2>1, <2>2, UndoOwn
    <3>2. Agree(x)'
      BY <1>1, <1>2, <2>1, <3>1 DEF Agree
    <3>3. QED
      BY <1>1, <1>2, <2>1, <3>2 DEF Clean, Unsettled, Agree
  <2>3. CASE e \in UndoFile(req[w]) /\ live' = [live EXCEPT ![req[w].path] = e.content]
    <3>1. req[w].undo # None /\ e = req[w].undo.entry /\ e.content \in Contents /\ live'[x] = e.content
      BY <1>0, <1>2, <2>1, <2>3, UndoOwn DEF HistoryEntry
    <3>2. Agree(x)'
      BY <1>0, <1>1, <1>2, <2>1, <3>1 DEF Agree
    <3>3. QED
      BY <1>1, <1>2, <2>1, <3>2 DEF Clean, Unsettled, Agree
  <2>4. QED
    BY <1>13, <2>2, <2>3 DEF Undoes
<1>14. Orphans(w) => FALSE
  BY <1>1 DEF Orphans
<1>15. QED
  BY <1>3, <1>4, <1>5, <1>6, <1>7, <1>8, <1>9, <1>10, <1>11, <1>12, <1>13, <1>14 DEF WriterStep, Clean

\* The newest trashed file of a deleted path has the content of its row.
TrashInv ==
    OnlyCommitsFailed /\ now <= TRASH_RETENTION_SECS =>
        \A p \in list_trash : \E e \in history["Trash"][p] :
            /\ HashOf[e.content] = rows[p].hash
            /\ \A f \in history["Trash"][p] \ {e} : f.ts < e.ts

LEMMA TrashStep ==
    ASSUME NEW w, OneByOne(w), Typed, StageInv, Past(w), Placing(w), Clean(w), TrashInv, WriterStep(w)
    PROVE  TrashInv'
<1> DEFINE Opens(p) == \E e \in history["Trash"][p] :
              /\ HashOf[e.content] = rows[p].hash
              /\ \A f \in history["Trash"][p] \ {e} : f.ts < e.ts
<1> SUFFICES ASSUME OnlyCommitsFailed', now' <= TRASH_RETENTION_SECS, NEW p \in Paths,
                    p \in list_trash'
             PROVE  Opens(p)'
  BY DEF TrashInv, list_trash
<1>0. /\ w \in Requests /\ req[w].path \in Paths /\ req[w] \in Request /\ now \in Nat
      /\ TRASH_RETENTION_SECS \in Nat
      /\ live \in [Paths -> Contents \cup {None}] /\ rows \in [Paths -> Row \cup {None}]
      /\ req[w].undo \in UndoToken \cup {None} /\ req[w].op \in {"put", "delete"}
      /\ "Trash" \in Tiers
  BY ServerAssumption DEF OneByOne, Typed, TypeOK, Request, Tiers
<1>1. OnlyCommitsFailed /\ ~OtherFault /\ ~Fault("uncertain") /\ now' \in {now, now + 1}
  BY OnlyCommits DEF WriterStep, Arrives, Enters, Leaves, Orphans, Passes, Places, Commits, Errs,
                     Waits, Moves, Undoes, Shortens, Still
<1>2. now <= TRASH_RETENTION_SECS
  BY <1>0, <1>1
<1>3. \A x \in list_trash : Opens(x)
  BY <1>1, <1>2 DEF TrashInv
<1>4. ASSUME rows'[p] = rows[p] PROVE p \in list_trash /\ Opens(p) /\ ~IsLive(rows[p])
  BY <1>3, <1>4 DEF list_trash, IsLive
<1>5. ASSUME rows'[p] = rows[p], history'["Trash"][p] = history["Trash"][p] PROVE Opens(p)'
  BY <1>4, <1>5
<1>6. CASE Arrives(w) \/ Enters(w) \/ Leaves(w) \/ Orphans(w) \/ Passes(w) \/ Places(w) \/ Waits(w)
  BY <1>5, <1>6 DEF Arrives, Enters, Leaves, Orphans, Passes, Places, Waits, Still
<1>7. CASE Errs(w)
  BY <1>1, <1>5, <1>7 DEF Errs
<1>8. ASSUME NEW tier \in Tiers, NEW e, Moves(w, tier, e) PROVE Opens(p)'
  <2>1. rows' = rows /\ req[w].stage = "gated"
    BY <1>8 DEF Moves
  <2>2. ~IsLive(rows[p])
    BY <1>4, <2>1
  <2>3. p = req[w].path => live[p] = None
    BY <1>1, <2>1, <2>2 DEF Clean, Unsettled, Agree
  <2>4. history'["Trash"][p] = history["Trash"][p]
    BY <1>0, <1>8, <2>3 DEF Moves
  <2>5. QED
    BY <1>5, <2>1, <2>4
<1>9. ASSUME NEW e, Undoes(w, e) PROVE Opens(p)'
  <2>1. rows' = rows /\ req[w].stage = "failed"
    BY <1>9 DEF Undoes
  <2>2. ~IsLive(rows[p])
    BY <1>4, <2>1
  <2>3. history'["Trash"][p] = history["Trash"][p]
    <3>1. p = req[w].path => req[w].undo = None
      BY <1>1, <2>1, <2>2 DEF Clean
    <3>2. p = req[w].path => UndoFile(req[w]) = {}
      BY <3>1 DEF UndoFile
    <3>3. QED
      BY <1>0, <1>9, <3>2 DEF Undoes
  <2>4. QED
    BY <1>5, <2>1, <2>3
<1>10. ASSUME NEW x \in Paths, Shortens(x) PROVE Opens(p)'
  <2>1. \A e \in history["Trash"][p] : Age(e) <= TRASH_RETENTION_SECS
    <3>1. \A e \in history["Trash"][p] : e.ts \in Nat /\ e.ts <= now
      BY <1>0 DEF Past, Typed, TypeOK, HistoryEntry
    <3>2. QED
      BY <1>0, <1>2, <3>1 DEF Age
  <2>2. history'["Trash"][p] = history["Trash"][p]
    BY <1>0, <1>10, <2>1 DEF Shortens
  <2>3. QED
    BY <1>5, <1>10, <2>2 DEF Shortens
<1>11. CASE Commits(w)
  <2>1. history' = history /\ req[w].stage = "placed"
    BY <1>11 DEF Commits
  <2>2. PICK x \in Paths : x = req[w].path
    BY <1>0
  <2>3. rows'[x] = NewRow(req[w]) /\ NewRow(req[w]) \in Row /\ \A y \in Paths \ {x} : rows'[y] = rows[y]
    BY <1>11, <2>2, CommitsAgree
  <2>4. CASE p # x
    BY <1>5, <2>1, <2>3, <2>4
  <2>5. CASE p = x
    <3>1. rows'[p].deleted /\ rows'[p].hash # NoHash
      BY DEF list_trash
    <3>2. req[w].op = "delete" /\ rows'[p].hash = IF req[w].cur # None THEN req[w].cur.hash ELSE NoHash
      BY <1>0, <2>3, <2>5, <3>1, RowType
    <3>3. req[w].cur = rows[p] /\ rows[p] # None /\ rows'[p].hash = rows[p].hash
      BY <2>1, <2>2, <2>5, <3>1, <3>2 DEF Placing
    <3>4. CASE req[w].undo = None
      <4>1. ~IsLive(rows[p])
        BY <1>1, <2>1, <2>2, <2>5, <3>4 DEF Clean
      <4>2. p \in list_trash
        BY <3>1, <3>3, <4>1 DEF list_trash, IsLive
      <4>3. Opens(p)
        BY <1>3, <4>2
      <4>4. QED
        BY <2>1, <3>3, <4>3
    <3>5. CASE req[w].undo # None
      <4>1. PICK e : e = req[w].undo.entry
        OBVIOUS
      <4>2. HashOf[e.content] = rows[p].hash /\ e.ts = req[w].ts
            /\ e \in history[req[w].undo.tier][p]
        BY <1>1, <2>1, <2>2, <2>5, <3>5, <4>1 DEF Clean, Past
      <4>3. \A f \in history["Trash"][p] : f.ts < req[w].ts \/ Own(w, "Trash", p, f)
        BY <1>0, <2>1 DEF Past
      <4>4. req[w].undo.tier = "Trash"
        BY <3>2, <3>5 DEF Placing
      <4>5. \A f \in history["Trash"][p] \ {e} : f.ts < e.ts
        BY <4>1, <4>2, <4>3 DEF Own
      <4>6. QED
        BY <2>1, <3>3, <4>2, <4>4, <4>5
    <3>6. QED
      BY <3>4, <3>5
  <2>6. QED
    BY <2>4, <2>5
<1> HIDE DEF Opens
<1>12. QED
  BY <1>6, <1>7, <1>8, <1>9, <1>10, <1>11 DEF WriterStep

\* How many of S are as new as e.
Rank(S, e) == Cardinality({f \in S : f.ts >= e.ts})

\* Fewer entries, lower ranks; one more, at most one higher; the newest is first.
LEMMA RankFacts ==
    ASSUME NEW S, IsFiniteSet(S), NEW e
    PROVE  /\ Rank(S, e) \in Nat
           /\ \A T \in SUBSET S : Rank(T, e) \in Nat /\ Rank(T, e) <= Rank(S, e)
           /\ \A g : Rank(S \cup {g}, e) \in Nat /\ Rank(S \cup {g}, e) <= Rank(S, e) + 1
<1>1. PICK U : U = {f \in S : f.ts >= e.ts}
  OBVIOUS
<1>2. IsFiniteSet(U) /\ Cardinality(U) \in Nat /\ Rank(S, e) = Cardinality(U)
  BY <1>1, FS_Subset, FS_CardinalityType DEF Rank
<1>3. ASSUME NEW T \in SUBSET S PROVE Rank(T, e) \in Nat /\ Rank(T, e) <= Rank(S, e)
  <2>1. PICK V : V = {f \in T : f.ts >= e.ts}
    OBVIOUS
  <2>2. V \in SUBSET U /\ Rank(T, e) = Cardinality(V)
    BY <1>1, <2>1 DEF Rank
  <2>3. IsFiniteSet(V) /\ Cardinality(V) <= Cardinality(U)
    BY <1>2, <2>2, FS_Subset
  <2>4. QED
    BY <1>2, <2>2, <2>3, FS_CardinalityType
<1>4. ASSUME NEW g PROVE Rank(S \cup {g}, e) \in Nat /\ Rank(S \cup {g}, e) <= Rank(S, e) + 1
  <2>1. PICK V : V = {f \in S \cup {g} : f.ts >= e.ts}
    OBVIOUS
  <2>2. V = U \/ V = U \cup {g}
    BY <1>1, <2>1
  <2>3. /\ IsFiniteSet(U \cup {g})
        /\ Cardinality(U \cup {g}) = Cardinality(U) \/ Cardinality(U \cup {g}) = Cardinality(U) + 1
    BY <1>2, FS_AddElement
  <2>4. Rank(S \cup {g}, e) = Cardinality(V)
    BY <2>1 DEF Rank
  <2>5. QED
    BY <1>2, <2>2, <2>3, <2>4
<1>5. QED
  BY <1>2, <1>3, <1>4

\* The versions that a request, or the failures before it, may still put on
\* top of the ones of p.
Slack(w, p) ==
    IF req[w].path = p /\ req[w].stage = "placed" THEN 0
    ELSE IF req[w].path = p /\ req[w].stage = "failed" THEN 1
    ELSE (IF live[p] = None THEN 0 ELSE 1) + (IF req[w].path = p /\ req[w].gone THEN 1 ELSE 0)

\* The content of the row of p is in a tier, and not too deep in it.
Saved(w, p) ==
    \/ \E e \in history["Trash"][p] : HashOf[e.content] = rows[p].hash
    \/ \E e \in history["Versions"][p] :
          /\ HashOf[e.content] = rows[p].hash
          /\ Rank(history["Versions"][p], e) + Slack(w, p) <= FaultCount + 1

\* Within the retention periods and with fewer failures than versions kept.
Window ==
    /\ faults["uncertain"] = 0 /\ FaultCount < MAX_VERSIONS_PER_FILE
    /\ now <= VERSION_RETENTION_SECS /\ now <= TRASH_RETENTION_SECS

\* The content of a live row is in its place, or in a tier; in a tier while the
\* path is being written.
Safe(w) ==
    Window => \A p \in Paths : IsLive(rows[p]) =>
        (~Unsettled(w, p) /\ Agree(p)) \/ Saved(w, p)

\* The window only closes.
LEMMA WindowStep ==
    ASSUME NEW w, OneByOne(w), Typed, WriterStep(w), Window'
    PROVE  Window /\ ~Fault("uncertain")
<1>1. /\ FaultCount \in Nat /\ (FaultCount' = FaultCount \/ FaultCount' = FaultCount + 1)
      /\ faults' = faults \/ \E kind \in FaultKinds : Fault(kind)
  BY FaultsGrow
<1>2. /\ now \in Nat /\ now' \in {now, now + 1} /\ MAX_VERSIONS_PER_FILE \in Nat
      /\ VERSION_RETENTION_SECS \in Nat /\ TRASH_RETENTION_SECS \in Nat
  BY ServerAssumption
     DEF Typed, TypeOK, WriterStep, Arrives, Enters, Leaves, Orphans, Passes, Places, Commits, Errs,
         Waits, Moves, Undoes, Shortens, Still
<1>3. "uncertain" \in FaultKinds /\ faults["uncertain"] \in Nat
  BY DEF Typed, TypeOK, FaultKinds
<1>4. ASSUME Fault("uncertain") PROVE FALSE
  <2>1. faults'["uncertain"] = faults["uncertain"] + 1
    BY <1>3, <1>4, FaultType DEF Typed
  <2>2. QED
    BY <1>3, <2>1 DEF Window
<1>5. faults["uncertain"] = 0
  <2>1. CASE faults' = faults
    BY <2>1 DEF Window
  <2>2. ASSUME NEW kind \in FaultKinds, Fault(kind) PROVE faults["uncertain"] = 0
    <3>1. kind # "uncertain"
      BY <1>4, <2>2
    <3>2. faults'["uncertain"] = faults["uncertain"]
      BY <1>3, <2>2, <3>1, FaultType DEF Typed
    <3>3. QED
      BY <3>2 DEF Window
  <2>3. QED
    BY <1>1, <2>1, <2>2
<1>6. QED
  BY <1>1, <1>2, <1>4, <1>5 DEF Window

\* A saved content stays saved as long as nothing is taken from the tiers and
\* nothing more can come on top of it than has failed.
LEMMA SavedKept ==
    ASSUME NEW w, NEW p \in Paths, FaultCount \in Nat, FaultCount' \in Nat,
           IsFiniteSet(history["Versions"][p]),
           Slack(w, p) \in Nat, Slack(w, p)' \in Nat, rows'[p] = rows[p],
           history'["Trash"][p] = history["Trash"][p],
           history'["Versions"][p] = history["Versions"][p],
           Slack(w, p)' + FaultCount <= Slack(w, p) + FaultCount',
           Saved(w, p)
    PROVE  Saved(w, p)'
<1>1. CASE \E e \in history["Trash"][p] : HashOf[e.content] = rows[p].hash
  BY <1>1 DEF Saved
<1>2. ASSUME NEW e \in history["Versions"][p], HashOf[e.content] = rows[p].hash,
             Rank(history["Versions"][p], e) + Slack(w, p) <= FaultCount + 1
      PROVE  Saved(w, p)'
  <2>1. PICK m, s, t, f, g : /\ m = Rank(history["Versions"][p], e) /\ s = Slack(w, p)
                             /\ t = Slack(w, p)' /\ f = FaultCount /\ g = FaultCount'
    OBVIOUS
  <2>2. m \in Nat
    BY <2>1, RankFacts
  <2>3. m + t <= g + 1
    BY <1>2, <2>1, <2>2
  <2>4. Rank(history'["Versions"][p], e) + Slack(w, p)' <= FaultCount' + 1
    BY <2>1, <2>3
  <2>5. QED
    BY <1>2, <2>4 DEF Saved
<1>3. QED
  BY <1>1, <1>2 DEF Saved

\* The move of the old file keeps the content of its row.
LEMMA MovesSafe ==
    ASSUME NEW w, OneByOne(w), Typed, Past(w), Placing(w), NEW tier \in Tiers, NEW e,
           Moves(w, tier, e), NEW p \in Paths, p = req[w].path, IsLive(rows[p]),
           Agree(p) \/ Saved(w, p)
    PROVE  Saved(w, p)'
<1>0. /\ w \in Requests /\ IdleRequest.stage = "idle" /\ ~IdleRequest.gone
      /\ live \in [Paths -> Contents \cup {None}] /\ req[w].gone \in BOOLEAN
      /\ {"Trash", "Versions"} = Tiers
      /\ FaultCount \in Nat /\ FaultCount' = FaultCount
  BY IdleType, FaultNumber, FaultSum DEF OneByOne, Typed, TypeOK, Request, Tiers, Moves
<1>1. PICK S, N, g, l : /\ S = history["Versions"][p] /\ N = history'["Versions"][p]
                        /\ g = (IF req[w].gone THEN 1 ELSE 0)
                        /\ l = (IF live[p] = None THEN 0 ELSE 1)
  OBVIOUS
<1>2. /\ rows' = rows /\ req[w].stage = "gated" /\ live'[p] = None
      /\ (e = None <=> live[p] = None)
      /\ e # None => e.content = live[p] /\ e.ts = req[w].ts
      /\ history'["Trash"][p] = (IF tier = "Trash" /\ e # None THEN history["Trash"][p] \cup {e}
                                 ELSE history["Trash"][p])
      /\ N = IF tier = "Versions" /\ e # None THEN S \cup {e} ELSE S
  BY <1>0, <1>1 DEF Moves
<1>3. IsFiniteSet(S) /\ \A f \in S : f.ts \in Nat /\ f.ts < req[w].ts
  <2>1. IsFiniteSet(S) /\ S \subseteq HistoryEntry
    BY <1>0, <1>1 DEF Typed, TypeOK, HistoryFinite
  <2>2. \A f \in S : f.ts < req[w].ts
    BY <1>0, <1>1, <1>2 DEF Past, Own
  <2>3. QED
    BY <2>1, <2>2 DEF HistoryEntry
<1>4. Slack(w, p) = l + g
  BY <1>1, <1>2 DEF Slack
<1>5. Slack(w, p)' = IF tier = "Trash" THEN 0 ELSE g
  <2>1. CASE tier = "Trash" /\ req[w].gone /\ req'[w] = IdleRequest
    BY <1>0, <1>2, <2>1 DEF Slack
  <2>2. CASE /\ ~(tier = "Trash" /\ req[w].gone) /\ SameSlot(w)
             /\ req'[w].stage = (IF tier = "Trash" THEN "placed" ELSE "moved")
             /\ req'[w].gone = req[w].gone
    <3>1. req'[w].path = p
      BY <2>2 DEF SameSlot
    <3>2. QED
      BY <1>1, <1>2, <2>2, <3>1 DEF Slack
  <2>3. QED
    BY <2>1, <2>2 DEF Moves
<1>6. ASSUME NEW f \in history["Trash"][p], HashOf[f.content] = rows[p].hash PROVE Saved(w, p)'
  BY <1>2, <1>6 DEF Saved
<1>7. ASSUME NEW f \in S, HashOf[f.content] = rows[p].hash, Rank(S, f) + l + g <= FaultCount + 1
      PROVE  Saved(w, p)'
  <2>1. Rank(S, f) \in Nat /\ Rank(N, f) \in Nat /\ Rank(N, f) <= Rank(S, f) + l
        /\ (tier = "Trash" => Rank(N, f) = Rank(S, f))
    <3>1. Rank(S, f) \in Nat
      BY <1>3, RankFacts
    <3>2. Rank(S \cup {e}, f) \in Nat /\ Rank(S \cup {e}, f) <= Rank(S, f) + 1
      BY <1>3, RankFacts
    <3>3. QED
      BY <1>1, <1>2, <3>1, <3>2
  <2>2. g \in {0, 1} /\ l \in {0, 1}
    BY <1>1
  <2>3. Rank(N, f) + Slack(w, p)' <= FaultCount' + 1
    BY <1>0, <1>5, <1>7, <2>1, <2>2
  <2>4. f \in N
    BY <1>2
  <2>5. QED
    BY <1>1, <1>2, <1>7, <2>3, <2>4 DEF Saved
<1>8. CASE Saved(w, p)
  <2>1. CASE \E f \in history["Trash"][p] : HashOf[f.content] = rows[p].hash
    BY <1>6, <2>1
  <2>2. ASSUME NEW f \in S, HashOf[f.content] = rows[p].hash,
               Rank(S, f) + Slack(w, p) <= FaultCount + 1
        PROVE  Saved(w, p)'
    <3>1. Rank(S, f) \in Nat /\ l \in Nat /\ g \in Nat
      BY <1>1, <1>3, RankFacts
    <3>2. Rank(S, f) + l + g <= FaultCount + 1
      BY <1>0, <1>4, <2>2, <3>1
    <3>3. QED
      BY <1>7, <2>2, <3>2
  <2>3. QED
    BY <1>1, <1>8, <2>1, <2>2 DEF Saved
<1>9. CASE Agree(p)
  <2>1. e # None /\ HashOf[e.content] = rows[p].hash
    BY <1>2, <1>9 DEF Agree
  <2>2. CASE tier = "Trash"
    BY <1>2, <2>1, <2>2 DEF Saved
  <2>3. CASE tier = "Versions"
    <3>1. e \in N /\ N = S \cup {e}
      BY <1>2, <2>1, <2>3
    <3>2. {f \in N : f.ts >= e.ts} = {e}
      <4>1. req[w].ts \in Nat
        BY <1>0 DEF Typed, TypeOK, Request
      <4>2. QED
        BY <1>2, <1>3, <2>1, <3>1, <4>1
    <3>3. Rank(N, e) = 1
      BY <3>2, FS_Singleton DEF Rank
    <3>4. g <= FaultCount
      BY <1>0, <1>1 DEF Placing
    <3>5. g \in {0, 1} /\ Slack(w, p)' = g
      BY <1>1, <1>5, <2>3
    <3>6. Rank(N, e) + Slack(w, p)' <= FaultCount' + 1
      BY <1>0, <3>3, <3>4, <3>5
    <3>7. QED
      BY <1>1, <1>2, <2>1, <3>1, <3>6 DEF Saved
  <2>4. QED
    BY <1>0, <2>2, <2>3
<1>10. QED
  BY <1>8, <1>9

\* What undo takes from a tier it puts back in its place.
LEMMA UndoesSafe ==
    ASSUME NEW w, OneByOne(w), Typed, StageInv, Past(w), NEW e, Undoes(w, e), NEW p \in Paths,
           p = req[w].path, IsLive(rows[p]), Saved(w, p)
    PROVE  Agree(p)' \/ Saved(w, p)'
<1>0. /\ w \in Requests /\ IdleRequest.stage = "idle" /\ ~IdleRequest.gone
      /\ live \in [Paths -> Contents \cup {None}] /\ None \notin Contents
      /\ {"Trash", "Versions"} = Tiers
      /\ FaultCount \in Nat /\ FaultCount' = FaultCount
      /\ req[w].stage = "failed" /\ ~req[w].gone /\ rows' = rows
  BY IdleType, FaultNumber, FaultSum, ServerAssumption
     DEF OneByOne, Typed, TypeOK, Tiers, Undoes, StageInv
<1>1. Slack(w, p) = 1
  BY <1>0 DEF Slack
<1>2. Slack(w, p)' \in {0, 1}
  <2>1. req'[w].stage \in {"idle", "undone"} /\ ~req'[w].gone
    BY <1>0 DEF Undoes
  <2>2. QED
    BY <2>1 DEF Slack
<1>3. PICK S, N : S = history["Versions"][p] /\ N = history'["Versions"][p]
  OBVIOUS
<1>4. IsFiniteSet(S)
  BY <1>0, <1>3 DEF Typed, HistoryFinite
<1>5. N \subseteq S
  BY <1>0, <1>3 DEF Undoes
<1>6. ASSUME NEW f \in S, f \in N, HashOf[f.content] = rows[p].hash,
             Rank(S, f) + Slack(w, p) <= FaultCount + 1
      PROVE  Saved(w, p)'
  <2>1. Rank(S, f) \in Nat /\ Rank(N, f) \in Nat /\ Rank(N, f) <= Rank(S, f)
    BY <1>4, <1>5, RankFacts
  <2>2. Rank(N, f) + Slack(w, p)' <= FaultCount' + 1
    BY <1>0, <1>1, <1>2, <1>6, <2>1
  <2>3. QED
    BY <1>0, <1>3, <1>6, <2>2 DEF Saved
<1>7. CASE history' = history
  BY <1>0, <1>3, <1>6, <1>7 DEF Saved
<1>8. CASE /\ e \in UndoFile(req[w]) /\ live' = [live EXCEPT ![req[w].path] = e.content]
           /\ \A t \in Tiers, x \in Paths :
                 history'[t][x] = IF t = req[w].undo.tier /\ x = req[w].path
                                  THEN history[t][x] \ {e} ELSE history[t][x]
  <2>1. e \in HistoryEntry
    BY <1>0, <1>8, UndoOwn
  <2>2. live'[p] = e.content /\ e.content \in Contents
    BY <1>0, <1>8, <2>1 DEF HistoryEntry
  <2>3. HashOf[e.content] = rows[p].hash => Agree(p)'
    BY <1>0, <2>2 DEF Agree
  <2>4. \A t \in Tiers : \A f \in history[t][p] : f = e \/ f \in history'[t][p]
    BY <1>8
  <2>5. CASE \E f \in history["Trash"][p] : HashOf[f.content] = rows[p].hash
    BY <1>0, <2>3, <2>4, <2>5 DEF Saved
  <2>6. ASSUME NEW f \in S, HashOf[f.content] = rows[p].hash,
               Rank(S, f) + Slack(w, p) <= FaultCount + 1
        PROVE  Agree(p)' \/ Saved(w, p)'
    BY <1>0, <1>3, <1>6, <2>3, <2>4, <2>6
  <2>7. QED
    BY <1>3, <2>5, <2>6 DEF Saved
<1>9. QED
  BY <1>7, <1>8 DEF Undoes

\* The retention pass takes no content that is not too deep in its tier.
LEMMA ShortensSafe ==
    ASSUME NEW w, OneByOne(w), Typed, Past(w), Window, NEW p \in Paths, Shortens(p), Saved(w, p)
    PROVE  Saved(w, p)'
<1>0. /\ "Trash" \in Tiers /\ "Versions" \in Tiers /\ now \in Nat /\ MAX_VERSIONS_PER_FILE \in Nat
      /\ VERSION_RETENTION_SECS \in Nat /\ TRASH_RETENTION_SECS \in Nat
      /\ FaultCount \in Nat /\ FaultCount' = FaultCount /\ rows' = rows
      /\ Slack(w, p)' = Slack(w, p)
  BY FaultNumber, FaultSum, ServerAssumption DEF Typed, TypeOK, Tiers, Shortens, Slack
<1>1. Slack(w, p) \in Nat
  BY DEF Slack
<1>2. PICK S, N : S = history["Versions"][p] /\ N = history'["Versions"][p]
  OBVIOUS
<1>3. /\ IsFiniteSet(S) /\ \A f \in S : f.ts \in Nat /\ f.ts <= now
      /\ \A f \in history["Trash"][p] : f.ts \in Nat /\ f.ts <= now
  BY <1>0, <1>2 DEF Typed, TypeOK, HistoryFinite, HistoryEntry, Past
<1>4. /\ \A f \in S : Age(f) <= VERSION_RETENTION_SECS
      /\ \A f \in history["Trash"][p] : Age(f) <= TRASH_RETENTION_SECS
  BY <1>0, <1>3 DEF Age, Window
<1>5. history'["Trash"][p] = history["Trash"][p]
  BY <1>4 DEF Shortens
<1>6. CASE \E f \in history["Trash"][p] : HashOf[f.content] = rows[p].hash
  BY <1>0, <1>5, <1>6 DEF Saved
<1>7. ASSUME NEW f \in S, HashOf[f.content] = rows[p].hash, Rank(S, f) + Slack(w, p) <= FaultCount + 1
      PROVE  Saved(w, p)'
  <2>1. N \subseteq S
    BY <1>2 DEF Shortens, NewestCuts
  <2>2. Rank(S, f) \in Nat /\ Rank(N, f) \in Nat /\ Rank(N, f) <= Rank(S, f)
    BY <1>3, <2>1, RankFacts
  <2>3. Rank(S, f) <= MAX_VERSIONS_PER_FILE
    BY <1>0, <1>1, <1>7, <2>2 DEF Window
  <2>4. f \in N
    <3>1. CASE N = S
      BY <3>1
    <3>2. ASSUME NEW kept \in NewestCuts(S, MAX_VERSIONS_PER_FILE),
                 N = {h \in kept : Age(h) <= VERSION_RETENTION_SECS}
          PROVE  f \in N
      <4>1. f \in kept
        BY <1>0, <1>3, <2>3, CutKeeps DEF Rank
      <4>2. QED
        BY <1>4, <3>2, <4>1
    <3>3. QED
      BY <1>2, <3>1, <3>2 DEF Shortens
  <2>5. Rank(N, f) + Slack(w, p)' <= FaultCount' + 1
    BY <1>0, <1>1, <1>7, <2>2
  <2>6. QED
    BY <1>0, <1>2, <1>7, <2>4, <2>5 DEF Saved
<1>8. QED
  BY <1>2, <1>6, <1>7 DEF Saved

\* Every step of the writer, of the retention pass and of the clock keeps the
\* content of every live row, within the window.
LEMMA SafeStep ==
    ASSUME NEW w, OneByOne(w), Typed, StageInv, Past(w), Placing(w), Safe(w), WriterStep(w)
    PROVE  Safe(w)'
<1> DEFINE Held(p) == (~Unsettled(w, p) /\ Agree(p)) \/ Saved(w, p)
<1>1. SUFFICES ASSUME Window', NEW p \in Paths, IsLive(rows'[p])
               PROVE  Held(p)'
  BY DEF Safe
<1>2. Window /\ ~Fault("uncertain")
  BY <1>1, WindowStep
<1>3. IsLive(rows[p]) => Held(p)
  BY <1>2 DEF Safe
<1>4. /\ w \in Requests /\ IdleRequest.stage = "idle" /\ ~IdleRequest.gone
      /\ live \in [Paths -> Contents \cup {None}] /\ rows \in [Paths -> Row \cup {None}]
      /\ None \notin Contents /\ {"Trash", "Versions"} = Tiers
      /\ req[w].path \in Paths /\ req[w].gone \in BOOLEAN /\ req[w].content \in Contents
  BY IdleType, ServerAssumption DEF OneByOne, Typed, TypeOK, Tiers, Request
<1>5. /\ FaultCount \in Nat /\ FaultCount' \in Nat /\ Slack(w, p) \in Nat /\ Slack(w, p)' \in Nat
      /\ IsFiniteSet(history["Versions"][p])
      /\ faults' = faults => FaultCount' = FaultCount
      /\ \A kind \in FaultKinds : Fault(kind) => FaultCount' = FaultCount + 1
  BY <1>4, FaultsGrow, FaultAdds, FaultSum DEF Slack, Typed, HistoryFinite
<1>6. OtherFault => FaultCount' = FaultCount + 1
  BY <1>5 DEF OtherFault
<1> DEFINE Quiet == /\ rows'[p] = rows[p]
                    /\ history'["Trash"][p] = history["Trash"][p]
                    /\ history'["Versions"][p] = history["Versions"][p]
<1>7. ASSUME Quiet, Slack(w, p)' + FaultCount <= Slack(w, p) + FaultCount', Saved(w, p)
      PROVE  Held(p)'
  BY <1>5, <1>7, SavedKept
<1>8. ASSUME Quiet, live'[p] = live[p], Unsettled(w, p)' => Unsettled(w, p),
             Slack(w, p)' + FaultCount <= Slack(w, p) + FaultCount'
      PROVE  Held(p)'
  BY <1>1, <1>3, <1>7, <1>8 DEF Agree
<1>9. Still => Quiet /\ live'[p] = live[p] /\ rows' = rows
  BY DEF Still
<1>10. CASE Arrives(w)
  <2>1. Slack(w, p)' <= Slack(w, p) /\ ~Unsettled(w, p)' /\ faults' = faults
    BY <1>10 DEF Arrives, Still, Slack, Unsettled
  <2>2. QED
    BY <1>5, <1>8, <1>9, <1>10, <2>1 DEF Arrives
<1>11. CASE Enters(w)
  <2>1. Slack(w, p)' = Slack(w, p) /\ ~Unsettled(w, p)' /\ faults' = faults
    BY <1>11 DEF Enters, Still, Slack, Unsettled, SameSlot
  <2>2. QED
    BY <1>5, <1>8, <1>9, <1>11, <2>1 DEF Enters
<1>12. CASE Leaves(w)
  <2>1. /\ Slack(w, p)' <= 1 /\ ~Unsettled(w, p)'
        /\ req[w].stage \in {"begun", "undone"} => Slack(w, p)' <= Slack(w, p)
    BY <1>4, <1>12 DEF Leaves, Still, Slack, Unsettled
  <2>2. Slack(w, p)' + FaultCount <= Slack(w, p) + FaultCount'
    BY <1>5, <1>6, <1>12, <2>1 DEF Leaves
  <2>3. QED
    BY <1>8, <1>9, <1>12, <2>1, <2>2 DEF Leaves
<1>13. CASE Orphans(w)
  <2>1. Slack(w, p)' <= Slack(w, p) + 1 /\ (Unsettled(w, p)' => Unsettled(w, p))
    BY <1>4, <1>13 DEF Orphans, Still, Slack, Unsettled, SameSlot
  <2>2. Slack(w, p)' + FaultCount <= Slack(w, p) + FaultCount'
    BY <1>5, <1>6, <1>13, <2>1 DEF Orphans
  <2>3. QED
    BY <1>8, <1>9, <1>13, <2>1, <2>2 DEF Orphans
<1>14. CASE Passes(w)
  <2>1. p # req[w].path
    BY <1>1, <1>14 DEF Passes, Still, Placing
  <2>2. Slack(w, p)' = Slack(w, p) /\ ~Unsettled(w, p)' /\ faults' = faults
    BY <1>14, <2>1 DEF Passes, Still, Slack, Unsettled, SameSlot
  <2>3. QED
    BY <1>5, <1>8, <1>9, <1>14, <2>2 DEF Passes
<1>15. CASE Waits(w)
  <2>1. Slack(w, p)' = Slack(w, p) /\ Unsettled(w, p)' = Unsettled(w, p) /\ faults' = faults
    BY <1>15 DEF Waits, Slack, Unsettled
  <2>2. Quiet /\ live'[p] = live[p]
    BY <1>15 DEF Waits
  <2>3. QED
    BY <1>5, <1>8, <2>1, <2>2
<1>16. CASE Errs(w)
  <2>1. Quiet /\ live'[p] = live[p] /\ FaultCount' = FaultCount + 1
    BY <1>2, <1>5, <1>16 DEF Errs, FaultKinds
  <2>2. Slack(w, p)' <= Slack(w, p) + 1 /\ (Unsettled(w, p)' => Unsettled(w, p))
    BY <1>4, <1>16 DEF Errs, Slack, Unsettled, SameSlot
  <2>3. QED
    BY <1>5, <1>8, <2>1, <2>2
<1>17. CASE Commits(w)
  <2>1. ~Unsettled(w, p)' /\ faults' = faults
    BY <1>4, <1>17 DEF Commits, Unsettled
  <2>2. CASE p = req[w].path
    BY <1>17, <2>1, <2>2, CommitsAgree
  <2>3. CASE p # req[w].path
    <3>1. Quiet /\ live'[p] = live[p]
      BY <1>17, <2>3 DEF Commits
    <3>2. Slack(w, p)' = Slack(w, p)
      BY <1>4, <1>17, <2>3 DEF Commits, Slack
    <3>3. QED
      BY <1>5, <1>8, <2>1, <3>1, <3>2
  <2>4. QED
    BY <2>2, <2>3
<1>18. CASE Places(w)
  <2>1. Quiet /\ faults' = faults /\ req[w].stage = "moved"
    BY <1>18 DEF Places
  <2>2. CASE p = req[w].path
    <3>1. Saved(w, p)
      BY <1>1, <1>3, <2>1, <2>2 DEF Unsettled
    <3>2. live'[p] = req[w].content
      BY <1>4, <1>18, <2>2 DEF Places
    <3>3. Slack(w, p)' <= Slack(w, p)
      <4>1. CASE req[w].gone /\ req'[w] = IdleRequest
        BY <1>4, <2>1, <2>2, <3>2, <4>1 DEF Slack
      <4>2. CASE SameSlot(w) /\ req'[w].stage = "placed"
        BY <1>4, <2>1, <2>2, <3>2, <4>2 DEF Slack, SameSlot
      <4>3. QED
        BY <1>18, <4>1, <4>2 DEF Places
    <3>4. QED
      BY <1>5, <1>7, <2>1, <3>1, <3>3
  <2>3. CASE p # req[w].path
    <3>1. live'[p] = live[p]
      BY <1>4, <1>18, <2>3 DEF Places
    <3>2. Slack(w, p)' = Slack(w, p) /\ ~Unsettled(w, p)'
      BY <1>4, <1>18, <2>3, <3>1 DEF Places, Slack, Unsettled, SameSlot
    <3>3. QED
      BY <1>5, <1>8, <2>1, <3>1, <3>2
  <2>4. QED
    BY <2>2, <2>3
<1>19. ASSUME NEW tier \in Tiers, NEW e, Moves(w, tier, e)
       PROVE  Held(p)'
  <2>1. rows' = rows /\ faults' = faults /\ req[w].stage = "gated"
    BY <1>19 DEF Moves
  <2>2. CASE p = req[w].path
    BY <1>1, <1>3, <1>19, <2>1, <2>2, MovesSafe
  <2>3. CASE p # req[w].path
    <3>1. Quiet /\ live'[p] = live[p]
      BY <1>4, <1>19, <2>3 DEF Moves
    <3>2. Slack(w, p)' = Slack(w, p) /\ ~Unsettled(w, p)'
      BY <1>4, <1>19, <2>3, <3>1 DEF Moves, Slack, Unsettled, SameSlot
    <3>3. QED
      BY <1>5, <1>8, <2>1, <3>1, <3>2
  <2>4. QED
    BY <2>2, <2>3
<1>20. ASSUME NEW e, Undoes(w, e)
       PROVE  Held(p)'
  <2>1. rows' = rows /\ faults' = faults /\ req[w].stage = "failed" /\ ~Unsettled(w, p)'
    BY <1>4, <1>20 DEF Undoes, Unsettled
  <2>2. CASE p = req[w].path
    <3>1. Saved(w, p)
      BY <1>1, <1>3, <2>1, <2>2 DEF Unsettled
    <3>2. QED
      BY <1>1, <1>20, <2>1, <2>2, <3>1, UndoesSafe
  <2>3. CASE p # req[w].path
    <3>1. Quiet /\ live'[p] = live[p]
      BY <1>4, <1>20, <2>3 DEF Undoes
    <3>2. Slack(w, p)' = Slack(w, p)
      BY <1>4, <1>20, <2>3, <3>1 DEF Undoes, Slack, SameSlot
    <3>3. QED
      BY <1>5, <1>8, <2>1, <3>1, <3>2
  <2>4. QED
    BY <2>2, <2>3
<1>21. ASSUME NEW y \in Paths, Shortens(y)
       PROVE  Held(p)'
  <2>1. /\ rows' = rows /\ live' = live /\ faults' = faults
        /\ Slack(w, p)' = Slack(w, p) /\ Unsettled(w, p)' = Unsettled(w, p)
    BY <1>21 DEF Shortens, Slack, Unsettled
  <2>2. CASE p = y
    <3>1. CASE Saved(w, p)
      BY <1>2, <1>21, <2>2, <3>1, ShortensSafe
    <3>2. CASE ~Saved(w, p)
      BY <1>1, <1>3, <2>1, <3>2 DEF Agree
    <3>3. QED
      BY <3>1, <3>2
  <2>3. CASE p # y
    <3>1. Quiet
      BY <1>4, <1>21, <2>3 DEF Shortens
    <3>2. QED
      BY <1>5, <1>8, <2>1, <3>1
  <2>4. QED
    BY <2>2, <2>3
<1>22. QED
  BY <1>10, <1>11, <1>12, <1>13, <1>14, <1>15, <1>16, <1>17, <1>18, <1>19, <1>20, <1>21
     DEF WriterStep

\* The inductive invariant of one writer.
WriterInv(w) ==
    /\ Typed /\ StageInv /\ Past(w) /\ Placing(w) /\ Clean(w) /\ TrashInv /\ Safe(w)

LEMMA WriterInit ==
    ASSUME NEW w, OneByOne(w), Init
    PROVE  WriterInv(w)
<1>1. Typed /\ StageInv
  BY ServerInit DEF ServerInv
<1>2. /\ IdleRequest.stage = "idle" /\ ~IdleRequest.gone /\ IdleRequest.undo = None
      /\ req[w] = IdleRequest
  BY IdleType DEF IdleRequest, Init, OneByOne
<1>3. /\ \A p \in Paths : rows[p] = None /\ live[p] = None
      /\ \A t \in Tiers, p \in Paths : history[t][p] = {}
  BY DEF Init
<1>4. Past(w)
  BY <1>2, <1>3 DEF Past
<1>5. Placing(w)
  BY <1>2 DEF Placing
<1>6. Clean(w)
  BY <1>2, <1>3 DEF Clean, Agree, IsLive
<1>7. TrashInv /\ Safe(w)
  BY <1>3 DEF TrashInv, list_trash, Safe, IsLive
<1>8. QED
  BY <1>1, <1>4, <1>5, <1>6, <1>7 DEF WriterInv

LEMMA WriterKeeps ==
    ASSUME NEW w, OneByOne(w)
    PROVE  WriterInv(w) /\ ServerInv /\ [Next]_vars /\ ServerInv' => WriterInv(w)'
<1>1. SUFFICES ASSUME WriterInv(w), [Next]_vars, ServerInv' PROVE WriterInv(w)'
  OBVIOUS
<1>2. WriterStep(w)
  BY <1>1, WriterShape DEF WriterInv
<1>3. Past(w)' /\ Placing(w)' /\ Clean(w)'
  BY <1>1, <1>2, PastStep, PlacingStep, CleanStep DEF WriterInv
<1>4. TrashInv'
  BY <1>1, <1>2, TrashStep DEF WriterInv
<1>5. Safe(w)'
  BY <1>1, <1>2, SafeStep DEF WriterInv
<1>6. QED
  BY <1>1, <1>3, <1>4, <1>5 DEF WriterInv, ServerInv

LEMMA WriterInvariant ==
    ASSUME NEW w, OneByOne(w)
    PROVE  Spec => []WriterInv(w)
<1>1. Init => WriterInv(w)
  BY WriterInit
<1>2. WriterInv(w) /\ ServerInv /\ [Next]_vars /\ ServerInv' => WriterInv(w)'
  BY WriterKeeps
<1>3. QED
  BY <1>1, <1>2, ServerInvariant, PTL DEF Spec

\* "The row and the file never disagree", when commits fail: with one writer
\* at a time `undo` (BlobStore::undo, called by apply_put and apply_delete
\* when the commit answers an error) puts back the archived file before
\* the next request, and the retention pass has not taken it meanwhile.
THEOREM RowsAndBlobsUndone ==
    ASSUME NEW w, OneByOne(w)
    PROVE  Spec => []RowBlobAgree
<1>1. WriterInv(w) => RowBlobAgree
  BY DEF WriterInv, Clean, RowBlobAgree, Agree, OneByOne
<1>2. QED
  BY <1>1, WriterInvariant, PTL

\* A file that the trash lists opens to the content that was deleted last:
\* get_trash takes the newest blob of the trash tier, list_trash the rows, and
\* neither a second delete of the path nor one whose commit failed and was
\* undone makes them disagree while the retention period lasts.
THEOREM TrashOpens ==
    ASSUME NEW w, OneByOne(w)
    PROVE  Spec => []TrashHoldsDeleted
<1>1. WriterInv(w) => TrashHoldsDeleted
  <2>1. SUFFICES ASSUME WriterInv(w), OnlyCommitsFailed, now <= TRASH_RETENTION_SECS,
                        NEW p \in list_trash
                 PROVE  get_trash(p) # None /\ HashOf[get_trash(p)] = rows[p].hash
    BY DEF TrashHoldsDeleted
  <2>2. PICK e \in history["Trash"][p] : /\ HashOf[e.content] = rows[p].hash
                                         /\ \A f \in history["Trash"][p] \ {e} : f.ts < e.ts
    BY <2>1 DEF WriterInv, TrashInv
  <2>3. p \in Paths /\ "Trash" \in Tiers
    BY DEF list_trash, Tiers
  <2>4. history["Trash"][p] \subseteq HistoryEntry
    BY <2>1, <2>3 DEF WriterInv, Typed, TypeOK
  <2>5. \A f \in history["Trash"][p] : f.ts \in Nat /\ f.seq \in Nat /\ f.content \in Contents
    BY <2>4 DEF HistoryEntry
  <2>6. newest(history["Trash"][p]) = e
    BY <2>2, <2>5 DEF newest
  <2>7. get_trash(p) = e.content
    BY <2>2, <2>6 DEF get_trash
  <2>8. QED
    BY <2>2, <2>5, <2>7, ServerAssumption
<1>2. QED
  BY <1>1, WriterInvariant, PTL

\* Whatever is cut off between the blob and the row (a failed blob write, a
\* dropped handler whose blob task runs on, a crash, a failed commit), the
\* content of a live row is in the live tier or in a history tier: for ever
\* when nothing has failed, and else as long as the failures are fewer than
\* the versions that prune_versions keeps and a retention period lasts.
THEOREM ContentKept ==
    ASSUME NEW w, OneByOne(w)
    PROVE  Spec => []RowContentKept
<1>1. WriterInv(w) => RowContentKept
  <2> DEFINE Somewhere(p) ==
        \/ live[p] # None /\ HashOf[live[p]] = rows[p].hash
        \/ \E t \in Tiers : \E e \in history[t][p] : HashOf[e.content] = rows[p].hash
  <2>1. SUFFICES ASSUME WriterInv(w), faults["uncertain"] = 0, NEW p \in Paths, IsLive(rows[p]),
                        \/ FaultCount = 0
                        \/ /\ FaultCount < MAX_VERSIONS_PER_FILE
                           /\ now <= Min({VERSION_RETENTION_SECS, TRASH_RETENTION_SECS})
                 PROVE  Somewhere(p)
    BY DEF RowContentKept
  <2>2. w \in Requests /\ {"Trash", "Versions"} = Tiers /\ req[w].undo \in UndoToken \cup {None}
    BY <2>1 DEF OneByOne, Tiers, WriterInv, Typed, TypeOK, Request
  <2>3. Agree(p) => Somewhere(p)
    BY <2>1 DEF Agree
  <2>4. CASE FaultCount = 0
    <3>1. OnlyCommitsFailed
      BY <2>1, <2>4, FaultNumber DEF WriterInv, Typed, Healthy, OnlyCommitsFailed
    <3>2. CASE ~Unsettled(w, p)
      BY <2>1, <2>3, <3>1, <3>2 DEF WriterInv, Clean
    <3>3. CASE Unsettled(w, p)
      <4>1. req[w].undo # None /\ HashOf[req[w].undo.entry.content] = rows[p].hash
        BY <2>1, <3>1, <3>3 DEF WriterInv, Clean, Unsettled
      <4>2. req[w].undo.entry \in history[req[w].undo.tier][p]
        BY <2>1, <3>3, <4>1 DEF WriterInv, Past, Unsettled
      <4>3. req[w].undo.tier \in Tiers
        BY <2>2, <4>1 DEF UndoToken
      <4>4. QED
        BY <4>1, <4>2, <4>3
    <3>4. QED
      BY <3>2, <3>3
  <2>5. CASE /\ FaultCount < MAX_VERSIONS_PER_FILE
             /\ now <= Min({VERSION_RETENTION_SECS, TRASH_RETENTION_SECS})
    <3>1. now \in Nat /\ VERSION_RETENTION_SECS \in Nat /\ TRASH_RETENTION_SECS \in Nat
      BY <2>1, ServerAssumption DEF WriterInv, Typed, TypeOK
    <3>2. now <= VERSION_RETENTION_SECS /\ now <= TRASH_RETENTION_SECS
      <4> DEFINE R == {VERSION_RETENTION_SECS, TRASH_RETENTION_SECS}
      <4>1. Min(R) \in R /\ \A n \in R : Min(R) <= n
        BY <3>1, MinOfNats
      <4>2. QED
        BY <2>5, <3>1, <4>1
    <3>3. Window
      BY <2>1, <2>5, <3>2 DEF Window
    <3>4. Agree(p) \/ Saved(w, p)
      BY <2>1, <3>3 DEF WriterInv, Safe
    <3>5. QED
      BY <2>2, <2>3, <3>4 DEF Saved
  <2>6. QED
    BY <2>1, <2>4, <2>5
<1>2. QED
  BY <1>1, WriterInvariant, PTL

\* What the history routes give back of p.
Restorable(p) == {HashOf[get_version(e)] : e \in list_versions(p)}
                 \cup {HashOf[c] : c \in {get_trash(p)} \ {None}}

\* No entry of S is newer than e: not a later second, not a higher suffix.
Newest(S, e) == \A f \in S : e.ts > f.ts \/ (e.ts = f.ts /\ e.seq >= f.seq)

\* A version can be restored, and so can the newest trashed file.
LEMMA RestorableNext ==
    ASSUME Typed', NEW p \in Paths, NEW t \in Tiers, NEW e \in history'[t][p],
           t = "Trash" => Newest(history'[t][p], e) /\ \A f \in history'[t][p] :
                             f.ts = e.ts /\ f.seq = e.seq => f = e
    PROVE  HashOf[e.content] \in Restorable(p)'
<1>1. CASE t = "Versions"
  BY <1>1 DEF Restorable, list_versions, get_version
<1>2. CASE t = "Trash"
  <2>1. PICK S : S = history'["Trash"][p]
    OBVIOUS
  <2>2. \A f \in S : f.ts \in Nat /\ f.seq \in Nat /\ f.content \in Contents
    BY <1>2, <2>1 DEF Typed, TypeOK, HistoryEntry
  <2>3. newest(S) = e
    <3>1. e \in S /\ Newest(S, e) /\ \A f \in S : f.ts = e.ts /\ f.seq = e.seq => f = e
      BY <1>2, <2>1
    <3>2. ASSUME NEW f \in S, Newest(S, f) PROVE f = e
      BY <2>2, <3>1, <3>2 DEF Newest
    <3>3. QED
      BY <3>1, <3>2 DEF newest, Newest
  <2>4. newest(history["Trash"][p])' = e
    BY <2>1, <2>3 DEF newest
  <2>5. get_trash(p)' = e.content
    BY <1>2, <2>4 DEF get_trash
  <2>6. QED
    BY <1>2, <2>1, <2>2, <2>5, ServerAssumption DEF Restorable
<1>3. QED
  BY <1>1, <1>2 DEF Tiers

\* A commit that replaces or deletes a live row leaves its content where the
\* history routes find it (spec 4.3, 8.1, 9): for one writer at a time, in
\* every behaviour in which nothing but commits fails, with the retention pass
\* at any moment between the archive and the commit.
THEOREM HistoryOfOneWriter ==
    ASSUME NEW w, OneByOne(w), Faults \subseteq {"commit"}
    PROVE  Spec => HistoryComplete
<1>1. ASSUME WriterInv(w), FaultInv, ServerInv', [Next]_vars, NEW p \in Paths,
             IsLive(rows[p]), rows'[p] # rows[p]
      PROVE  rows[p].hash \in Restorable(p)'
  <2>1. OnlyCommitsFailed /\ ~Fault("uncertain")
    BY <1>1 DEF FaultInv, OnlyCommitsFailed, Fault
  <2>2. WriterStep(w)
    BY <1>1, WriterShape DEF WriterInv
  <2>3. Commits(w)
    BY <1>1, <2>1, <2>2 DEF WriterStep, Arrives, Enters, Leaves, Orphans, Passes, Places, Errs,
                            Waits, Moves, Undoes, Shortens, Still
  <2>4. p = req[w].path /\ req[w].stage = "placed" /\ history' = history
    BY <1>1, <2>3 DEF Commits
  <2>5. req[w].undo # None /\ HashOf[req[w].undo.entry.content] = rows[p].hash
    BY <1>1, <2>1, <2>4 DEF WriterInv, Clean
  <2>6. PICK t, e : t = req[w].undo.tier /\ e = req[w].undo.entry
    OBVIOUS
  <2>7. w \in Requests /\ req[w].undo \in UndoToken \cup {None}
    BY <1>1 DEF OneByOne, WriterInv, Typed, TypeOK, Request
  <2>8. t \in Tiers /\ e \in history'[t][p] /\ e.ts = req[w].ts
    BY <1>1, <2>4, <2>5, <2>6, <2>7 DEF WriterInv, Past, UndoToken
  <2>9. \A f \in history'[t][p] : f.ts < req[w].ts \/ f = e
    BY <1>1, <2>4, <2>6, <2>8 DEF WriterInv, Past, Own
  <2>10. \A f \in history'[t][p] : f.ts \in Nat /\ f.seq \in Nat
    BY <1>1, <2>8 DEF ServerInv, Typed, TypeOK, HistoryEntry
  <2>11. Newest(history'[t][p], e) /\ \A f \in history'[t][p] : f.ts = e.ts /\ f.seq = e.seq => f = e
    BY <2>8, <2>9, <2>10 DEF Newest
  <2>12. HashOf[e.content] \in Restorable(p)'
    BY <1>1, <2>8, <2>11, RestorableNext DEF ServerInv
  <2>13. QED
    BY <2>5, <2>6, <2>12
<1> DEFINE Kind == \A p \in Paths : IsLive(rows[p]) /\ rows'[p] # rows[p] =>
                      LET restorable(q) == {HashOf[get_version(e)] : e \in list_versions(q)}
                                           \cup {HashOf[c] : c \in {get_trash(q)} \ {None}}
                      IN  rows[p].hash \in restorable(p)'
<1>2. WriterInv(w) /\ FaultInv /\ ServerInv' /\ [Next]_vars => [Kind]_vars
  BY <1>1 DEF Restorable
<1>3. FullInv => FaultInv /\ ServerInv
  BY DEF FullInv
<1> HIDE DEF Kind
<1>4. Spec => [][Kind]_vars
  BY <1>2, <1>3, WriterInvariant, FullInvariant, PTL DEF Spec
<1>5. QED
  BY <1>4 DEF HistoryComplete, Kind

-----------------------------------------------------------------------------
(* History, for any number of writers, when nothing fails                  *)

\* What the handlers do not ensure, as `now` is read before the lock is asked
\* for: the requests of a path get the lock in the order of their clocks, so
\* that a delete is not older than what the trash has, and fewer versions than
\* the pass keeps are as new as the one that is being archived.
InTurn ==
    \A r \in Requests : req[r].stage \in {"gated", "moved", "placed"} =>
        /\ req[r].op = "delete" => \A e \in history["Trash"][req[r].path] : e.ts <= req[r].ts
        /\ Cardinality({e \in history["Versions"][req[r].path] : e.ts >= req[r].ts})
              <= MAX_VERSIONS_PER_FILE

\* The suffixes of a second are 0, 1, 2, ... without a gap, one file each.
Filled(S) ==
    /\ \A e, f \in S : e.ts = f.ts /\ e.seq = f.seq => e = f
    /\ \A e \in S : \A m \in Nat : m < e.seq => \E f \in S : f.ts = e.ts /\ f.seq = m

\* Between its archive and its commit a request has the content of the live
\* row as its own entry, the newest one if it is in the trash.
Aside(r) ==
    req[r].stage \in {"moved", "placed"} /\ IsLive(rows[req[r].path]) =>
        /\ req[r].undo # None
        /\ HashOf[req[r].undo.entry.content] = rows[req[r].path].hash
        /\ req[r].undo.entry.ts = req[r].ts
        /\ req[r].undo.entry \in history[req[r].undo.tier][req[r].path]
        /\ req[r].undo.tier = "Trash" => Newest(history["Trash"][req[r].path], req[r].undo.entry)

\* No request is older than a retention period.
Fresh(r) ==
    req[r].stage # "idle" =>
        /\ req[r].ts <= now
        /\ now <= req[r].ts + VERSION_RETENTION_SECS /\ now <= req[r].ts + TRASH_RETENTION_SECS

TurnInv ==
    /\ \A r \in Requests : Fresh(r) /\ Aside(r)
    /\ \A p \in Paths : Filled(history["Trash"][p])

\* The free suffix of a second is the next one.
LEMMA NextSuffix ==
    ASSUME NEW S \in SUBSET HistoryEntry, IsFiniteSet(S), Filled(S), NEW ts \in Nat,
           NEW e \in HistoryEntry, e.ts = ts, e.seq = FreeSeq(S, ts)
    PROVE  /\ Filled(S \cup {e})
           /\ (\A f \in S : f.ts <= ts) => Newest(S \cup {e}, e)
<1>1. /\ e.seq \in Nat /\ \A f \in S : f.ts = ts => f.seq # e.seq
      /\ \A m \in Nat : m < e.seq => \E f \in S : f.ts = ts /\ f.seq = m
  BY FreeSuffix
<1>2. \A f \in S : f.seq \in Nat /\ f.ts \in Nat
  BY DEF HistoryEntry
<1>3. ASSUME NEW f \in S, f.ts = ts PROVE f.seq < e.seq
  <2>1. e.seq < f.seq => \E g \in S : g.ts = f.ts /\ g.seq = e.seq
    BY <1>1 DEF Filled
  <2>2. QED
    BY <1>1, <1>2, <1>3, <2>1
<1>4. Filled(S \cup {e})
  <2>1. ASSUME NEW f \in S \cup {e}, NEW g \in S \cup {e}, f.ts = g.ts, f.seq = g.seq
        PROVE  f = g
    BY <1>1, <2>1 DEF Filled
  <2>2. ASSUME NEW f \in S \cup {e}, NEW m \in Nat, m < f.seq
        PROVE  \E g \in S \cup {e} : g.ts = f.ts /\ g.seq = m
    BY <1>1, <2>2 DEF Filled
  <2>3. QED
    BY <2>1, <2>2 DEF Filled
<1>5. ASSUME \A f \in S : f.ts <= ts PROVE Newest(S \cup {e}, e)
  BY <1>1, <1>2, <1>3, <1>5 DEF Newest
<1>6. QED
  BY <1>4, <1>5

\* The retention pass drops a second from the trash whole, and no entry of a
\* request in turn.
LEMMA PruneTurn ==
    ASSUME Typed, TurnInv, InTurn, NEW p \in Paths, Shortens(p)
    PROVE  TurnInv'
<1>0. /\ "Trash" \in Tiers /\ "Versions" \in Tiers /\ now \in Nat /\ MAX_VERSIONS_PER_FILE \in Nat
      /\ VERSION_RETENTION_SECS \in Nat /\ TRASH_RETENTION_SECS \in Nat
      /\ rows' = rows /\ req' = req /\ now' = now
  BY ServerAssumption DEF Typed, TypeOK, Tiers, Shortens
<1>1. \A r \in Requests : Fresh(r)'
  BY <1>0 DEF TurnInv, Fresh
<1>2. ASSUME NEW x \in Paths PROVE Filled(history'["Trash"][x])
  <2>1. PICK S, N : S = history["Trash"][x] /\ N = history'["Trash"][x]
    OBVIOUS
  <2>2. N = S \/ N = {e \in S : Age(e) <= TRASH_RETENTION_SECS}
    BY <1>0, <2>1 DEF Shortens
  <2>3. Filled(S)
    BY <2>1 DEF TurnInv
  <2>4. \A e, f \in S : e.ts = f.ts => Age(e) = Age(f)
    BY DEF Age
  <2>5. CASE N = {e \in S : Age(e) <= TRASH_RETENTION_SECS}
    <3>1. \A e \in N : \A m \in Nat : m < e.seq => \E f \in N : f.ts = e.ts /\ f.seq = m
      <4>1. SUFFICES ASSUME NEW e \in N, NEW m \in Nat, m < e.seq
                     PROVE  \E f \in N : f.ts = e.ts /\ f.seq = m
        OBVIOUS
      <4>2. PICK f \in S : f.ts = e.ts /\ f.seq = m
        <5>1. e \in S
          BY <2>5
        <5>2. QED
          BY <2>3, <4>1, <5>1, Zenon DEF Filled
      <4>3. f \in N
        BY <2>4, <2>5, <4>2
      <4>4. QED
        BY <4>2, <4>3
    <3>2. N \subseteq S
      BY <2>5
    <3>3. \A e, f \in N : e.ts = f.ts /\ e.seq = f.seq => e = f
      <4>1. \A e, f \in S : e.ts = f.ts /\ e.seq = f.seq => e = f
        BY <2>3, Zenon DEF Filled
      <4>2. QED
        BY <3>2, <4>1
    <3>4. Filled(N)
      BY <3>1, <3>3, Zenon DEF Filled
    <3>5. QED
      BY <2>1, <3>4
  <2>6. QED
    BY <2>1, <2>2, <2>3, <2>5
<1>3. ASSUME NEW r \in Requests PROVE Aside(r)'
  <2>1. SUFFICES ASSUME req[r].stage \in {"moved", "placed"}, IsLive(rows[req[r].path])
                 PROVE  /\ req[r].undo.entry \in history'[req[r].undo.tier][req[r].path]
                        /\ req[r].undo.tier = "Trash" =>
                              Newest(history'["Trash"][req[r].path], req[r].undo.entry)
    BY <1>0 DEF TurnInv, Aside
  <2>2. PICK t, x, e : t = req[r].undo.tier /\ x = req[r].path /\ e = req[r].undo.entry
    OBVIOUS
  <2>3. req[r] \in Request /\ req[r].undo # None
    BY <2>1 DEF Typed, TypeOK, TurnInv, Aside
  <2>4. t \in Tiers /\ x \in Paths /\ req[r].ts \in Nat
    BY <2>2, <2>3 DEF Request, UndoToken
  <2>5. e \in history[t][x] /\ e.ts = req[r].ts /\ (t = "Trash" => Newest(history["Trash"][x], e))
    BY <2>1, <2>2 DEF TurnInv, Aside
  <2>6. Fresh(r)
    BY DEF TurnInv
  <2>7. Age(e) <= VERSION_RETENTION_SECS /\ Age(e) <= TRASH_RETENTION_SECS
    BY <1>0, <2>1, <2>4, <2>5, <2>6 DEF Age, Fresh
  <2>8. Cardinality({f \in history["Versions"][x] : f.ts >= e.ts}) <= MAX_VERSIONS_PER_FILE
    BY <2>1, <2>2, <2>5 DEF InTurn
  <2>9. history'[t][x] \subseteq history[t][x]
    BY <1>0, <2>4 DEF Shortens, Tiers, NewestCuts
  <2>10. e \in history'[t][x]
    <3>1. ASSUME NEW kept \in NewestCuts(history["Versions"][p], MAX_VERSIONS_PER_FILE),
                 history'["Versions"][p] = {f \in kept : Age(f) <= VERSION_RETENTION_SECS},
                 x = p, t = "Versions"
          PROVE  e \in history'[t][x]
      <4>1. PICK S : S = history["Versions"][p]
        OBVIOUS
      <4>2. IsFiniteSet(S) /\ e \in S /\ \A f \in S : f.ts \in Nat
        BY <1>0, <2>5, <3>1, <4>1 DEF Typed, TypeOK, HistoryFinite, HistoryEntry
      <4>3. Cardinality({f \in S : f.ts >= e.ts}) <= MAX_VERSIONS_PER_FILE
        BY <2>8, <3>1, <4>1
      <4>4. PICK n \in Nat : n = MAX_VERSIONS_PER_FILE
        BY <1>0
      <4>5. kept \in NewestCuts(S, n) /\ Cardinality({f \in S : f.ts >= e.ts}) <= n
        BY <4>1, <4>3, <4>4
      <4>6. e \in kept
        BY <4>2, <4>5, CutKeeps
      <4>7. QED
        BY <2>7, <3>1, <4>6
    <3>2. CASE history'["Trash"][p] = {f \in history["Trash"][p] : Age(f) <= TRASH_RETENTION_SECS}
               /\ x = p /\ t = "Trash"
      BY <2>5, <2>7, <3>2
    <3>3. CASE history'[t][x] = history[t][x]
      BY <2>5, <3>3
    <3>4. \/ \E kept \in NewestCuts(history["Versions"][p], MAX_VERSIONS_PER_FILE) :
                history'["Versions"][p] = {f \in kept : Age(f) <= VERSION_RETENTION_SECS}
                /\ x = p /\ t = "Versions"
          \/ history'["Trash"][p] = {f \in history["Trash"][p] : Age(f) <= TRASH_RETENTION_SECS}
             /\ x = p /\ t = "Trash"
          \/ history'[t][x] = history[t][x]
      BY <2>4 DEF Shortens, Tiers
    <3>5. QED
      BY <3>1, <3>2, <3>3, <3>4
  <2>11. t = "Trash" => Newest(history'["Trash"][x], e)
    BY <2>5, <2>9 DEF Newest
  <2>12. QED
    BY <2>2, <2>10, <2>11
<1>4. QED
  BY <1>1, <1>2, <1>3 DEF TurnInv

\* A handler in turn archives the content of the live row, on top.
LEMMA MoveTurn ==
    ASSUME Typed, LockInv, Calm, TurnInv, InTurn, NEW r \in Requests, NEW tier \in Tiers,
           move_live(r, tier, req[r].path), req[r].stage = "gated",
           UNCHANGED <<rows, now, faults>>,
           tier = IF req[r].op = "put" THEN "Versions" ELSE "Trash"
    PROVE  TurnInv'
<1>0. /\ req[r].path \in Paths /\ req[r].ts \in Nat /\ req[r].op \in {"put", "delete"}
      /\ "Trash" \in Tiers /\ "Versions" \in Tiers
  BY DEF Typed, TypeOK, Request, Tiers
<1>1. PICK e : /\ Moves(r, tier, e)
               /\ e # None => e.seq = FreeSeq(history[tier][req[r].path], req[r].ts)
  BY MoveShape
<1>2. PICK x \in Paths : x = req[r].path
  BY <1>0
<1>3. (tier = "Trash") <=> req[r].op # "put"
  OBVIOUS
<1>4. /\ \A s \in Requests \ {r} : req'[s] = req[s]
      /\ ~req'[r].gone
  BY <1>2, <1>3, MoveCalm DEF Local
<1>5. ~req[r].gone /\ \A s \in Requests, p \in Paths : ~Unsettled(s, p)
  BY OneWriter DEF Unsettled, Calm
<1>6. /\ SameSlot(r) /\ req'[r].stage = (IF tier = "Trash" THEN "placed" ELSE "moved")
      /\ req'[r].undo = None <=> e = None
      /\ e # None => req'[r].undo.tier = tier /\ req'[r].undo.entry = e
  BY <1>1, <1>5 DEF Moves
<1>7. /\ (e = None <=> live[x] = None) /\ rows' = rows /\ now' = now
      /\ e # None => e.ts = req[r].ts /\ e.content = live[x] /\ e \in HistoryEntry
  BY <1>1, <1>2 DEF Moves
<1>8. \A t \in Tiers, p \in Paths :
          history'[t][p] = IF t = tier /\ p = x /\ e # None
                           THEN history[t][p] \cup {e} ELSE history[t][p]
  BY <1>1, <1>2 DEF Moves
<1>9. ASSUME NEW s \in Requests PROVE Fresh(s)'
  BY <1>4, <1>6, <1>7 DEF Fresh, TurnInv, SameSlot
<1>10. PICK S : S = history["Trash"][x]
  OBVIOUS
<1>11. S \in SUBSET HistoryEntry /\ IsFiniteSet(S) /\ Filled(S)
  BY <1>0, <1>10 DEF Typed, TypeOK, HistoryFinite, TurnInv
<1>12. ASSUME tier = "Trash", e # None
       PROVE  Filled(S \cup {e}) /\ Newest(S \cup {e}, e)
  <2>1. \A f \in S : f.ts <= req[r].ts
    BY <1>0, <1>2, <1>10, <1>12 DEF InTurn
  <2>2. e.ts = req[r].ts /\ e \in HistoryEntry /\ e.seq = FreeSeq(S, req[r].ts)
    BY <1>1, <1>2, <1>7, <1>10, <1>12
  <2>3. QED
    BY <1>0, <1>11, <2>1, <2>2, NextSuffix
<1>13. ASSUME NEW p \in Paths PROVE Filled(history'["Trash"][p])
  <2>1. CASE tier = "Trash" /\ p = x /\ e # None
    BY <1>0, <1>8, <1>10, <1>12, <2>1
  <2>2. CASE ~(tier = "Trash" /\ p = x /\ e # None)
    <3>1. history'["Trash"][p] = history["Trash"][p]
      BY <1>0, <1>8, <2>2
    <3>2. QED
      BY <3>1 DEF TurnInv
  <2>3. QED
    BY <2>1, <2>2
<1>14. ASSUME NEW s \in Requests, s # r PROVE Aside(s)'
  <2>1. req'[s] = req[s] /\ req[s].path \in Paths
    BY <1>4, <1>14 DEF Typed, TypeOK, Request
  <2>2. QED
    BY <1>5, <2>1 DEF Aside, Unsettled
<1>15. Aside(r)'
  <2>1. SUFFICES ASSUME IsLive(rows[x]) PROVE Aside(r)'
    BY <1>2, <1>6, <1>7 DEF Aside, SameSlot
  <2>2. live[x] # None /\ HashOf[live[x]] = rows[x].hash
    BY <1>5, <2>1 DEF Calm, Agree
  <2>3. e # None /\ e \in history'[tier][x]
    BY <1>7, <1>8, <2>2
  <2>4. tier = "Trash" => Newest(history'["Trash"][x], e)
    BY <1>8, <1>10, <1>12, <2>3
  <2>5. /\ req'[r].undo # None /\ req'[r].undo.tier = tier /\ req'[r].undo.entry = e
        /\ req'[r].path = x /\ req'[r].ts = e.ts
    BY <1>2, <1>6, <1>7, <2>3 DEF SameSlot
  <2>6. QED
    BY <1>7, <2>2, <2>3, <2>4, <2>5 DEF Aside
<1>16. QED
  BY <1>9, <1>13, <1>14, <1>15 DEF TurnInv

\* Every step without a failure keeps what a request has put aside.
LEMMA TurnStep ==
    ASSUME ServerInv, Calm, TurnInv, InTurn,
           \/ \E r \in Requests : Begin(r) \/ Step(r)
           \/ Prune \/ Tick \/ UNCHANGED vars
    PROVE  TurnInv'
<1>0. /\ Typed /\ LockInv /\ StageInv /\ now \in Nat
      /\ VERSION_RETENTION_SECS \in Nat /\ TRASH_RETENTION_SECS \in Nat
      /\ IdleRequest.stage = "idle"
  BY ServerAssumption, IdleType DEF ServerInv, Typed, TypeOK
<1>1. ASSUME NEW r \in Requests, history' = history, now' = now, rows' = rows,
             \A s \in Requests \ {r} : req'[s] = req[s], Fresh(r)', Aside(r)'
      PROVE  TurnInv'
  BY <1>1 DEF TurnInv, Fresh, Aside
<1>2. ASSUME NEW r \in Requests, Begin(r) PROVE TurnInv'
  <2>1. PICK op \in {"put", "delete"}, p \in Paths, c \in Contents, parent \in Hashes \cup {NoHash} :
           req' = [req EXCEPT ![r] =
                     [stage |-> "begun", op |-> op, path |-> p, parent |-> parent,
                      content |-> c, ts |-> now, cur |-> None, gone |-> FALSE,
                      undo |-> None]]
    BY <1>2 DEF Begin
  <2>2. req'[r] = [stage |-> "begun", op |-> op, path |-> p, parent |-> parent,
                   content |-> c, ts |-> now, cur |-> None, gone |-> FALSE, undo |-> None]
        /\ \A s \in Requests \ {r} : req'[s] = req[s]
    BY <1>0, <2>1 DEF Typed, TypeOK
  <2>3. req'[r].stage = "begun" /\ req'[r].ts = now
    BY <2>2
  <2>4. history' = history /\ now' = now /\ rows' = rows
    BY <1>2 DEF Begin
  <2>5. Fresh(r)' /\ Aside(r)'
    BY <1>0, <2>3, <2>4 DEF Fresh, Aside
  <2>6. QED
    BY <1>1, <2>2, <2>4, <2>5
<1>3. ASSUME NEW r \in Requests, LockAndCheck(r) PROVE TurnInv'
  <2>1. history' = history /\ now' = now /\ rows' = rows /\ req[r].stage = "begun"
    BY <1>3 DEF LockAndCheck
  <2>2. req[r] \in Request
    BY <1>0 DEF Typed, TypeOK
  <2>3. PICK z : /\ req' = [req EXCEPT ![r] = z]
                 /\ z = IdleRequest \/ z = [req[r] EXCEPT !.stage = "gated", !.cur = rows[req[r].path]]
    BY <1>3 DEF LockAndCheck
  <2>4. req'[r] = z /\ \A s \in Requests \ {r} : req'[s] = req[s]
    BY <1>0, <2>3 DEF Typed, TypeOK
  <2>5. z.stage = "idle" \/ (z.stage = "gated" /\ z.ts = req[r].ts)
    BY <1>0, <2>2, <2>3 DEF Request
  <2>6. Fresh(r)' /\ Aside(r)'
    BY <2>1, <2>4, <2>5 DEF Fresh, Aside, TurnInv
  <2>7. QED
    BY <1>1, <2>1, <2>4, <2>6
<1>4. ASSUME NEW r \in Requests, ArchiveVersion(r) PROVE TurnInv'
  <2>1. /\ req[r].stage = "gated" /\ req[r].op = "put" /\ rows' = rows /\ now' = now
        /\ faults' = faults /\ req[r] \in Request
    BY <1>0, <1>4 DEF ArchiveVersion, Typed, TypeOK
  <2>2. CASE IsLive(req[r].cur)
    BY <1>0, <1>4, <2>1, <2>2, MoveTurn DEF ArchiveVersion, Tiers
  <2>3. CASE ~IsLive(req[r].cur)
    <3> DEFINE q == [req[r] EXCEPT !.stage = "moved"]
    <3>1. req' = [req EXCEPT ![r] = q] /\ history' = history
      BY <1>4, <2>3 DEF ArchiveVersion
    <3>2. q.stage = "moved" /\ q.path = req[r].path /\ q.ts = req[r].ts
      BY <2>1 DEF Request
    <3> HIDE DEF q
    <3>3. req'[r] = q /\ \A s \in Requests \ {r} : req'[s] = req[s]
      BY <1>0, <3>1 DEF Typed, TypeOK
    <3>4. ~IsLive(rows[req[r].path])
      BY <1>0, <2>1, <2>3, OneWriter
    <3>5. Fresh(r)' /\ Aside(r)'
      BY <2>1, <3>2, <3>3, <3>4 DEF Fresh, Aside, TurnInv
    <3>6. QED
      BY <1>1, <2>1, <3>1, <3>3, <3>5
  <2>4. QED
    BY <2>2, <2>3
<1>5. ASSUME NEW r \in Requests, PutLive(r) PROVE TurnInv'
  <2>1. /\ req[r].stage = "moved" /\ rows' = rows /\ now' = now /\ history' = history
        /\ req[r] \in Request /\ ~req[r].gone
    BY <1>0, <1>5 DEF PutLive, Calm, Typed, TypeOK
  <2> DEFINE q == [req[r] EXCEPT !.stage = "placed"]
  <2>2. req' = [req EXCEPT ![r] = q]
    BY <1>5, <2>1 DEF PutLive
  <2>3. q.stage = "placed" /\ q.path = req[r].path /\ q.ts = req[r].ts /\ q.undo = req[r].undo
    BY <2>1 DEF Request
  <2> HIDE DEF q
  <2>4. req'[r] = q /\ \A s \in Requests \ {r} : req'[s] = req[s]
    BY <1>0, <2>2 DEF Typed, TypeOK
  <2>5. Fresh(r)' /\ Aside(r)'
    BY <2>1, <2>3, <2>4 DEF Fresh, Aside, TurnInv
  <2>6. QED
    BY <1>1, <2>1, <2>4, <2>5
<1>6. ASSUME NEW r \in Requests, TrashLive(r) PROVE TurnInv'
  BY <1>0, <1>6, MoveTurn DEF TrashLive, Tiers
<1>7. ASSUME NEW r \in Requests, Commit(r) PROVE TurnInv'
  <2>1. /\ history' = history /\ now' = now /\ req'[r] = IdleRequest /\ req[r].stage = "placed"
        /\ \A s \in Requests \ {r} : req'[s] = req[s]
    BY <1>0, <1>7 DEF Commit, Typed, TypeOK
  <2>2. \A s \in Requests \ {r} : req[s].stage \notin {"moved", "placed"}
    <3>1. \A s \in Requests : req[s].path \in Paths
      BY <1>0 DEF Typed, TypeOK, Request
    <3>2. QED
      BY <1>0, <2>1, <3>1, OneWriter DEF Unsettled
  <2>3. QED
    BY <1>0, <2>1, <2>2 DEF TurnInv, Fresh, Aside
<1>8. ASSUME NEW r \in Requests, Undo(r) \/ Rollback(r) PROVE FALSE
  BY <1>8 DEF Undo, Rollback, Calm
<1>9. CASE Prune
  BY <1>0, <1>9, PruneShape, PruneTurn
<1>10. CASE Tick
  <2>1. PICK m : m = Min({VERSION_RETENTION_SECS, TRASH_RETENTION_SECS})
    OBVIOUS
  <2>2. m \in Nat /\ m <= VERSION_RETENTION_SECS /\ m <= TRASH_RETENTION_SECS
    BY <1>0, <2>1, MinOfNats
  <2>3. /\ rows' = rows /\ history' = history /\ req' = req /\ now' = now + 1
        /\ \A r \in Requests : req[r].stage # "idle" => now < req[r].ts + m
    BY <1>10, <2>1 DEF Tick
  <2>4. ASSUME NEW r \in Requests PROVE Fresh(r)'
    <3>1. req[r].ts \in Nat
      BY <1>0 DEF Typed, TypeOK, Request
    <3>2. QED
      BY <1>0, <2>2, <2>3, <3>1 DEF TurnInv, Fresh
  <2>5. QED
    BY <2>3, <2>4 DEF TurnInv, Aside
<1>11. CASE UNCHANGED vars
  BY <1>11 DEF vars, TurnInv, Fresh, Aside
<1>12. QED
  BY <1>2, <1>3, <1>4, <1>5, <1>6, <1>7, <1>8, <1>9, <1>10, <1>11 DEF Step

LEMMA TurnInit == Init => TurnInv
<1>1. SUFFICES ASSUME Init PROVE TurnInv
  OBVIOUS
<1>2. \A r \in Requests : req[r].stage = "idle"
  BY <1>1, IdleType DEF Init
<1>3. \A p \in Paths : history["Trash"][p] = {}
  BY <1>1 DEF Init, Tiers
<1>4. QED
  BY <1>2, <1>3 DEF TurnInv, Fresh, Aside, Filled

\* A commit that replaces or deletes a live row leaves its content where the
\* history routes find it, for any number of concurrent writers and with
\* several writes in one second, when nothing fails and requests come in turn:
\* the free suffix of move_live_returning is the newest of its second, so
\* get_trash opens the file of this delete, and prune_versions and
\* prune_trash, which do not take the lock, leave it.
THEOREM HistoryInTurn ==
    ASSUME Faults = {}
    PROVE  Spec /\ []InTurn => HistoryComplete
<1>1. ASSUME FullInv, TurnInv, InTurn, FullInv', [Next]_vars PROVE TurnInv'
  <2>1. Healthy' /\ Calm
    BY <1>1 DEF FullInv, FaultInv, Healthy, CalmInv
  <2>2. ServerInv /\ Typed
    BY <1>1 DEF FullInv, ServerInv
  <2>3. QED
    BY <1>1, <2>1, <2>2, HealthyStep, TurnStep
<1>2. ASSUME FullInv, TurnInv, FullInv', [Next]_vars, NEW p \in Paths,
             IsLive(rows[p]), rows'[p] # rows[p]
      PROVE  rows[p].hash \in Restorable(p)'
  <2>1. Healthy' /\ Calm /\ Typed /\ Typed' /\ LockInv
    BY <1>2 DEF FullInv, FaultInv, Healthy, CalmInv, ServerInv
  <2>2. PICK r \in Requests : Commit(r)
    <3>1. \/ \E r \in Requests : Begin(r) \/ Step(r)
          \/ Prune \/ Tick \/ UNCHANGED vars
      BY <1>2, <2>1, HealthyStep
    <3>2. QED
      BY <1>2, <3>1 DEF Begin, Step, LockAndCheck, ArchiveVersion, PutLive, TrashLive, Undo,
                        Rollback, Prune, Tick, vars
  <2>3. req[r].path = p /\ req[r].stage = "placed" /\ history' = history
    BY <1>2, <2>1, <2>2 DEF Commit, WriteRow, Typed, TypeOK
  <2>4. PICK t, e : t = req[r].undo.tier /\ e = req[r].undo.entry
    OBVIOUS
  <2>5. /\ req[r].undo # None /\ HashOf[e.content] = rows[p].hash /\ e \in history[t][p]
        /\ t = "Trash" => Newest(history["Trash"][p], e)
    BY <1>2, <2>3, <2>4 DEF TurnInv, Aside
  <2>6. t \in Tiers
    BY <2>1, <2>4, <2>5 DEF Typed, TypeOK, Request, UndoToken
  <2>7. t = "Trash" => \A f \in history[t][p] : f.ts = e.ts /\ f.seq = e.seq => f = e
    BY <1>2, <2>5 DEF TurnInv, Filled
  <2>8. QED
    BY <2>1, <2>3, <2>5, <2>6, <2>7, RestorableNext
<1> DEFINE Kind == \A p \in Paths : IsLive(rows[p]) /\ rows'[p] # rows[p] =>
                      LET restorable(q) == {HashOf[get_version(e)] : e \in list_versions(q)}
                                           \cup {HashOf[c] : c \in {get_trash(q)} \ {None}}
                      IN  rows[p].hash \in restorable(p)'
<1>3. FullInv /\ TurnInv /\ FullInv' /\ [Next]_vars => [Kind]_vars
  BY <1>2 DEF Restorable
<1>4. FullInv /\ TurnInv /\ InTurn /\ FullInv' /\ [Next]_vars => TurnInv'
  BY <1>1
<1> HIDE DEF Kind
<1>5. Spec /\ []InTurn => [][Kind]_vars
  BY <1>3, <1>4, TurnInit, FullInvariant, PTL DEF Spec
<1>6. QED
  BY <1>5 DEF HistoryComplete, Kind

=============================================================================
