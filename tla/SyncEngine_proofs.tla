-------------------------- MODULE SyncEngine_proofs --------------------------
(***************************************************************************)
(* Proofs about devices that sync one vault, for any number of devices,    *)
(* paths and contents and any number of edits and failures.                *)
(***************************************************************************)
EXTENDS SyncEngine, FiniteSetTheorems, SequenceTheorems, TLAPS

-----------------------------------------------------------------------------
(* The operators the plan is made with                                     *)

UpTo(S, n) == {j \in S : j <= n}

Rank(S, n) == Cardinality(UpTo(S, n))

\* The ranks of a finite set of numbers are different numbers up to its size.
LEMMA Ranks ==
    ASSUME NEW S \in SUBSET Nat, IsFiniteSet(S)
    PROVE  /\ \A k \in S : Rank(S, k) \in 1..Cardinality(S)
           /\ \A k, m \in S : k < m => Rank(S, k) < Rank(S, m)
<1>1. ASSUME NEW k \in S
      PROVE  /\ UpTo(S, k) \in SUBSET S /\ IsFiniteSet(UpTo(S, k))
             /\ Rank(S, k) \in 1..Cardinality(S)
  <2>1. UpTo(S, k) \in SUBSET S /\ k \in UpTo(S, k)
    BY DEF UpTo
  <2>2. IsFiniteSet(UpTo(S, k)) /\ Rank(S, k) <= Cardinality(S)
    BY <2>1, FS_Subset DEF Rank
  <2>3. Rank(S, k) \in Nat /\ Cardinality(S) \in Nat /\ Rank(S, k) # 0
    BY <2>1, <2>2, FS_CardinalityType, FS_EmptySet DEF Rank
  <2>4. QED
    BY <2>1, <2>2, <2>3
<1>2. ASSUME NEW k \in S, NEW m \in S, k < m
      PROVE  Rank(S, k) < Rank(S, m)
  <2>1. UpTo(S, k) \in SUBSET UpTo(S, m) /\ UpTo(S, k) # UpTo(S, m)
    <3>1. S \subseteq Nat /\ k \in Nat /\ m \in Nat /\ k < m
      BY <1>2
    <3>2. \A j \in S : j <= k => j <= m
      BY <3>1
    <3>3. m \in UpTo(S, m) /\ m \notin UpTo(S, k)
      BY <3>1 DEF UpTo
    <3>4. QED
      BY <3>2, <3>3 DEF UpTo
  <2>2. IsFiniteSet(UpTo(S, m)) /\ IsFiniteSet(UpTo(S, k))
    BY <1>1
  <2>3. Rank(S, k) <= Rank(S, m) /\ Rank(S, k) # Rank(S, m)
    BY <2>1, <2>2, FS_Subset DEF Rank
  <2>4. Rank(S, k) \in Nat /\ Rank(S, m) \in Nat
    BY <2>2, FS_CardinalityType DEF Rank
  <2>5. QED
    BY <2>3, <2>4
<1>3. QED
  BY <1>1, <1>2

\* Ascending lists the members of a finite set of numbers, each once, from
\* the smallest on.
LEMMA AscendingList ==
    ASSUME NEW S \in SUBSET Nat, IsFiniteSet(S)
    PROVE  /\ Ascending(S) \in Seq(S)
           /\ DOMAIN Ascending(S) = 1..Cardinality(S)
           /\ Cardinality(S) \in Nat
           /\ \A m, n \in DOMAIN Ascending(S) : m # n => Ascending(S)[m] # Ascending(S)[n]
           /\ \A k \in S : \E n \in DOMAIN Ascending(S) : Ascending(S)[n] = k
<1> DEFINE c == Cardinality(S)
           f == [k \in S |-> Rank(S, k)]
           at == Ascending(S)
<1>1. c \in Nat
  BY FS_CardinalityType
<1>2. f \in [S -> 1..c] /\ \A k, m \in S : f[k] = f[m] => k = m
  <2>1. ASSUME NEW k \in S, NEW m \in S, Rank(S, k) = Rank(S, m) PROVE k = m
    <3>1. k \in Nat /\ m \in Nat /\ Rank(S, k) \in Int
      BY Ranks
    <3>2. ~(k < m) /\ ~(m < k)
      BY <2>1, <3>1, Ranks
    <3>3. QED
      BY <3>1, <3>2
  <2>2. QED
    BY <2>1, Ranks
<1>3. \A n \in 1..c : \E k \in S : f[k] = n
  <2>1. f \in Injection(S, 1..c)
    BY <1>2 DEF Injection, IsInjective
  <2>2. IsFiniteSet(1..c) /\ Cardinality(1..c) = c
    BY <1>1, FS_Interval
  <2>3. f \in Surjection(S, 1..c)
    <3> HIDE DEF f, c
    <3> QED BY <2>1, <2>2, FS_Injection DEF c
  <2>4. QED
    BY <2>3 DEF Surjection
<1>4. \A n \in 1..c : \E k \in S : Cardinality({j \in S : j <= k}) = n
  BY <1>3 DEF Rank, UpTo
<1>5. \A n \in 1..c : at[n] \in S /\ f[at[n]] = n
  BY <1>4 DEF Ascending, Rank, UpTo
<1>a. at = [n \in 1..c |-> at[n]]
  BY DEF Ascending
<1> HIDE DEF f, c, at
<1>6. at \in [1..c -> S] /\ DOMAIN at = 1..c
  BY <1>5, <1>a
<1>7. at \in Seq(S)
  BY <1>1, <1>6
<1>8. \A m, n \in DOMAIN at : m # n => at[m] # at[n]
  BY <1>5, <1>6
<1>9. \A k \in S : \E n \in DOMAIN at : at[n] = k
  <2>1. SUFFICES ASSUME NEW k \in S PROVE at[f[k]] = k /\ f[k] \in DOMAIN at
    OBVIOUS
  <2>2. f[k] \in 1..c
    BY <1>2
  <2>3. QED
    BY <1>2, <1>5, <1>6, <2>2
<1>10. QED
  BY <1>1, <1>6, <1>7, <1>8, <1>9 DEF at, c

\* A live entry is an entry.
LEMMA LiveEntry ==
    ASSUME NEW h \in Hashes \cup {NoHash}
    PROVE  Live(h) \in Entry /\ Live(h) # None /\ Live(h).hash = h /\ version(Live(h)) = h
<1>1. Live(h) \in Entry
  BY DEF Live, Entry
<1>2. QED
  BY <1>1, SentinelAssumption DEF Live, version

\* A tombstone is an entry whose version is Gone.
LEMMA TombEntry ==
    ASSUME NEW h \in Hashes \cup {NoHash}
    PROVE  /\ [hash |-> h, deleted |-> TRUE] \in Entry
           /\ [hash |-> h, deleted |-> TRUE] # None
           /\ version([hash |-> h, deleted |-> TRUE]) = None
<1>1. [hash |-> h, deleted |-> TRUE] \in Entry
  BY DEF Entry
<1>2. QED
  BY <1>1, SentinelAssumption DEF version

\* A side's entry, or the tombstone made for it, has the side's version.
LEMMA SideEntry ==
    ASSUME NEW e \in Entry \cup {None}, NEW b \in Entry \cup {None}
    PROVE  /\ local_or_tombstone(e, b) \in Entry
           /\ version(local_or_tombstone(e, b)) = version(e)
           /\ e # None => local_or_tombstone(e, b) = e
<1>1. CASE e # None
  BY <1>1 DEF local_or_tombstone
<1>2. CASE e = None
  <2>1. PICK h \in Hashes \cup {NoHash} : h = IF b # None THEN b.hash ELSE NoHash
    BY DEF Entry
  <2>2. local_or_tombstone(e, b) = [hash |-> h, deleted |-> TRUE]
    BY <1>2, <2>1 DEF local_or_tombstone
  <2>3. QED
    BY <1>2, <2>2, TombEntry DEF version
<1>3. QED
  BY <1>1, <1>2

\* What the diff of one path is: an action of that path, with the entries its
\* kind needs; nothing where no side has anything.
PlannedAction(a, p, base_entry, local_entry, remote_entry) ==
    /\ a \in Action /\ a.path = p
    /\ a.kind = "Conflict" => /\ a.local = local_or_tombstone(local_entry, base_entry)
                              /\ a.remote = local_or_tombstone(remote_entry, base_entry)
                              /\ a.local \in Entry /\ a.remote \in Entry
                              /\ version(local_entry) # version(remote_entry)
    /\ a.kind \in {"Upload", "DeleteRemote"} =>
          /\ a.local = local_or_tombstone(local_entry, base_entry) /\ a.local \in Entry
          /\ a.remote = remote_entry
          /\ version(remote_entry) = version(base_entry)
    /\ a.kind = "Upload" => version(local_entry) # None
    /\ a.kind = "DeleteRemote" => version(remote_entry) # None
    /\ a.kind = "DeleteLocal" => version(remote_entry) = None
    /\ a.kind = "Conflict" => version(remote_entry) # version(base_entry)
    /\ a.kind \in {"Download", "DeleteLocal"} => version(local_entry) = version(base_entry)
    /\ a.kind = "Nothing" => version(local_entry) = version(remote_entry)
    /\ local_entry = None /\ remote_entry = None /\ base_entry = None => a.kind = "Nothing"

\* diff_path makes such an action.
LEMMA DiffPath ==
    ASSUME NEW p \in Paths, NEW b \in Entry \cup {None}, NEW l \in Entry \cup {None},
           NEW r \in Entry \cup {None}
    PROVE  PlannedAction(diff_path(p, b, l, r), p, b, l, r)
<1> DEFINE a == diff_path(p, b, l, r)
           lt == local_or_tombstone(l, b)
           rt == local_or_tombstone(r, b)
<1>1. lt \in Entry /\ rt \in Entry
  BY SideEntry
<1> HIDE DEF lt, rt
<1>2. CASE version(l) # version(b) /\ version(r) = version(b)
  <2>1. a = action(p, IF version(l) # None THEN "Upload" ELSE "DeleteRemote", lt, r)
    BY <1>2 DEF diff_path, lt
  <2>2. QED
    BY <1>1, <1>2, <2>1 DEF PlannedAction, action, Action, Kinds, version, lt
<1>3. CASE version(l) = version(b) /\ version(r) # version(b)
  <2>1. a = action(p, IF version(r) # None THEN "Download" ELSE "DeleteLocal", l, rt)
    BY <1>3 DEF diff_path, rt
  <2>2. QED
    BY <1>1, <1>3, <2>1 DEF PlannedAction, action, Action, Kinds, version
<1>4. CASE version(l) # version(b) /\ version(r) # version(b) /\ version(l) # version(r)
  <2>1. a = action(p, "Conflict", lt, rt)
    BY <1>4 DEF diff_path, lt, rt
  <2>2. QED
    BY <1>1, <1>4, <2>1 DEF PlannedAction, action, Action, Kinds, version, lt, rt
<1>5. CASE version(l) = version(r)
  <2>1. a = action(p, "Nothing", l, r)
    BY <1>5 DEF diff_path
  <2>2. QED
    BY <1>5, <2>1 DEF PlannedAction, action, Action, Kinds
<1>6. QED
  BY <1>2, <1>3, <1>4, <1>5

\* A list of actions of some kinds, each of its own path.
Listed(acts, diff, kinds) ==
    \E where \in [DOMAIN acts -> Paths] :
        /\ \A i \in DOMAIN acts : acts[i] = diff[where[i]] /\ diff[where[i]].kind \in kinds
        /\ \A i, j \in DOMAIN acts : i # j => where[i] # where[j]

\* The actions of some kinds are listed each once, and all of them.
LEMMA ActionsList ==
    ASSUME NEW diff, NEW kinds, NEW X,
           \A p \in Paths : diff[p].kind \in kinds => diff[p] \in X
    PROVE  /\ ActionsOf(diff, kinds) \in Seq(X)
           /\ Listed(ActionsOf(diff, kinds), diff, kinds)
           /\ \A p \in Paths : diff[p].kind \in kinds =>
                 \E i \in DOMAIN ActionsOf(diff, kinds) : ActionsOf(diff, kinds)[i] = diff[p]
<1> DEFINE S == {i \in DOMAIN PathOrder : diff[PathOrder[i]].kind \in kinds}
           at == Ascending(S)
           acts == ActionsOf(diff, kinds)
<1>1. /\ DOMAIN PathOrder = 1..Len(PathOrder) /\ Len(PathOrder) \in Nat
      /\ \A i \in DOMAIN PathOrder : PathOrder[i] \in Paths
  BY EngineAssumption
<1>2. S \in SUBSET Nat /\ IsFiniteSet(S)
  <2>1. S \in SUBSET (1..Len(PathOrder)) /\ IsFiniteSet(1..Len(PathOrder))
    BY <1>1, FS_Interval
  <2>2. IsFiniteSet(S)
    <3> HIDE DEF S
    <3> QED BY <2>1, FS_Subset
  <2>3. QED
    BY <2>1, <2>2
<1>3. \A i \in S : i \in DOMAIN PathOrder /\ PathOrder[i] \in Paths /\ diff[PathOrder[i]].kind \in kinds
  BY <1>1
<1>4. acts = [n \in DOMAIN at |-> diff[PathOrder[at[n]]]]
  BY DEF ActionsOf
<1>a. \A p \in Paths : diff[p].kind \in kinds => \E i \in S : PathOrder[i] = p
  BY EngineAssumption
<1> HIDE DEF S
<1>5. /\ at \in Seq(S) /\ DOMAIN at = 1..Cardinality(S) /\ Cardinality(S) \in Nat
      /\ \A m, n \in DOMAIN at : m # n => at[m] # at[n]
      /\ \A k \in S : \E n \in DOMAIN at : at[n] = k
  BY <1>2, AscendingList
<1> HIDE DEF at, acts
<1>6. \A n \in DOMAIN at : at[n] \in S
  BY <1>5
<1>7. DOMAIN acts = DOMAIN at /\ \A n \in DOMAIN at : acts[n] = diff[PathOrder[at[n]]]
  BY <1>4
<1>8. \A n \in DOMAIN at : acts[n] \in X
  BY <1>3, <1>6, <1>7
<1>9. acts \in Seq(X)
  <2>1. acts \in [1..Cardinality(S) -> X]
    BY <1>4, <1>5, <1>7, <1>8
  <2>2. QED
    BY <1>5, <2>1
<1>10. Listed(acts, diff, kinds)
  <2> DEFINE where == [n \in DOMAIN at |-> PathOrder[at[n]]]
  <2>1. where \in [DOMAIN acts -> Paths]
    BY <1>3, <1>6, <1>7
  <2>2. \A i \in DOMAIN acts : acts[i] = diff[where[i]] /\ diff[where[i]].kind \in kinds
    BY <1>3, <1>6, <1>7
  <2>3. \A i, j \in DOMAIN acts : i # j => where[i] # where[j]
    BY <1>3, <1>5, <1>6, <1>7, EngineAssumption
  <2> HIDE DEF where
  <2>4. QED
    BY <2>1, <2>2, <2>3 DEF Listed
<1>11. ASSUME NEW p \in Paths, diff[p].kind \in kinds PROVE \E i \in DOMAIN acts : acts[i] = diff[p]
  <2>1. PICK i \in S : PathOrder[i] = p
    BY <1>11, <1>a
  <2>2. PICK n \in DOMAIN at : at[n] = i
    BY <1>5
  <2>3. QED
    BY <1>7, <2>1, <2>2
<1>12. QED
  BY <1>9, <1>10, <1>11 DEF acts

-----------------------------------------------------------------------------
(* Types                                                                   *)

\* The paths a conflict copy may be written to.
Copies == {CopyOf[p] : p \in DOMAIN CopyOf}

\* What a job holds, with all its paths in P: a conflict has both sides, a
\* write its local side, and a 409 names the row it met.
ConflictIn(P) == [path : P, kind : Kinds, local : Entry, remote : Entry]

WriteIn(P) == [path : P, kind : {"Upload", "DeleteRemote"},
               local : Entry, remote : Entry \cup {None}]

OpIn(P) == [path : P, kind : {"Upload", "DeleteRemote"},
            parent : Hashes \cup {NoHash}, hash : Hashes \cup {NoHash},
            content : Contents \cup {None}]

Verdict == {res \in Result : res.status = "409" => res.current \in Entry}

JobIn(P) ==
    [stage : Stages, working : Manifests, deletes : SUBSET P, fetches : SUBSET P,
     conflicts : Seq(ConflictIn(P)), uploads : Seq(WriteIn(P)), ops : Seq(OpIn(P)),
     results : Seq(Verdict), attempt : Nat, landed : SUBSET Nat, hold_back : SUBSET P,
     left : Seq(ConflictIn(P)), fatal : BOOLEAN]

JobSide(j) ==
    /\ j.stage = "idle" => j = IdleJob
    /\ j.stage = "resolving" => j.conflicts # <<>>
    /\ Len(j.results) <= Len(j.ops)

\* TypeOK without the jobs.
BaseOK ==
    /\ GateTypeOK
    /\ disk \in [Devices -> [Paths -> Contents \cup {None}]]
    /\ base \in [Devices -> Manifests]
    /\ cache \in [Devices -> Cache \cup {None}]
    /\ ignored \in [Devices -> SUBSET Paths]
    /\ archive \in [Paths -> SUBSET Contents]
    /\ writer \in [Paths -> Devices \cup {None}]
    /\ known \in [Devices -> [Paths -> SUBSET (Hashes \cup {NoHash})]]
    /\ {edits, ignoreEdits, faults} \subseteq Nat

JobsOK ==
    /\ job \in [Devices -> JobIn(Paths)]
    /\ pending \in [Devices -> Seq(ConflictIn(Paths))]
    /\ \A d \in Devices : JobSide(job[d])

\* An empty job has no paths.
LEMMA IdleJobType == ASSUME NEW P PROVE IdleJob \in JobIn(P) /\ JobSide(IdleJob)
<1>1. /\ <<>> \in Seq(ConflictIn(P)) /\ <<>> \in Seq(WriteIn(P)) /\ <<>> \in Seq(OpIn(P))
      /\ <<>> \in Seq(Verdict)
  OBVIOUS
<1>2. EmptyManifest \in Manifests
  BY DEF EmptyManifest, Manifests
<1>3. IdleJob \in JobIn(P)
  BY <1>1, <1>2 DEF IdleJob, JobIn, Stages
<1>4. QED
  BY <1>3 DEF IdleJob, JobSide

\* Jobs of this form have the declared types.
LEMMA JobTypes == BaseOK /\ JobsOK => TypeOK
<1> SUFFICES ASSUME BaseOK, JobsOK PROVE TypeOK
  OBVIOUS
<1>1. /\ ConflictIn(Paths) \subseteq Action /\ WriteIn(Paths) \subseteq Action
      /\ OpIn(Paths) = Op /\ Verdict \subseteq Result
  BY DEF ConflictIn, WriteIn, Action, Kinds, OpIn, Op, Verdict
<1>2. /\ \A s \in Seq(ConflictIn(Paths)) : s \in Seq(Action)
      /\ \A s \in Seq(WriteIn(Paths)) : s \in Seq(Action)
      /\ \A s \in Seq(Verdict) : s \in Seq(Result)
  BY <1>1, SeqMonotonic
<1>3. \A j \in JobIn(Paths) : j \in Job
  BY <1>1, <1>2 DEF JobIn, Job
<1>4. job \in [Devices -> Job] /\ pending \in [Devices -> Seq(Action)]
  BY <1>2, <1>3 DEF JobsOK
<1>5. QED
  BY <1>4 DEF BaseOK, TypeOK

\* What the walk finds are hashes.
LEMMA WalkedType ==
    ASSUME BaseOK, NEW d \in Devices, NEW p \in Paths
    PROVE  walked(d)[p] \in Hashes \cup {None}
BY EngineAssumption, SentinelAssumption DEF BaseOK, walked, HashIn

\* The working manifest stands for what the walk finds.
LEMMA WorkingFacts ==
    ASSUME BaseOK, NEW d \in Devices, NEW m, m = build_working_manifest(walked(d), base[d])
    PROVE  /\ m \in Manifests
           /\ \A p \in Paths : /\ version(m[p]) = walked(d)[p]
                               /\ walked(d)[p] # None => m[p] = Live(walked(d)[p])
<1>1. ASSUME NEW p \in Paths
      PROVE  /\ m[p] \in Entry \cup {None} /\ version(m[p]) = walked(d)[p]
             /\ walked(d)[p] # None => m[p] = Live(walked(d)[p])
  <2>1. PICK w \in Hashes \cup {None} : w = walked(d)[p]
    BY WalkedType
  <2>2. PICK b \in Entry \cup {None} : b = base[d][p]
    BY DEF BaseOK, Manifests
  <2>3. m[p] = IF w # None THEN Live(w)
               ELSE IF version(b) # None THEN [hash |-> b.hash, deleted |-> TRUE] ELSE None
    BY <2>1, <2>2 DEF build_working_manifest
  <2>4. CASE w # None
    BY <2>1, <2>3, <2>4, LiveEntry
  <2>5. CASE w = None /\ version(b) # None
    <3>1. b.hash \in Hashes \cup {NoHash}
      BY <2>5 DEF version, Entry
    <3>2. QED
      BY <2>1, <2>3, <2>5, <3>1, TombEntry
  <2>6. CASE w = None /\ version(b) = None
    BY <2>1, <2>3, <2>6 DEF version
  <2>7. QED
    BY <2>4, <2>5, <2>6
<1>2. m = [p \in Paths |-> m[p]]
  BY DEF build_working_manifest
<1>3. m \in Manifests
  BY <1>1, <1>2 DEF Manifests
<1>4. QED
  BY <1>1, <1>3

\* A device plans from a manifest.
LEMMA FetchedType ==
    ASSUME BaseOK, NEW d \in Devices
    PROVE  FetchedManifest(d) \in Manifests
<1>1. rows \in Manifests /\ rows # None /\ cache[d] \in Cache \cup {None}
  BY CacheAssumption DEF BaseOK, GateTypeOK
<1>2. cache[d] # None => cache[d].manifest \in Manifests
  BY <1>1 DEF Cache
<1>3. QED
  BY <1>1, <1>2 DEF FetchedManifest, get_manifest

\* What a device plans for a path: nothing for one it ignores, else the diff of
\* the checkpoint, the walk and the server.
LEMMA PlanPath ==
    ASSUME BaseOK, NEW d \in Devices, job[d].working \in Manifests, NEW remote \in Manifests,
           NEW p \in Paths, NEW a, a = diff_local_and_remote(d, remote)[p]
    PROVE  /\ a \in Action /\ a.path = p
           /\ p \in ignored[d] => a.kind = "Nothing"
           /\ p \notin ignored[d] => PlannedAction(a, p, base[d][p], job[d].working[p], remote[p])
<1>1. /\ base[d][p] \in Entry \cup {None} /\ job[d].working[p] \in Entry \cup {None}
      /\ remote[p] \in Entry \cup {None}
  BY DEF BaseOK, Manifests
<1>2. CASE p \in ignored[d]
  <2>1. a = diff_path(p, None, None, None)
    BY <1>2 DEF diff_local_and_remote, diff_manifests
  <2>2. QED
    BY <1>2, <2>1, DiffPath DEF PlannedAction
<1>3. CASE p \notin ignored[d]
  <2>1. a = diff_path(p, base[d][p], job[d].working[p], remote[p])
    BY <1>3 DEF diff_local_and_remote, diff_manifests
  <2>2. PlannedAction(a, p, base[d][p], job[d].working[p], remote[p])
    BY <1>1, <2>1, DiffPath
  <2>3. QED
    BY <1>3, <2>2 DEF PlannedAction
<1>4. QED
  BY <1>2, <1>3

\* A plan stays away from ignored paths and has the types of a job's fields.
LEMMA PlanTypes ==
    ASSUME BaseOK, NEW d \in Devices, job[d].working \in Manifests, NEW remote \in Manifests,
           NEW diff, diff = diff_local_and_remote(d, remote),
           NEW P \in SUBSET Paths, Paths \ ignored[d] \subseteq P
    PROVE  /\ ActionsOf(diff, {"Conflict"}) \in Seq(ConflictIn(P))
           /\ ActionsOf(diff, {"Upload", "DeleteRemote"}) \in Seq(WriteIn(P))
           /\ {p \in Paths : diff[p].kind = "DeleteLocal"} \in SUBSET P
           /\ {p \in Paths : diff[p].kind = "Download"} \in SUBSET P
           /\ \A p \in Paths : diff[p].kind = "Conflict" => diff[p].remote.hash \in Hashes \cup {NoHash}
<1>1. ASSUME NEW p \in Paths, diff[p].kind # "Nothing"
      PROVE  p \in P /\ PlannedAction(diff[p], p, base[d][p], job[d].working[p], remote[p])
  BY <1>1, PlanPath
<1>2. ASSUME NEW p \in Paths, diff[p].kind \in {"Conflict"} PROVE diff[p] \in ConflictIn(P)
  <2>1. p \in P /\ PlannedAction(diff[p], p, base[d][p], job[d].working[p], remote[p])
    BY <1>1, <1>2
  <2>2. QED
    BY <1>2, <2>1 DEF PlannedAction, Action, ConflictIn
<1>3. ASSUME NEW p \in Paths, diff[p].kind \in {"Upload", "DeleteRemote"} PROVE diff[p] \in WriteIn(P)
  <2>1. p \in P /\ PlannedAction(diff[p], p, base[d][p], job[d].working[p], remote[p])
    BY <1>1, <1>3
  <2>2. QED
    BY <1>3, <2>1 DEF PlannedAction, Action, WriteIn
<1>4. /\ ActionsOf(diff, {"Conflict"}) \in Seq(ConflictIn(P))
      /\ ActionsOf(diff, {"Upload", "DeleteRemote"}) \in Seq(WriteIn(P))
  BY <1>2, <1>3, ActionsList
<1>5. \A p \in Paths : diff[p].kind = "Conflict" => diff[p].remote.hash \in Hashes \cup {NoHash}
  BY <1>2 DEF ConflictIn, Entry
<1>6. QED
  BY <1>1, <1>4, <1>5

\* The job of d is one whose paths are in P, where P has the paths d does not
\* ignore and those of conflict copies.
InJob(d, P) ==
    /\ P \in SUBSET Paths /\ Copies \subseteq P /\ Paths \ ignored[d] \subseteq P
    /\ job[d] \in JobIn(P) /\ JobSide(job[d])

\* A step leaves it one, and the other jobs alone.
Moved(d, P) ==
    /\ job'[d] \in JobIn(P) /\ JobSide(job'[d])
    /\ \A e \in Devices \ {d} : job'[e] = job[e]
    /\ job' = [e \in Devices |-> job'[e]]

\* One job is replaced.
LEMMA Replaced ==
    ASSUME JobsOK, NEW d \in Devices, NEW P, NEW j \in JobIn(P), JobSide(j),
           job' = [job EXCEPT ![d] = j]
    PROVE  Moved(d, P)
BY DEF JobsOK, Moved

\* The plan step and the steps before the conflicts.
LEMMA PlanMoves ==
    ASSUME BaseOK, JobsOK, NEW d \in Devices, NEW P, InJob(d, P),
           \/ Walk(d) \/ FetchAndPlan(d) \/ DownloadsDone(d)
           \/ \E p \in Paths : \/ DeleteLocal(d, p) \/ DeleteLocalFails(d, p)
                               \/ FetchOne(d, p) \/ FetchOneFails(d, p)
    PROVE  Moved(d, P)
<1> DEFINE j == job[d]
<1>1. j \in JobIn(P) /\ JobSide(j)
  BY DEF InJob
<1>2. CASE Walk(d)
  <2>1. PICK m : m = build_working_manifest(walked(d), base[d])
    OBVIOUS
  <2>2. m \in Manifests
    BY <2>1, WorkingFacts
  <2> DEFINE k == [j EXCEPT !.stage = "walked", !.working = m]
  <2>3. job' = [job EXCEPT ![d] = k]
    BY <1>2, <2>1 DEF Walk
  <2>4. k \in JobIn(P) /\ JobSide(k)
    BY <1>1, <2>2 DEF JobIn, JobSide, Stages
  <2> HIDE DEF k
  <2>5. QED
    BY <2>3, <2>4, Replaced
<1>3. CASE FetchAndPlan(d)
  <2>1. PICK diff : diff = diff_local_and_remote(d, FetchedManifest(d))
    OBVIOUS
  <2>2. PICK cs, us, del, get :
           /\ cs = ActionsOf(diff, {"Conflict"}) /\ us = ActionsOf(diff, {"Upload", "DeleteRemote"})
           /\ del = {p \in Paths : diff[p].kind = "DeleteLocal"}
           /\ get = {p \in Paths : diff[p].kind = "Download"}
    OBVIOUS
  <2>3. /\ cs \in Seq(ConflictIn(P)) /\ us \in Seq(WriteIn(P))
        /\ del \in SUBSET P /\ get \in SUBSET P
    <3>1. job[d].working \in Manifests /\ FetchedManifest(d) \in Manifests
      BY <1>1, FetchedType DEF JobIn
    <3>2. QED
      BY <2>1, <2>2, <3>1, PlanTypes DEF InJob
  <2> DEFINE k == [j EXCEPT !.stage = "downloading", !.deletes = del, !.fetches = get,
                            !.conflicts = cs, !.uploads = us]
  <2>4. job' = [job EXCEPT ![d] = k]
    BY <1>3, <2>1, <2>2 DEF FetchAndPlan
  <2>5. k \in JobIn(P) /\ JobSide(k)
    BY <1>1, <2>3 DEF JobIn, JobSide, Stages
  <2> HIDE DEF k
  <2>6. QED
    BY <2>4, <2>5, Replaced
<1>4. CASE DownloadsDone(d)
  <2> DEFINE k == [j EXCEPT !.stage = AfterDownloads(j.conflicts), !.fetches = {}]
  <2>1. job' = [job EXCEPT ![d] = k]
    BY <1>4 DEF DownloadsDone
  <2>2. k \in JobIn(P) /\ JobSide(k)
    BY <1>1 DEF JobIn, JobSide, Stages, AfterDownloads
  <2> HIDE DEF k
  <2>3. QED
    BY <2>1, <2>2, Replaced
<1>5. ASSUME NEW p \in Paths, DeleteLocal(d, p) PROVE Moved(d, P)
  <2> DEFINE k == [j EXCEPT !.deletes = j.deletes \ {p}]
  <2>1. job' = [job EXCEPT ![d] = k] /\ j.stage = "downloading"
    BY <1>5 DEF DeleteLocal
  <2>2. k \in JobIn(P) /\ JobSide(k)
    BY <1>1, <2>1 DEF JobIn, JobSide
  <2> HIDE DEF k
  <2>3. QED
    BY <2>1, <2>2, Replaced
<1>6. ASSUME NEW p \in Paths, DeleteLocalFails(d, p) PROVE Moved(d, P)
  <2> DEFINE k == [j EXCEPT !.deletes = j.deletes \ {p}, !.hold_back = j.hold_back \cup {p}]
  <2>1. job' = [job EXCEPT ![d] = k] /\ j.stage = "downloading" /\ p \in j.deletes
    BY <1>6 DEF DeleteLocalFails
  <2>2. k \in JobIn(P) /\ JobSide(k)
    BY <1>1, <2>1 DEF JobIn, JobSide
  <2> HIDE DEF k
  <2>3. QED
    BY <2>1, <2>2, Replaced
<1>7. ASSUME NEW p \in Paths, FetchOne(d, p) \/ FetchOneFails(d, p) PROVE Moved(d, P)
  <2>1. j.stage = "downloading" /\ p \in j.fetches
    BY <1>7 DEF FetchOne, FetchOneFails
  <2>4. CASE FetchOneFails(d, p)
    <3>1. PICK fatal \in BOOLEAN :
             job' = [job EXCEPT ![d].fetches = @ \ {p}, ![d].hold_back = @ \cup {p},
                                ![d].fatal = @ \/ fatal]
      BY <2>4 DEF FetchOneFails
    <3> DEFINE k == [j EXCEPT !.fetches = j.fetches \ {p}, !.hold_back = j.hold_back \cup {p},
                              !.fatal = j.fatal \/ fatal]
    <3>2. job' = [job EXCEPT ![d] = k]
      BY <3>1
    <3>3. k \in JobIn(P) /\ JobSide(k)
      BY <1>1, <2>1 DEF JobIn, JobSide
    <3> HIDE DEF k
    <3>4. QED
      BY <3>2, <3>3, Replaced
  <2>5. CASE FetchOne(d, p) /\ get_file(p) # None
    <3> DEFINE k == [j EXCEPT !.fetches = j.fetches \ {p}]
    <3>1. job' = [job EXCEPT ![d] = k]
      BY <2>5 DEF FetchOne
    <3>2. k \in JobIn(P) /\ JobSide(k)
      BY <1>1, <2>1 DEF JobIn, JobSide
    <3> HIDE DEF k
    <3>3. QED
      BY <3>1, <3>2, Replaced
  <2>6. CASE FetchOne(d, p) /\ get_file(p) = None
    <3> DEFINE k == [j EXCEPT !.fetches = j.fetches \ {p}, !.hold_back = j.hold_back \cup {p}]
    <3>1. job' = [job EXCEPT ![d] = k]
      BY <2>6 DEF FetchOne
    <3>2. k \in JobIn(P) /\ JobSide(k)
      BY <1>1, <2>1 DEF JobIn, JobSide
    <3> HIDE DEF k
    <3>3. QED
      BY <3>1, <3>2, Replaced
  <2>7. QED
    BY <1>7, <2>4, <2>5, <2>6
<1>8. QED
  BY <1>2, <1>3, <1>4, <1>5, <1>6, <1>7

\* The writes a conflict may turn into.
LEMMA ConflictWrites ==
    ASSUME BaseOK, NEW P, NEW c \in ConflictIn(P)
    PROVE  /\ conflict_to_upload(c) \in WriteIn(P)
           /\ c.path \in DOMAIN CopyOf /\ Copies \subseteq P /\ P \subseteq Paths /\ get_file(c.path) # None =>
                action(CopyOf[c.path], "Upload", Live(HashOf[get_file(c.path)]), None) \in WriteIn(P)
<1>1. conflict_to_upload(c) \in WriteIn(P)
  BY DEF conflict_to_upload, action, ConflictIn, WriteIn
<1>2. ASSUME c.path \in DOMAIN CopyOf, Copies \subseteq P, P \subseteq Paths, get_file(c.path) # None
      PROVE  action(CopyOf[c.path], "Upload", Live(HashOf[get_file(c.path)]), None) \in WriteIn(P)
  <2>1. CopyOf[c.path] \in P
    BY <1>2 DEF Copies
  <2>2. get_file(c.path) \in Contents
    BY <1>2 DEF get_file, BaseOK, GateTypeOK, ConflictIn
  <2>3. Live(HashOf[get_file(c.path)]) \in Entry
    BY <2>2, EngineAssumption, LiveEntry
  <2>4. QED
    BY <2>1, <2>3 DEF action, WriteIn
<1>3. QED
  BY <1>1, <1>2

\* The first conflict is dealt with.
LEMMA ResolvedMoves ==
    ASSUME JobsOK, NEW d \in Devices, NEW P, InJob(d, P), job[d].stage = "resolving",
           NEW us \in Seq(WriteIn(P)), NEW de \in Seq(ConflictIn(P)), job' = Resolved(d, us, de)
    PROVE  Moved(d, P)
<1> DEFINE j == job[d]
           k == [j EXCEPT !.conflicts = Tail(j.conflicts),
                          !.stage = AfterDownloads(Tail(j.conflicts)),
                          !.uploads = j.uploads \o us,
                          !.hold_back = j.hold_back \cup {de[i].path : i \in DOMAIN de},
                          !.left = j.left \o de]
<1>1. j \in JobIn(P) /\ JobSide(j) /\ j.conflicts # <<>> /\ j.conflicts \in Seq(ConflictIn(P))
  BY DEF InJob, JobSide, JobIn
<1>2. job' = [job EXCEPT ![d] = k]
  BY DEF Resolved
<1>3. /\ Tail(j.conflicts) \in Seq(ConflictIn(P))
      /\ j.uploads \o us \in Seq(WriteIn(P)) /\ j.left \o de \in Seq(ConflictIn(P))
  BY <1>1, HeadTailProperties, ConcatProperties DEF JobIn
<1>4. {de[i].path : i \in DOMAIN de} \subseteq P
  <2>1. \A i \in DOMAIN de : de[i] \in ConflictIn(P)
    BY ElementOfSeq, LenProperties
  <2>2. \A c \in ConflictIn(P) : c.path \in P
    BY DEF ConflictIn
  <2>3. QED
    BY <2>1, <2>2
<1>5. k \in JobIn(P) /\ JobSide(k)
  BY <1>1, <1>3, <1>4 DEF JobIn, JobSide, Stages, AfterDownloads
<1> HIDE DEF k
<1>6. QED
  BY <1>2, <1>5, Replaced

\* A cycle ends.
LEMMA EndMoves ==
    ASSUME JobsOK, NEW d \in Devices, NEW P, job' = [job EXCEPT ![d] = IdleJob]
    PROVE  Moved(d, P)
BY IdleJobType, Replaced

\* The steps over the conflicts.
LEMMA ResolveMoves ==
    ASSUME BaseOK, JobsOK, NEW d \in Devices, NEW P, InJob(d, P),
           \/ \E choice \in UserChoices : Resolve(d, choice)
           \/ ResumePlan(d) /\ pending[d] \in Seq(ConflictIn(P))
    PROVE  Moved(d, P)
<1> DEFINE j == job[d]
<1>1. j \in JobIn(P) /\ JobSide(j)
  BY DEF InJob
<1>2. ASSUME NEW choice \in UserChoices, Resolve(d, choice) PROVE Moved(d, P)
  <2>1. j.stage = "resolving"
    BY <1>2 DEF Resolve
  <2>2. PICK c \in ConflictIn(P) : c = Head(j.conflicts)
    BY <1>1, <2>1, HeadTailProperties DEF JobIn, JobSide
  <2>3. PICK u \in WriteIn(P) : u = conflict_to_upload(c)
    BY ConflictWrites
  <2>4. /\ <<>> \in Seq(WriteIn(P)) /\ <<>> \in Seq(ConflictIn(P))
        /\ <<u>> \in Seq(WriteIn(P)) /\ <<c>> \in Seq(ConflictIn(P))
    OBVIOUS
  <2>5. \/ job' = Resolved(d, <<>>, <<c>>)
        \/ job' = Resolved(d, <<u>>, <<>>)
        \/ KeepRemote(d, c)
        \/ KeepBoth(d, c) /\ c.path \in DOMAIN CopyOf
    BY <1>2, <2>2, <2>3 DEF Resolve, effective_choice
  <2>6. CASE job' = Resolved(d, <<>>, <<c>>)
    BY <2>1, <2>4, <2>6, ResolvedMoves
  <2>7. CASE job' = Resolved(d, <<u>>, <<>>)
    BY <2>1, <2>4, <2>7, ResolvedMoves
  <2>8. CASE KeepRemote(d, c)
    <3>1. job' = Resolved(d, <<>>, <<>>) \/ job' = [job EXCEPT ![d] = IdleJob]
      BY <2>8 DEF KeepRemote
    <3>2. QED
      BY <2>1, <2>4, <3>1, ResolvedMoves, EndMoves
  <2>9. CASE KeepBoth(d, c) /\ c.path \in DOMAIN CopyOf
    <3>1. CASE get_file(c.path) = None
      BY <2>9, <3>1, EndMoves DEF KeepBoth
    <3>2. CASE get_file(c.path) # None
      <4>1. PICK v : v = action(CopyOf[c.path], "Upload", Live(HashOf[get_file(c.path)]), None)
        OBVIOUS
      <4>2. v \in WriteIn(P)
        BY <2>9, <3>2, <4>1, ConflictWrites DEF InJob
      <4>3. job' = Resolved(d, <<u, v>>, <<>>)
        BY <2>3, <2>9, <3>2, <4>1 DEF KeepBoth
      <4>4. <<u, v>> \in Seq(WriteIn(P))
        BY <4>2
      <4>5. QED
        BY <2>1, <2>4, <4>3, <4>4, ResolvedMoves
    <3>3. QED
      BY <3>1, <3>2
  <2>10. QED
    BY <2>5, <2>6, <2>7, <2>8, <2>9
<1>3. CASE ResumePlan(d) /\ pending[d] \in Seq(ConflictIn(P))
  <2> DEFINE k == [j EXCEPT !.stage = "resolving", !.conflicts = pending[d]]
  <2>1. job' = [job EXCEPT ![d] = k] /\ pending[d] # <<>>
    BY <1>3 DEF ResumePlan
  <2>2. k \in JobIn(P) /\ JobSide(k)
    BY <1>1, <1>3, <2>1 DEF JobIn, JobSide, Stages
  <2> HIDE DEF k
  <2>3. QED
    BY <2>1, <2>2, Replaced
<1>4. QED
  BY <1>2, <1>3

\* A batch is built from the next writes.
LEMMA PrepareMoves ==
    ASSUME BaseOK, JobsOK, NEW d \in Devices, NEW P, InJob(d, P), PrepareBatch(d)
    PROVE  Moved(d, P)
<1> DEFINE j == job[d]
           readable(act) == act.kind = "Upload" => disk[d][act.path] # None
<1>1. /\ j \in JobIn(P) /\ JobSide(j) /\ j.uploads \in Seq(WriteIn(P)) /\ P \subseteq Paths
      /\ Len(j.uploads) \in Nat
  BY DEF InJob, JobIn
<1>2. PICK n \in 1..BATCH_MAX_OPS :
         LET batch == SubSeq(j.uploads, 1, n)
             members == Ascending({i \in 1..n : readable(batch[i])})
         IN  /\ n <= Len(j.uploads)
             /\ job' = [job EXCEPT
                   ![d].stage = IF members = <<>> THEN "uploading" ELSE "sending",
                   ![d].uploads = SubSeq(@, n + 1, Len(@)),
                   ![d].ops = build_batch_form(d, batch, members),
                   ![d].results = <<>>, ![d].attempt = 0, ![d].landed = {},
                   ![d].hold_back = @ \cup
                       {batch[i].path : i \in {i \in DOMAIN batch : ~readable(batch[i])}}]
  BY DEF PrepareBatch
<1> DEFINE batch == SubSeq(j.uploads, 1, n)
           picked == {i \in 1..n : readable(batch[i])}
           members == Ascending(picked)
           ops == build_batch_form(d, batch, members)
           rest == SubSeq(j.uploads, n + 1, Len(j.uploads))
           held == {batch[i].path : i \in {i \in DOMAIN batch : ~readable(batch[i])}}
           k == [j EXCEPT !.stage = IF members = <<>> THEN "uploading" ELSE "sending",
                          !.uploads = rest, !.ops = ops, !.results = <<>>, !.attempt = 0,
                          !.landed = {}, !.hold_back = j.hold_back \cup held]
<1>3. n <= Len(j.uploads) /\ job' = [job EXCEPT ![d] = k]
  BY <1>2
<1>4. n \in Nat /\ 1 <= n /\ n <= Len(j.uploads)
  BY <1>3, EngineAssumption
<1>5. /\ batch \in Seq(WriteIn(P)) /\ DOMAIN batch = 1..n
      /\ \A i \in 1..n : batch[i] \in WriteIn(P)
  <2>1. \A i \in 1..n : j.uploads[i] \in WriteIn(P)
    BY <1>1, <1>4, ElementOfSeq
  <2>2. batch \in Seq(WriteIn(P)) /\ Len(batch) = n
    BY <1>4, <2>1, SubSeqProperties
  <2> HIDE DEF batch
  <2>3. QED
    BY <2>2, ElementOfSeq, LenProperties
<1>6. picked \in SUBSET (1..n)
  OBVIOUS
<1>7. held \subseteq P
  <2> HIDE DEF batch
  <2>1. \A w \in WriteIn(P) : w.path \in P
    BY DEF WriteIn
  <2>2. QED
    BY <1>5, <2>1
<1> HIDE DEF batch, picked, held, k
<1>8. /\ DOMAIN members = 1..Len(members) /\ Len(members) \in Nat
      /\ \A m \in DOMAIN members : members[m] \in 1..n
  <2>1. IsFiniteSet(1..n)
    BY <1>4, FS_Interval
  <2>2. picked \in SUBSET Nat
    BY <1>4, <1>6
  <2>3. IsFiniteSet(picked)
    BY <1>6, <2>1, FS_Subset
  <2>4. members \in Seq(picked)
    BY <2>2, <2>3, AscendingList
  <2> HIDE DEF members
  <2>5. QED
    BY <1>6, <2>4, ElementOfSeq, LenProperties
<1> HIDE DEF members
<1>9. ops \in Seq(OpIn(P)) /\ Len(ops) \in Nat
  <2>1. ASSUME NEW m \in DOMAIN members
        PROVE  prepare_batch_op(d, batch[members[m]]) \in OpIn(P)
    <3>1. PICK act \in WriteIn(P) : act = batch[members[m]]
      BY <1>5, <1>8, <2>1
    <3>2. act.path \in P /\ act.path \in Paths /\ act.local.hash \in Hashes \cup {NoHash}
      BY <1>1 DEF WriteIn, Entry
    <3>3. parent_hash(act) \in Hashes \cup {NoHash}
      BY DEF parent_hash, WriteIn, Entry
    <3>4. disk[d][act.path] \in Contents \cup {None}
      BY <3>2 DEF BaseOK
    <3>5. prepare_batch_op(d, act) \in OpIn(P)
      BY <3>2, <3>3, <3>4 DEF prepare_batch_op, OpIn, WriteIn
    <3>6. QED
      BY <3>1, <3>5
  <2>2. ops \in [1..Len(members) -> OpIn(P)]
    BY <1>8, <2>1 DEF build_batch_form
  <2> HIDE DEF ops
  <2>3. QED
    BY <1>8, <2>2
<1>10. rest \in Seq(WriteIn(P))
  <2>1. \A i \in n + 1 .. Len(j.uploads) : j.uploads[i] \in WriteIn(P)
    BY <1>1, <1>4, ElementOfSeq
  <2>2. QED
    BY <1>1, <1>4, <2>1, SubSeqProperties
<1> HIDE DEF rest, ops
<1>11. /\ k.stage \in {"uploading", "sending"} /\ k.results = <<>> /\ k.ops = ops
       /\ k \in JobIn(P)
  <2>1. <<>> \in Seq(Verdict)
    OBVIOUS
  <2>2. QED
    BY <1>1, <1>7, <1>9, <1>10, <2>1 DEF k, JobIn, Stages
<1>12. JobSide(k)
  BY <1>9, <1>11 DEF JobSide
<1>13. QED
  BY <1>3, <1>11, <1>12, Replaced

\* The operation the server runs next is one of the batch.
LEMMA NextOpType ==
    ASSUME NEW d \in Devices, NEW P, InJob(d, P), Len(job[d].results) < Len(job[d].ops)
    PROVE  NextOp(d) \in OpIn(P)
<1>1. job[d].results \in Seq(Verdict) /\ job[d].ops \in Seq(OpIn(P))
  BY DEF InJob, JobIn
<1>2. Len(job[d].results) + 1 \in 1..Len(job[d].ops)
  BY <1>1
<1>3. QED
  BY <1>1, <1>2, ElementOfSeq DEF NextOp

\* An operation is answered.
LEMMA AnswerMoves ==
    ASSUME JobsOK, NEW d \in Devices, NEW P, InJob(d, P), job[d].stage = "sending",
           Len(job[d].results) < Len(job[d].ops),
           NEW status, NEW current, Answer(d, status, current),
           [status |-> status, current |-> current] \in Verdict
    PROVE  Moved(d, P)
<1> DEFINE j == job[d]
           rs == Append(j.results, [status |-> status, current |-> current])
           k == [j EXCEPT !.results = rs]
<1>1. j \in JobIn(P) /\ JobSide(j) /\ j.results \in Seq(Verdict) /\ j.ops \in Seq(OpIn(P))
  BY DEF InJob, JobIn
<1>2. job' = [job EXCEPT ![d] = k]
  BY DEF Answer
<1>3. rs \in Seq(Verdict) /\ Len(rs) = Len(j.results) + 1
  BY <1>1, AppendProperties
<1> HIDE DEF rs
<1>4. k \in JobIn(P) /\ k.stage = "sending" /\ k.results = rs /\ k.ops = j.ops
  BY <1>1, <1>3 DEF JobIn
<1> HIDE DEF k
<1>5. JobSide(k)
  <2>1. Len(j.results) \in Nat /\ Len(j.ops) \in Nat
    BY <1>1
  <2>2. QED
    BY <1>3, <1>4, <2>1 DEF JobSide
<1>6. QED
  BY <1>2, <1>4, <1>5, Replaced

\* The server's steps on a batch.
LEMMA ServerMoves ==
    ASSUME BaseOK, JobsOK, NEW d \in Devices, NEW P, InJob(d, P), ServerApplies(d) \/ ServerFull(d)
    PROVE  Moved(d, P)
<1>1. job[d].stage = "sending" /\ Len(job[d].results) < Len(job[d].ops)
  BY DEF ServerApplies, ServerFull
<1>2. PICK op \in OpIn(P) : op = NextOp(d)
  BY <1>1, NextOpType
<1>3. PICK row \in Entry \cup {None} : row = rows[op.path]
  BY DEF BaseOK, GateTypeOK, Manifests, OpIn, InJob
<1>4. \E status, current : /\ Answer(d, status, current)
                           /\ [status |-> status, current |-> current] \in Verdict
  <2>1. \/ Answer(d, "413", None) \/ Answer(d, "200", None) \/ Answer(d, "507", None)
        \/ Answer(d, "409", row) /\ row # None
    BY <1>2, <1>3 DEF ServerApplies, ServerFull, ServerPut, ServerDelete, put_gate, delete_gate
  <2>2. /\ [status |-> "413", current |-> None] \in Verdict
        /\ [status |-> "200", current |-> None] \in Verdict
        /\ [status |-> "507", current |-> None] \in Verdict
        /\ row # None => [status |-> "409", current |-> row] \in Verdict
    BY DEF Verdict, Result
  <2>3. QED
    BY <2>1, <2>2
<1>5. QED
  BY <1>1, <1>4, AnswerMoves

\* The answers of a batch belong to its operations; a 409 is a conflict.
LEMMA LateTypes ==
    ASSUME NEW d \in Devices, NEW P, InJob(d, P)
    PROVE  /\ LateConflicts(d) \in Seq(ConflictIn(P))
           /\ \A statuses : Answered(d, statuses) \subseteq P
           /\ {job[d].ops[i].path : i \in DOMAIN job[d].ops} \subseteq P
           /\ DOMAIN job[d].results \subseteq Nat
<1> DEFINE j == job[d]
           S == {i \in DOMAIN j.results : j.results[i].status = "409"}
           hits == Ascending(S)
<1>1. /\ j.results \in Seq(Verdict) /\ j.ops \in Seq(OpIn(P)) /\ Len(j.results) <= Len(j.ops)
      /\ Len(j.results) \in Nat /\ Len(j.ops) \in Nat
  BY DEF InJob, JobIn, JobSide
<1>2. /\ DOMAIN j.results = 1..Len(j.results) /\ DOMAIN j.ops = 1..Len(j.ops)
      /\ \A i \in DOMAIN j.results : j.results[i] \in Verdict
      /\ \A i \in DOMAIN j.ops : j.ops[i] \in OpIn(P)
      /\ DOMAIN j.results \subseteq DOMAIN j.ops
  <2>1. DOMAIN j.results = 1..Len(j.results) /\ DOMAIN j.ops = 1..Len(j.ops)
    BY <1>1
  <2>2. QED
    BY <1>1, <2>1, ElementOfSeq
<1>3. \A i \in DOMAIN j.ops : j.ops[i].path \in P
  BY <1>2 DEF OpIn
<1>4. S \in SUBSET (DOMAIN j.results)
  OBVIOUS
<1>5. ASSUME NEW i \in S
      PROVE  action(j.ops[i].path, "Conflict",
                    [hash |-> j.ops[i].hash, deleted |-> j.ops[i].kind = "DeleteRemote"],
                    j.results[i].current) \in ConflictIn(P)
  <2>1. j.results[i].current \in Entry
    BY <1>2, <1>5 DEF Verdict
  <2>2. j.ops[i].path \in P /\ j.ops[i].hash \in Hashes \cup {NoHash}
    BY <1>2, <1>5 DEF OpIn
  <2>3. [hash |-> j.ops[i].hash, deleted |-> j.ops[i].kind = "DeleteRemote"] \in Entry
    BY <2>2 DEF Entry
  <2>4. QED
    BY <2>1, <2>2, <2>3 DEF action, ConflictIn, Kinds
<1> HIDE DEF S
<1>6. hits \in Seq(S) /\ DOMAIN hits = 1..Cardinality(S) /\ Cardinality(S) \in Nat
  <2>0. PICK n \in Nat : n = Len(j.results)
    BY <1>1
  <2>a. IsFiniteSet(1..n)
    BY FS_Interval
  <2>1. IsFiniteSet(DOMAIN j.results) /\ DOMAIN j.results \subseteq Nat
    BY <1>2, <2>0, <2>a
  <2>2. S \in SUBSET Nat /\ IsFiniteSet(S)
    BY <1>4, <2>1, FS_Subset
  <2>3. QED
    BY <2>2, AscendingList
<1> HIDE DEF hits
<1>7. \A n \in DOMAIN hits : hits[n] \in S
  BY <1>6
<1>8. LateConflicts(d) = [n \in DOMAIN hits |->
          action(j.ops[hits[n]].path, "Conflict",
                 [hash |-> j.ops[hits[n]].hash, deleted |-> j.ops[hits[n]].kind = "DeleteRemote"],
                 j.results[hits[n]].current)]
  BY DEF LateConflicts, hits, S
<1>9. LateConflicts(d) \in [1..Cardinality(S) -> ConflictIn(P)]
  BY <1>5, <1>6, <1>7, <1>8
<1>10. LateConflicts(d) \in Seq(ConflictIn(P))
  BY <1>6, <1>9
<1>11. \A statuses : Answered(d, statuses) \subseteq P
  BY <1>2, <1>3 DEF Answered
<1>12. QED
  BY <1>1, <1>2, <1>3, <1>10, <1>11

\* What the answer of a batch, or its loss, does.
LEMMA BatchMoves ==
    ASSUME JobsOK, NEW d \in Devices, NEW P, InJob(d, P),
           BatchAnswered(d) \/ BatchResend(d) \/ BatchFails(d)
    PROVE  Moved(d, P)
<1> DEFINE j == job[d]
<1>1. /\ j \in JobIn(P) /\ JobSide(j) /\ j.fatal \in BOOLEAN /\ Len(j.ops) \in Nat
      /\ <<>> \in Seq(OpIn(P)) /\ <<>> \in Seq(Verdict) /\ <<>> \in Seq(WriteIn(P))
  BY DEF InJob, JobIn
<1>2. CASE BatchAnswered(d)
  <2>1. PICK fatal \in BOOLEAN : fatal <=> Answered(d, {"507"}) # {}
    OBVIOUS
  <2>2. PICK late, held : late = LateConflicts(d) /\ held = Answered(d, {"409", "413", "507"})
    OBVIOUS
  <2>3. late \in Seq(ConflictIn(P)) /\ held \subseteq P
    BY <2>2, LateTypes
  <2>4. j.left \o late \in Seq(ConflictIn(P))
    BY <1>1, <2>3, ConcatProperties DEF JobIn
  <2> DEFINE k == [j EXCEPT !.stage = "uploading", !.hold_back = j.hold_back \cup held,
                            !.fatal = j.fatal \/ fatal,
                            !.uploads = IF fatal THEN <<>> ELSE j.uploads,
                            !.left = j.left \o late,
                            !.ops = <<>>, !.results = <<>>, !.attempt = 0, !.landed = {}]
  <2>5. job' = [job EXCEPT ![d] = k]
    BY <1>2, <2>1, <2>2 DEF BatchAnswered
  <2>6. k \in JobIn(P) /\ k.stage = "uploading" /\ k.results = <<>> /\ k.ops = <<>>
    BY <1>1, <2>3, <2>4 DEF JobIn, Stages
  <2> HIDE DEF k
  <2>7. JobSide(k)
    BY <2>6 DEF JobSide
  <2>8. QED
    BY <2>5, <2>6, <2>7, Replaced
<1>3. CASE BatchResend(d)
  <2>1. PICK ok : ok = {i \in DOMAIN j.results : j.results[i].status = "200"}
    OBVIOUS
  <2>2. ok \subseteq Nat
    BY <2>1, LateTypes
  <2> DEFINE k == [j EXCEPT !.attempt = j.attempt + 1, !.landed = j.landed \cup ok, !.results = <<>>]
  <2>3. job' = [job EXCEPT ![d] = k]
    BY <1>3, <2>1 DEF BatchResend
  <2>a. j.stage = "sending"
    BY <1>3 DEF BatchResend
  <2>b. j.attempt + 1 \in Nat /\ j.landed \cup ok \in SUBSET Nat
    <3>1. j.attempt \in Nat /\ j.landed \in SUBSET Nat
      BY <1>1 DEF JobIn
    <3>2. j.landed \cup ok \in SUBSET Nat
      BY <2>2, <3>1
    <3>3. QED
      BY <3>1, <3>2
  <2>4. k \in JobIn(P) /\ k.stage = "sending" /\ k.results = <<>> /\ k.ops = j.ops
    BY <1>1, <2>a, <2>b DEF JobIn
  <2> HIDE DEF k
  <2>5. JobSide(k)
    BY <1>1, <2>4 DEF JobSide
  <2>6. QED
    BY <2>3, <2>4, <2>5, Replaced
<1>4. CASE BatchFails(d)
  <2>1. PICK held : held = {j.ops[i].path : i \in DOMAIN j.ops}
    OBVIOUS
  <2>2. held \subseteq P
    BY <2>1, LateTypes
  <2>3. PICK fatal \in BOOLEAN :
          job' = [job EXCEPT
              ![d].stage = "uploading", ![d].hold_back = @ \cup held,
              ![d].fatal = @ \/ fatal,
              ![d].uploads = IF fatal THEN <<>> ELSE @,
              ![d].ops = <<>>, ![d].results = <<>>, ![d].attempt = 0, ![d].landed = {}]
    BY <1>4, <2>1 DEF BatchFails
  <2> DEFINE k == [j EXCEPT !.stage = "uploading", !.hold_back = j.hold_back \cup held,
                            !.fatal = j.fatal \/ fatal,
                            !.uploads = IF fatal THEN <<>> ELSE j.uploads,
                            !.ops = <<>>, !.results = <<>>, !.attempt = 0, !.landed = {}]
  <2>4. job' = [job EXCEPT ![d] = k]
    BY <2>3
  <2>5. k \in JobIn(P) /\ k.stage = "uploading" /\ k.results = <<>> /\ k.ops = <<>>
    BY <1>1, <2>2 DEF JobIn, Stages
  <2> HIDE DEF k
  <2>6. JobSide(k)
    BY <2>5 DEF JobSide
  <2>7. QED
    BY <2>4, <2>5, <2>6, Replaced
<1>5. QED
  BY <1>2, <1>3, <1>4

\* The steps at the end of a cycle.
LEMMA SaveMoves ==
    ASSUME JobsOK, NEW d \in Devices, NEW P, InJob(d, P),
           CheckpointFetch(d) \/ CheckpointSave(d) \/ SkipCheckpoint(d) \/ Abort(d)
    PROVE  Moved(d, P)
<1>1. CASE CheckpointFetch(d)
  <2> DEFINE k == [job[d] EXCEPT !.stage = "saving"]
  <2>1. job' = [job EXCEPT ![d] = k]
    BY <1>1 DEF CheckpointFetch
  <2>2. k \in JobIn(P) /\ JobSide(k)
    BY DEF InJob, JobIn, JobSide, Stages
  <2> HIDE DEF k
  <2>3. QED
    BY <2>1, <2>2, Replaced
<1>2. CASE CheckpointSave(d) \/ SkipCheckpoint(d) \/ Abort(d)
  <2>1. job' = [job EXCEPT ![d] = IdleJob]
    BY <1>2 DEF CheckpointSave, SkipCheckpoint, Abort, EndCycle
  <2>2. QED
    BY <2>1, EndMoves
<1>3. QED
  BY <1>1, <1>2

\* Every step of a device on its job.
LEMMA JobStep ==
    ASSUME BaseOK, JobsOK, NEW d \in Devices, NEW P, InJob(d, P),
           Engine(d) \/ Failure(d) \/ (ResumePlan(d) /\ pending[d] \in Seq(ConflictIn(P)))
    PROVE  Moved(d, P)
BY PlanMoves, ResolveMoves, PrepareMoves, ServerMoves, BatchMoves, SaveMoves DEF Engine, Failure

\* A file is written or removed, and its hash learnt.
LEMMA DiskTypes ==
    ASSUME BaseOK, NEW d \in Devices, NEW p \in Paths, NEW c \in Contents \cup {None},
           disk' = [disk EXCEPT ![d][p] = c]
    PROVE  /\ disk' \in [Devices -> [Paths -> Contents \cup {None}]]
           /\ \A e \in Devices, q \in Paths :
                 disk'[e][q] = IF e = d /\ q = p THEN c ELSE disk[e][q]
<1>1. disk \in [Devices -> [Paths -> Contents \cup {None}]]
  BY DEF BaseOK
<1>2. QED
  BY <1>1

\* The hashes a device knows are hashes, also after this step.
Learnt == known' \in [Devices -> [Paths -> SUBSET (Hashes \cup {NoHash})]]

\* What a device learns are hashes.
LEMMA LearnTypes ==
    ASSUME BaseOK, NEW d \in Devices, NEW p \in Paths, NEW hs \in SUBSET (Hashes \cup {NoHash}),
           Learn(d, p, hs)
    PROVE  Learnt
<1>1. known \in [Devices -> [Paths -> SUBSET (Hashes \cup {NoHash})]]
  BY DEF BaseOK
<1>2. known[d][p] \cup hs \in SUBSET (Hashes \cup {NoHash})
  BY <1>1
<1>3. QED
  BY <1>1, <1>2 DEF Learn, Learnt

\* The steps that change a folder and leave the server, the checkpoint, the
\* cache and the patterns alone.
LEMMA DiskStep ==
    ASSUME BaseOK, JobsOK, NEW d \in Devices,
           \/ \E p \in Paths : \/ Edit(d, p) \/ Restore(d, p) \/ DeleteLocal(d, p) \/ FetchOne(d, p)
           \/ \E choice \in UserChoices : Resolve(d, choice)
    PROVE  /\ disk' \in [Devices -> [Paths -> Contents \cup {None}]] /\ Learnt
           /\ UNCHANGED <<serverVars, base, cache, ignored, pending, writer, ignoreEdits, faults>>
           /\ edits' \in Nat
<1>0. /\ disk \in [Devices -> [Paths -> Contents \cup {None}]] /\ edits \in Nat
      /\ UNCHANGED known => Learnt
      /\ \A c \in Contents : {HashOf[c]} \in SUBSET (Hashes \cup {NoHash})
      /\ {} \in SUBSET (Hashes \cup {NoHash})
  BY EngineAssumption DEF BaseOK, Learnt
<1>1. ASSUME NEW p \in Paths, Edit(d, p)
      PROVE  disk' \in [Devices -> [Paths -> Contents \cup {None}]] /\ Learnt
  <2>1. PICK c \in Contents \cup {None} :
           disk' = [disk EXCEPT ![d][p] = c] /\ Learn(d, p, IF c = None THEN {} ELSE {HashOf[c]})
    BY <1>1 DEF Edit
  <2>2. (IF c = None THEN {} ELSE {HashOf[c]}) \in SUBSET (Hashes \cup {NoHash})
    BY <1>0
  <2>3. QED
    BY <2>1, <2>2, DiskTypes, LearnTypes
<1>2. ASSUME NEW p \in Paths, Restore(d, p)
      PROVE  disk' \in [Devices -> [Paths -> Contents \cup {None}]] /\ Learnt
  <2>1. PICK c \in Contents : disk' = [disk EXCEPT ![d][p] = c] /\ Learn(d, p, {HashOf[c]})
    BY <1>2 DEF Restore, write_restored, write_atomic, get_history, BaseOK
  <2>2. QED
    BY <1>0, <2>1, DiskTypes, LearnTypes
<1>3. ASSUME NEW p \in Paths, DeleteLocal(d, p)
      PROVE  disk' \in [Devices -> [Paths -> Contents \cup {None}]] /\ Learnt
  BY <1>0, <1>3, DiskTypes DEF DeleteLocal, ghosts
<1>4. ASSUME NEW p \in Paths, get_file(p) # None, NEW q \in Paths, decrypt_and_write(d, q, get_file(p))
      PROVE  disk' \in [Devices -> [Paths -> Contents \cup {None}]] /\ Learnt
  <2>1. PICK c \in Contents : c = get_file(p)
    BY <1>4 DEF get_file, BaseOK, GateTypeOK
  <2>2. disk' = [disk EXCEPT ![d][q] = c] /\ Learn(d, q, {HashOf[c]})
    BY <1>4, <2>1 DEF decrypt_and_write, write_atomic
  <2>3. QED
    BY <1>0, <2>2, DiskTypes, LearnTypes
<1>5. ASSUME NEW p \in Paths, FetchOne(d, p)
      PROVE  disk' \in [Devices -> [Paths -> Contents \cup {None}]] /\ Learnt
  BY <1>0, <1>4, <1>5 DEF FetchOne
<1>6. ASSUME NEW choice \in UserChoices, Resolve(d, choice)
      PROVE  disk' \in [Devices -> [Paths -> Contents \cup {None}]] /\ Learnt
  <2>1. job[d].stage = "resolving"
    BY <1>6 DEF Resolve
  <2>2. PICK c \in ConflictIn(Paths) : c = Head(job[d].conflicts)
    BY <2>1, HeadTailProperties DEF JobsOK, JobIn, JobSide
  <2>3. c.path \in Paths /\ (c.path \in DOMAIN CopyOf => CopyOf[c.path] \in Paths)
    BY EngineAssumption DEF ConflictIn
  <2>4. PICK p \in Paths : p = c.path
    BY <2>3
  <2>5. \/ disk' = disk /\ UNCHANGED known
        \/ disk' = [disk EXCEPT ![d][p] = None] /\ UNCHANGED known
        \/ get_file(p) # None /\ decrypt_and_write(d, p, get_file(p))
        \/ p \in DOMAIN CopyOf /\ get_file(p) # None /\ decrypt_and_write(d, CopyOf[p], get_file(p))
    BY <1>6, <2>2, <2>4 DEF Resolve, KeepRemote, KeepBoth, effective_choice
  <2>6. QED
    BY <1>0, <1>4, <2>3, <2>4, <2>5, DiskTypes
<1>7. /\ UNCHANGED <<serverVars, base, cache, ignored, pending, writer, ignoreEdits, faults>>
      /\ edits' \in Nat
  <2>1. ASSUME NEW p \in Paths, Edit(d, p) \/ Restore(d, p)
        PROVE  /\ UNCHANGED <<serverVars, base, cache, ignored, pending, writer, ignoreEdits, faults>>
               /\ edits' \in Nat
    BY <1>0, <2>1 DEF Edit, Restore
  <2>2. ASSUME \/ \E p \in Paths : DeleteLocal(d, p) \/ FetchOne(d, p)
               \/ \E choice \in UserChoices : Resolve(d, choice)
        PROVE  UNCHANGED <<serverVars, base, cache, ignored, pending, writer, counters>>
    BY <2>2 DEF DeleteLocal, FetchOne, Resolve, ghosts
  <2>3. QED
    BY <1>0, <2>1, <2>2 DEF counters
<1>8. QED
  BY <1>1, <1>2, <1>3, <1>5, <1>6, <1>7

\* d's operation on p is committed, with the next revision.
Written(d, p) ==
    /\ \E e \in Entry : rows' = [rows EXCEPT ![p] = e]
    /\ \E c \in Contents \cup {None} : body' = [body EXCEPT ![p] = c]
    /\ rev' = rev + 1
    /\ Wrote(d, p)

\* The server runs an operation: a row is written, or nothing changes but the
\* answer.
LEMMA ServerStep ==
    ASSUME BaseOK, NEW d \in Devices, NEW P, InJob(d, P), ServerApplies(d)
    PROVE  /\ Written(d, NextOp(d).path) \/ UNCHANGED <<serverVars, writer>>
           /\ NextOp(d).path \in P /\ P \subseteq Paths
           /\ UNCHANGED <<disk, base, cache, ignored, pending, known, counters>>
<1>1. Len(job[d].results) < Len(job[d].ops)
  BY DEF ServerApplies
<1>2. PICK op \in OpIn(P) : op = NextOp(d)
  BY <1>1, NextOpType
<1>3. op.path \in P /\ P \subseteq Paths
  BY DEF OpIn, InJob
<1>4. PICK row \in Entry \cup {None} : row = rows[op.path]
  BY <1>3 DEF BaseOK, GateTypeOK, Manifests
<1>5. op.hash \in Hashes \cup {NoHash} /\ op.content \in Contents \cup {None}
  BY DEF OpIn
<1>6. Live(op.hash) \in Entry /\ tombstone(row) \in Entry
  BY <1>5, LiveEntry DEF tombstone, Entry
<1>7. \/ CommitPut(op.path, op.hash, op.content) /\ Wrote(d, op.path)
      \/ CommitDelete(op.path) /\ Wrote(d, op.path)
      \/ UNCHANGED <<serverVars, writer>>
  BY <1>2 DEF ServerApplies, ServerPut, ServerDelete
<1>8. CASE CommitPut(op.path, op.hash, op.content) /\ Wrote(d, op.path)
  BY <1>2, <1>3, <1>5, <1>6, <1>8 DEF CommitPut, Written, ServerApplies
<1>9. CASE CommitDelete(op.path) /\ Wrote(d, op.path)
  BY <1>2, <1>3, <1>4, <1>6, <1>9 DEF CommitDelete, Written, ServerApplies
<1>10. CASE UNCHANGED <<serverVars, writer>>
  BY <1>2, <1>3, <1>10 DEF ServerApplies
<1>11. QED
  BY <1>7, <1>8, <1>9, <1>10

\* The cache after a fetch holds the server's revision and what was fetched.
LEMMA CacheTypes ==
    ASSUME BaseOK, NEW d \in Devices, RefreshCache(d)
    PROVE  cache' \in [Devices -> Cache \cup {None}]
<1>1. cache \in [Devices -> Cache \cup {None}] /\ rev \in Nat
  BY DEF BaseOK, GateTypeOK
<1>2. [etag |-> rev, manifest |-> FetchedManifest(d)] \in Cache
  BY <1>1, FetchedType DEF Cache
<1>3. QED
  BY <1>1, <1>2 DEF RefreshCache

\* The steps that change nothing but a job, a kept plan and the count of
\* failures.
Inner(d) ==
    \/ Walk(d) \/ DownloadsDone(d) \/ PrepareBatch(d) \/ SkipCheckpoint(d) \/ ResumePlan(d)
    \/ Failure(d)

\* They leave the files, the server, the checkpoints, the caches and the
\* patterns alone.
LEMMA InnerStep ==
    ASSUME BaseOK, NEW d \in Devices, Inner(d)
    PROVE  /\ UNCHANGED <<serverVars, disk, base, cache, ignored, ghosts, edits, ignoreEdits>>
           /\ faults' \in Nat
<1>0. faults \in Nat
  BY DEF BaseOK
<1>1. CASE Walk(d) \/ DownloadsDone(d) \/ PrepareBatch(d) \/ SkipCheckpoint(d) \/ ResumePlan(d)
  BY <1>0, <1>1 DEF Walk, DownloadsDone, PrepareBatch, SkipCheckpoint, ResumePlan, counters
<1>2. CASE \E p \in Paths : DeleteLocalFails(d, p) \/ FetchOneFails(d, p)
  BY <1>0, <1>2 DEF DeleteLocalFails, FetchOneFails, Fault
<1>3. CASE ServerFull(d) \/ BatchResend(d) \/ BatchFails(d) \/ Abort(d)
  <2>1. /\ Fault
        /\ UNCHANGED <<serverVars, disk, base, cache, ignored, ghosts, edits, ignoreEdits>>
    BY <1>3 DEF ServerFull, BatchResend, BatchFails, Abort
  <2>2. QED
    BY <1>0, <2>1 DEF Fault
<1>4. QED
  BY <1>1, <1>2, <1>3 DEF Inner, Failure

\* A step of a device is one of these.
LEMMA StepKinds ==
    ASSUME NEW d \in Devices,
           \/ \E p \in Paths : Edit(d, p) \/ Restore(d, p) \/ EditIgnore(d, p)
           \/ Engine(d) \/ ResumePlan(d) \/ Failure(d) \/ Poll(d)
    PROVE  \/ \E p \in Paths : \/ Edit(d, p) \/ Restore(d, p) \/ DeleteLocal(d, p) \/ FetchOne(d, p)
           \/ \E choice \in UserChoices : Resolve(d, choice)
           \/ \E p \in Paths : EditIgnore(d, p)
           \/ ServerApplies(d)
           \/ FetchAndPlan(d) \/ CheckpointFetch(d) \/ Poll(d)
           \/ BatchAnswered(d)
           \/ CheckpointSave(d)
           \/ Inner(d)
BY DEF Engine, Inner

\* A device that saves a checkpoint has just fetched its manifest.
Refetched == \A d \in Devices : job[d].stage = "saving" => cache[d] # None

\* A step keeps everything but the jobs well-typed.
LEMMA BaseStep ==
    ASSUME BaseOK, JobsOK, Refetched, NEW d \in Devices,
           \/ \E p \in Paths : Edit(d, p) \/ Restore(d, p) \/ EditIgnore(d, p)
           \/ Engine(d) \/ ResumePlan(d) \/ Failure(d) \/ Poll(d)
    PROVE  BaseOK'
<1>1. CASE \/ \E p \in Paths : \/ Edit(d, p) \/ Restore(d, p) \/ DeleteLocal(d, p) \/ FetchOne(d, p)
           \/ \E choice \in UserChoices : Resolve(d, choice)
  <2>1. /\ disk' \in [Devices -> [Paths -> Contents \cup {None}]] /\ Learnt
        /\ UNCHANGED <<serverVars, base, cache, ignored, pending, writer, ignoreEdits, faults>>
        /\ edits' \in Nat
    BY <1>1, DiskStep
  <2>2. QED
    BY <2>1 DEF BaseOK, GateTypeOK, Learnt, serverVars, gateVars
<1>2. CASE \E p \in Paths : EditIgnore(d, p)
  <2>1. PICK p \in Paths : EditIgnore(d, p)
    BY <1>2
  <2>2. ignored \in [Devices -> SUBSET Paths] /\ ignored[d] \in SUBSET Paths /\ ignoreEdits \in Nat
    BY DEF BaseOK
  <2>3. ignored' \in [Devices -> SUBSET Paths] /\ ignoreEdits' \in Nat
    BY <2>1, <2>2 DEF EditIgnore
  <2>4. UNCHANGED <<serverVars, disk, base, cache, ghosts, edits, faults>>
    BY <2>1 DEF EditIgnore
  <2>5. QED
    BY <2>3, <2>4 DEF BaseOK, GateTypeOK, serverVars, gateVars, ghosts
<1>3. CASE ServerApplies(d)
  <2>1. InJob(d, Paths)
    BY EngineAssumption DEF InJob, JobsOK, Copies
  <2>2. /\ Written(d, NextOp(d).path) \/ UNCHANGED <<serverVars, writer>>
        /\ NextOp(d).path \in Paths
        /\ UNCHANGED <<disk, base, cache, ignored, pending, known, counters>>
    BY <1>3, <2>1, ServerStep
  <2>3. PICK p \in Paths : p = NextOp(d).path
    BY <2>2
  <2>4. CASE UNCHANGED <<serverVars, writer>>
    BY <2>2, <2>4 DEF BaseOK, GateTypeOK, serverVars, gateVars, counters
  <2>5. CASE Written(d, p)
    <3>1. PICK e \in Entry, c \in Contents \cup {None} :
             rows' = [rows EXCEPT ![p] = e] /\ body' = [body EXCEPT ![p] = c]
      BY <2>5 DEF Written
    <3>2. rows' \in Manifests /\ body' \in [Paths -> Contents \cup {None}] /\ rev' \in Nat
      BY <2>5, <3>1 DEF BaseOK, GateTypeOK, Manifests, Written
    <3>3. archive' \in [Paths -> SUBSET Contents]
      <4>1. archive \in [Paths -> SUBSET Contents] /\ body[p] \in Contents \cup {None}
        BY DEF BaseOK, GateTypeOK
      <4>2. archive[p] \cup ({body[p]} \ {None}) \in SUBSET Contents
        BY <4>1
      <4>3. QED
        BY <2>5, <4>1, <4>2 DEF Written, Wrote
    <3>4. writer' \in [Paths -> Devices \cup {None}]
      BY <2>5 DEF Written, Wrote, BaseOK
    <3>5. QED
      BY <2>2, <3>2, <3>3, <3>4 DEF BaseOK, GateTypeOK, counters
  <2>6. QED
    BY <2>2, <2>3, <2>4, <2>5
<1>4. CASE FetchAndPlan(d) \/ CheckpointFetch(d) \/ Poll(d)
  <2>1. /\ cache' \in [Devices -> Cache \cup {None}]
        /\ UNCHANGED <<serverVars, disk, base, ignored, writer, counters>>
    BY <1>4, CacheTypes DEF FetchAndPlan, CheckpointFetch, Poll, ghosts
  <2>2. CASE CheckpointFetch(d) \/ Poll(d)
    <3>1. UNCHANGED known
      BY <2>2 DEF CheckpointFetch, Poll, ghosts
    <3>2. QED
      BY <2>1, <3>1 DEF BaseOK, GateTypeOK, serverVars, gateVars, counters
  <2>3. CASE FetchAndPlan(d)
    <3>1. PICK diff : diff = diff_local_and_remote(d, FetchedManifest(d))
      OBVIOUS
    <3>2. job[d].working \in Manifests /\ FetchedManifest(d) \in Manifests
      BY FetchedType DEF JobsOK, JobIn
    <3>3. \A p \in Paths : diff[p].kind = "Conflict" => diff[p].remote.hash \in Hashes \cup {NoHash}
      BY <3>1, <3>2, PlanTypes
    <3>4. PICK new : new = [p \in Paths |-> IF diff[p].kind = "Conflict"
                                            THEN known[d][p] \cup {diff[p].remote.hash}
                                            ELSE known[d][p]]
      OBVIOUS
    <3>5. known \in [Devices -> [Paths -> SUBSET (Hashes \cup {NoHash})]]
      BY DEF BaseOK
    <3>6. new \in [Paths -> SUBSET (Hashes \cup {NoHash})]
      BY <3>3, <3>4, <3>5
    <3>7. known' = [known EXCEPT ![d] = new]
      BY <2>3, <3>1, <3>4 DEF FetchAndPlan
    <3>8. known' \in [Devices -> [Paths -> SUBSET (Hashes \cup {NoHash})]]
      BY <3>5, <3>6, <3>7
    <3>9. QED
      BY <2>1, <3>8 DEF BaseOK, GateTypeOK, serverVars, gateVars, counters
  <2>4. QED
    BY <1>4, <2>2, <2>3
<1>5. CASE BatchAnswered(d)
  <2>1. PICK new : new = [p \in Paths |-> known[d][p] \cup
              {job[d].results[i].current.hash : i \in {j \in DOMAIN job[d].results :
                  job[d].ops[j].path = p /\ job[d].results[j].status = "409"}}]
    OBVIOUS
  <2>2. known \in [Devices -> [Paths -> SUBSET (Hashes \cup {NoHash})]]
    BY DEF BaseOK
  <2>3. \A i \in DOMAIN job[d].results : job[d].results[i] \in Verdict
    BY ElementOfSeq, LenProperties DEF JobsOK, JobIn
  <2>4. \A res \in Verdict : res.status = "409" => res.current.hash \in Hashes \cup {NoHash}
    BY DEF Verdict, Entry
  <2>5. new \in [Paths -> SUBSET (Hashes \cup {NoHash})]
    BY <2>1, <2>2, <2>3, <2>4
  <2>6. known' = [known EXCEPT ![d] = new]
    BY <1>5, <2>1 DEF BatchAnswered
  <2>7. known' \in [Devices -> [Paths -> SUBSET (Hashes \cup {NoHash})]]
    BY <2>2, <2>5, <2>6
  <2>8. UNCHANGED <<serverVars, disk, base, cache, ignored, writer, counters>>
    BY <1>5 DEF BatchAnswered
  <2>9. QED
    BY <2>7, <2>8 DEF BaseOK, GateTypeOK, serverVars, gateVars, counters
<1>6. CASE CheckpointSave(d)
  <2>1. PICK m : m = checkpoint_manifest(base[d], cache[d].manifest, job[d].hold_back)
    OBVIOUS
  <2>2. cache[d] \in Cache /\ base \in [Devices -> Manifests]
    BY <1>6 DEF CheckpointSave, Refetched, BaseOK
  <2>3. m \in Manifests
    BY <2>1, <2>2 DEF checkpoint_manifest, Manifests, Cache
  <2>4. base' = [base EXCEPT ![d] = m]
    BY <1>6, <2>1 DEF CheckpointSave
  <2>5. base' \in [Devices -> Manifests]
    BY <2>2, <2>3, <2>4
  <2>6. UNCHANGED <<serverVars, disk, cache, ignored, ghosts, counters>>
    BY <1>6 DEF CheckpointSave
  <2>7. QED
    BY <2>5, <2>6 DEF BaseOK, GateTypeOK, serverVars, gateVars, ghosts, counters
<1>7. CASE Inner(d)
  <2>1. /\ UNCHANGED <<serverVars, disk, base, cache, ignored, ghosts, edits, ignoreEdits>>
        /\ faults' \in Nat
    BY <1>7, InnerStep
  <2>2. QED
    BY <2>1 DEF BaseOK, GateTypeOK, serverVars, gateVars, ghosts
<1>8. QED
  BY <1>1, <1>2, <1>3, <1>4, <1>5, <1>6, <1>7, StepKinds

\* What becomes of the plan a host keeps: it stays, is lost, or gives way to the
\* conflicts of the cycle that ends.
LEMMA PlanKept ==
    ASSUME NEW d \in Devices, JobsOK,
           \/ \E p \in Paths : Edit(d, p) \/ Restore(d, p) \/ EditIgnore(d, p)
           \/ Engine(d) \/ ResumePlan(d) \/ Failure(d) \/ Poll(d)
    PROVE  \/ pending' = pending
           \/ pending' = [pending EXCEPT ![d] = <<>>]
           \/ pending' = [pending EXCEPT ![d] = job[d].left]
<1>1. CASE \E p \in Paths : Edit(d, p) \/ Restore(d, p) \/ EditIgnore(d, p) \/ DeleteLocal(d, p)
              \/ FetchOne(d, p) \/ DeleteLocalFails(d, p) \/ FetchOneFails(d, p)
  BY <1>1 DEF Edit, Restore, EditIgnore, DeleteLocal, FetchOne, DeleteLocalFails, FetchOneFails
<1>2. CASE \/ Walk(d) \/ FetchAndPlan(d) \/ DownloadsDone(d) \/ PrepareBatch(d) \/ ServerApplies(d)
           \/ BatchAnswered(d) \/ CheckpointFetch(d) \/ ResumePlan(d) \/ Poll(d)
           \/ \E choice \in UserChoices : Resolve(d, choice)
  BY <1>2 DEF Walk, FetchAndPlan, DownloadsDone, PrepareBatch, ServerApplies, BatchAnswered,
              CheckpointFetch, ResumePlan, Poll, Resolve
<1>3. CASE ServerFull(d) \/ BatchResend(d) \/ BatchFails(d)
  BY <1>3 DEF ServerFull, BatchResend, BatchFails
<1>4. CASE CheckpointSave(d) \/ SkipCheckpoint(d)
  BY <1>4 DEF CheckpointSave, SkipCheckpoint, EndCycle, from_late_conflicts
<1>5. CASE Abort(d)
  <2>1. PICK kept \in {<<>>, job[d].left, pending[d]} : pending' = [pending EXCEPT ![d] = kept]
    BY <1>5 DEF Abort, from_late_conflicts
  <2>2. QED
    BY <2>1 DEF JobsOK
<1>6. QED
  BY <1>1, <1>2, <1>3, <1>4, <1>5 DEF Engine, Failure

\* The jobs and the kept plans stay well-typed.
LEMMA JobsStep ==
    ASSUME BaseOK, JobsOK, NEW d \in Devices,
           \/ \E p \in Paths : Edit(d, p) \/ Restore(d, p) \/ EditIgnore(d, p)
           \/ Engine(d) \/ ResumePlan(d) \/ Failure(d) \/ Poll(d)
    PROVE  JobsOK'
<1>1. InJob(d, Paths)
  BY EngineAssumption DEF InJob, JobsOK, Copies
<1>2. pending[d] \in Seq(ConflictIn(Paths)) /\ pending \in [Devices -> Seq(ConflictIn(Paths))]
  BY DEF JobsOK
<1>3. UNCHANGED job \/ Moved(d, Paths)
  BY <1>1, <1>2, JobStep DEF Edit, Restore, EditIgnore, Poll
<1>4. /\ job' \in [Devices -> JobIn(Paths)]
      /\ \A e \in Devices : JobSide(job'[e])
  <2>1. CASE UNCHANGED job
    BY <2>1 DEF JobsOK
  <2>2. CASE Moved(d, Paths)
    <3>1. \A e \in Devices : job'[e] \in JobIn(Paths) /\ JobSide(job'[e])
      BY <2>2 DEF JobsOK, Moved
    <3>2. job' = [e \in Devices |-> job'[e]]
      BY <2>2 DEF Moved
    <3>3. QED
      BY <3>1, <3>2
  <2>3. QED
    BY <1>3, <2>1, <2>2
<1>5. pending' \in [Devices -> Seq(ConflictIn(Paths))]
  <2>1. job[d].left \in Seq(ConflictIn(Paths)) /\ <<>> \in Seq(ConflictIn(Paths))
    BY DEF JobsOK, JobIn
  <2>2. QED
    BY <1>2, <2>1, PlanKept
<1>6. QED
  BY <1>4, <1>5 DEF JobsOK

\* Only CheckpointFetch leads to the saving of a checkpoint.
LEMMA RefetchedStep ==
    ASSUME BaseOK, JobsOK, Refetched, NEW d \in Devices,
           \/ \E p \in Paths : Edit(d, p) \/ Restore(d, p) \/ EditIgnore(d, p)
           \/ Engine(d) \/ ResumePlan(d) \/ Failure(d) \/ Poll(d)
    PROVE  Refetched'
<1>0. job \in [Devices -> JobIn(Paths)] /\ job[d] \in JobIn(Paths)
  BY DEF JobsOK
<1>1. \A e \in Devices \ {d} : job'[e] = job[e]
  <2>1. InJob(d, Paths)
    BY EngineAssumption DEF InJob, JobsOK, Copies
  <2>2. pending[d] \in Seq(ConflictIn(Paths))
    BY DEF JobsOK
  <2>3. UNCHANGED job \/ Moved(d, Paths)
    BY <2>1, <2>2, JobStep DEF Edit, Restore, EditIgnore, Poll
  <2>4. QED
    BY <2>3 DEF Moved
<1>2. \A e \in Devices : cache'[e] = None => cache[e] = None
  <2>1. UNCHANGED cache \/ RefreshCache(d)
    <3>1. CASE \/ \E p \in Paths : \/ Edit(d, p) \/ Restore(d, p) \/ DeleteLocal(d, p) \/ FetchOne(d, p)
               \/ \E choice \in UserChoices : Resolve(d, choice)
      BY <3>1, DiskStep
    <3>2. CASE Inner(d)
      BY <3>2, InnerStep
    <3>3. CASE \/ \E p \in Paths : EditIgnore(d, p)
               \/ ServerApplies(d) \/ BatchAnswered(d) \/ CheckpointSave(d)
      BY <3>3 DEF EditIgnore, ServerApplies, BatchAnswered, CheckpointSave
    <3>4. CASE FetchAndPlan(d) \/ CheckpointFetch(d) \/ Poll(d)
      BY <3>4 DEF FetchAndPlan, CheckpointFetch, Poll
    <3>5. QED
      BY <3>1, <3>2, <3>3, <3>4, StepKinds
  <2>2. cache \in [Devices -> Cache \cup {None}] /\ rev \in Nat
    BY DEF BaseOK, GateTypeOK
  <2>3. CASE RefreshCache(d)
    <3>1. PICK c \in Cache : c = [etag |-> rev, manifest |-> FetchedManifest(d)]
      BY <2>2, FetchedType DEF Cache
    <3>2. cache' = [cache EXCEPT ![d] = c] /\ c # None
      BY <2>3, <3>1, CacheAssumption DEF RefreshCache
    <3>3. QED
      BY <2>2, <3>2
  <2>4. QED
    BY <2>1, <2>3
<1>3. CASE CheckpointFetch(d)
  <2>1. PICK c \in Cache : c = [etag |-> rev, manifest |-> FetchedManifest(d)]
    BY FetchedType DEF Cache, BaseOK, GateTypeOK
  <2>2. cache'[d] = c /\ c # None
    BY <1>3, <2>1, CacheAssumption DEF CheckpointFetch, RefreshCache, BaseOK
  <2>3. QED
    BY <1>1, <1>2, <2>2 DEF Refetched
<1>4. CASE ~CheckpointFetch(d)
  <2>1. job'[d].stage = "saving" => job[d].stage = "saving"
    <3>1. CASE Poll(d) \/ \E p \in Paths : Edit(d, p) \/ Restore(d, p) \/ EditIgnore(d, p)
      BY <3>1 DEF Edit, Restore, EditIgnore, Poll
    <3>2. CASE \E p \in Paths : DeleteLocal(d, p) \/ DeleteLocalFails(d, p)
      BY <1>0, <3>2 DEF DeleteLocal, DeleteLocalFails, JobIn
    <3>3. CASE \E p \in Paths : FetchOne(d, p) \/ FetchOneFails(d, p)
      BY <1>0, <3>3 DEF FetchOne, FetchOneFails, JobIn
    <3>4. CASE Walk(d)
      BY <1>0, <3>4 DEF Walk, JobIn
    <3>5. CASE FetchAndPlan(d)
      BY <1>0, <3>5 DEF FetchAndPlan, JobIn
    <3>6. CASE DownloadsDone(d)
      BY <1>0, <3>6 DEF DownloadsDone, AfterDownloads, JobIn
    <3>7. CASE \E choice \in UserChoices : Resolve(d, choice)
      <4>1. \/ job' = [job EXCEPT ![d] = IdleJob]
            \/ \E us, de : job' = Resolved(d, us, de)
        BY <3>7 DEF Resolve, KeepRemote, KeepBoth
      <4>2. ASSUME NEW us, NEW de, job' = Resolved(d, us, de)
            PROVE  job'[d].stage = AfterDownloads(Tail(job[d].conflicts))
        BY <1>0, <4>2 DEF Resolved, JobIn
      <4>3. QED
        BY <1>0, <4>1, <4>2 DEF IdleJob, AfterDownloads
    <3>8. CASE PrepareBatch(d)
      <4>1. PICK n \in 1..BATCH_MAX_OPS :
               LET batch == SubSeq(job[d].uploads, 1, n)
                   readable(act) == act.kind = "Upload" => disk[d][act.path] # None
                   members == Ascending({i \in 1..n : readable(batch[i])})
               IN  job' = [job EXCEPT
                     ![d].stage = IF members = <<>> THEN "uploading" ELSE "sending",
                     ![d].uploads = SubSeq(@, n + 1, Len(@)),
                     ![d].ops = build_batch_form(d, batch, members),
                     ![d].results = <<>>, ![d].attempt = 0, ![d].landed = {},
                     ![d].hold_back = @ \cup
                         {batch[i].path : i \in {i \in DOMAIN batch : ~readable(batch[i])}}]
        BY <3>8 DEF PrepareBatch
      <4>2. PICK s, us, os, hb :
               /\ job' = [job EXCEPT ![d].stage = s, ![d].uploads = us, ![d].ops = os,
                     ![d].results = <<>>, ![d].attempt = 0, ![d].landed = {}, ![d].hold_back = hb]
               /\ s \in {"uploading", "sending"}
        BY <4>1, Zenon
      <4>3. QED
        BY <1>0, <4>2 DEF JobIn
    <3>9. CASE ServerApplies(d) \/ ServerFull(d)
      <4>1. \E status, current : Answer(d, status, current)
        BY <3>9 DEF ServerApplies, ServerFull, ServerPut, ServerDelete
      <4>2. QED
        BY <1>0, <4>1 DEF Answer, JobIn
    <3>10. CASE BatchAnswered(d)
      BY <1>0, <3>10 DEF BatchAnswered, JobIn
    <3>11. CASE BatchResend(d) \/ BatchFails(d)
      <4>1. CASE BatchResend(d)
        BY <1>0, <4>1 DEF BatchResend, JobIn
      <4>2. CASE BatchFails(d)
        <5>1. PICK held : held = {job[d].ops[i].path : i \in DOMAIN job[d].ops}
          OBVIOUS
        <5>2. PICK fatal \in BOOLEAN :
                job' = [job EXCEPT
                    ![d].stage = "uploading", ![d].hold_back = @ \cup held,
                    ![d].fatal = @ \/ fatal,
                    ![d].uploads = IF fatal THEN <<>> ELSE @,
                    ![d].ops = <<>>, ![d].results = <<>>, ![d].attempt = 0, ![d].landed = {}]
          BY <4>2, <5>1 DEF BatchFails
        <5>3. job'[d].stage = "uploading"
          BY <1>0, <5>2 DEF JobIn
        <5>4. QED
          BY <5>3
      <4>3. QED
        BY <3>11, <4>1, <4>2
    <3>12. CASE CheckpointSave(d) \/ SkipCheckpoint(d) \/ Abort(d)
      BY <1>0, <3>12 DEF CheckpointSave, SkipCheckpoint, Abort, EndCycle, IdleJob
    <3>13. CASE ResumePlan(d)
      BY <1>0, <3>13 DEF ResumePlan, JobIn
    <3>14. QED
      BY <1>4, <3>1, <3>2, <3>3, <3>4, <3>5, <3>6, <3>7, <3>8, <3>9, <3>10, <3>11, <3>12, <3>13
         DEF Engine, Failure
  <2>2. QED
    BY <1>1, <1>2, <2>1 DEF Refetched
<1>5. QED
  BY <1>3, <1>4

-----------------------------------------------------------------------------
(* The invariant and the theorems on types and the cache                   *)

\* The inductive invariant behind the types.
TypesInv == BaseOK /\ JobsOK /\ Refetched

\* The devices start with well-typed state.
LEMMA TypesInit == Init => TypesInv
<1> SUFFICES ASSUME Init PROVE TypesInv
  OBVIOUS
<1>1. PICK files \in [Paths -> InitialFiles] :
        /\ rows = [p \in Paths |-> IF files[p] = None THEN None ELSE Live(HashOf[files[p]])]
        /\ body = files
        /\ archive = [p \in Paths |-> {}]
        /\ rev = 0
        /\ disk = [d \in Devices |-> IF d \in Joining THEN [p \in Paths |-> None] ELSE files]
        /\ base = [d \in Devices |-> IF d \in Joining THEN EmptyManifest ELSE rows]
        /\ cache = [d \in Devices |-> IF d \in Joining THEN None
                                      ELSE [etag |-> 0, manifest |-> rows]]
        /\ ignored = InitiallyIgnored
        /\ job = [d \in Devices |-> IdleJob]
        /\ pending = [d \in Devices |-> <<>>]
        /\ writer = [p \in Paths |-> None]
        /\ known = [d \in Devices |->
                      [p \in Paths |-> {HashOf[c] : c \in {disk[d][p]} \ {None}}]]
        /\ edits = 0 /\ ignoreEdits = 0 /\ faults = 0
  BY DEF Init
<1>2. files \in [Paths -> Contents \cup {None}]
  BY EngineAssumption
<1>3. \A h \in Hashes : Live(h) \in Entry
  BY LiveEntry
<1>4. rows \in Manifests
  BY <1>1, <1>2, <1>3, EngineAssumption DEF Manifests
<1>5. disk \in [Devices -> [Paths -> Contents \cup {None}]]
  BY <1>1, <1>2
<1>6. EmptyManifest \in Manifests
  BY DEF EmptyManifest, Manifests
<1>7. base \in [Devices -> Manifests] /\ cache \in [Devices -> Cache \cup {None}]
  BY <1>1, <1>4, <1>6 DEF Cache
<1>8. known \in [Devices -> [Paths -> SUBSET (Hashes \cup {NoHash})]]
  <2>1. \A d \in Devices, p \in Paths :
           {HashOf[c] : c \in {disk[d][p]} \ {None}} \in SUBSET (Hashes \cup {NoHash})
    BY <1>5, EngineAssumption
  <2>2. QED
    BY <1>1, <2>1
<1>9. archive \in [Paths -> SUBSET Contents] /\ writer \in [Paths -> Devices \cup {None}]
  BY <1>1
<1>10. ignored \in [Devices -> SUBSET Paths]
  BY <1>1, EngineAssumption
<1>a. body \in [Paths -> Contents \cup {None}] /\ rev \in Nat /\ {edits, ignoreEdits, faults} \subseteq Nat
  BY <1>1, <1>2
<1>11. BaseOK
  BY <1>4, <1>5, <1>7, <1>8, <1>9, <1>10, <1>a DEF BaseOK, GateTypeOK
<1>12. JobsOK
  <2>1. IdleJob \in JobIn(Paths) /\ JobSide(IdleJob) /\ <<>> \in Seq(ConflictIn(Paths))
    BY IdleJobType
  <2>2. QED
    BY <1>1, <2>1 DEF JobsOK
<1>13. Refetched
  BY <1>1 DEF Refetched, IdleJob
<1>14. QED
  BY <1>11, <1>12, <1>13 DEF TypesInv

\* Every step keeps it.
LEMMA TypesNext == TypesInv /\ [Next]_vars => TypesInv'
<1> SUFFICES ASSUME TypesInv, [Next]_vars PROVE TypesInv'
  OBVIOUS
<1>1. CASE UNCHANGED vars
  BY <1>1 DEF vars, local, ghosts, counters, TypesInv, BaseOK, GateTypeOK, JobsOK, Refetched
<1>2. CASE Next
  <2>1. PICK d \in Devices :
           \/ \E p \in Paths : Edit(d, p) \/ Restore(d, p) \/ EditIgnore(d, p)
           \/ Engine(d) \/ ResumePlan(d) \/ Failure(d) \/ Poll(d)
    BY <1>2 DEF Next
  <2>2. QED
    BY <2>1, BaseStep, JobsStep, RefetchedStep DEF TypesInv
<1>3. QED
  BY <1>1, <1>2

\* The invariant holds in every behaviour.
LEMMA TypesAlways == Spec => []TypesInv
BY TypesInit, TypesNext, PTL DEF Spec

\* Every device's files, checkpoint, cache, plan and batch, and the server's
\* rows, have the declared types, whatever the numbers of devices and paths,
\* the cut of the batches, the user's choices and the failures.
THEOREM EngineTypes == Spec => []TypeOK
<1>1. TypesInv => TypeOK
  BY JobTypes DEF TypesInv
<1>2. QED
  BY <1>1, TypesAlways, PTL

\* A device that may trust its cache always fetches the server's rows.
LEMMA FetchedRows ==
    ASSUME BaseOK, EtagSound, NEW d \in Devices
    PROVE  FetchedManifest(d) = rows
<1>1. rows # None
  BY CacheAssumption DEF BaseOK, GateTypeOK
<1>2. QED
  BY <1>1 DEF FetchedManifest, get_manifest, EtagSound

\* How a step touches the server and the caches: it fetches, it has the
\* server run an operation, or neither.
LEMMA ServerOrCache ==
    ASSUME BaseOK, JobsOK, NEW d \in Devices,
           \/ \E p \in Paths : Edit(d, p) \/ Restore(d, p) \/ EditIgnore(d, p)
           \/ Engine(d) \/ ResumePlan(d) \/ Failure(d) \/ Poll(d)
    PROVE  \/ UNCHANGED <<serverVars, writer, cache>>
           \/ RefreshCache(d) /\ UNCHANGED <<serverVars, writer>>
           \/ ServerApplies(d)
<1>1. CASE \/ \E p \in Paths : \/ Edit(d, p) \/ Restore(d, p) \/ DeleteLocal(d, p) \/ FetchOne(d, p)
           \/ \E choice \in UserChoices : Resolve(d, choice)
  BY <1>1, DiskStep
<1>2. CASE Inner(d)
  BY <1>2, InnerStep DEF ghosts
<1>3. CASE (\E p \in Paths : EditIgnore(d, p)) \/ BatchAnswered(d) \/ CheckpointSave(d)
  BY <1>3 DEF EditIgnore, BatchAnswered, CheckpointSave, ghosts
<1>4. CASE FetchAndPlan(d) \/ CheckpointFetch(d) \/ Poll(d)
  BY <1>4 DEF FetchAndPlan, CheckpointFetch, Poll, ghosts
<1>5. QED
  BY <1>1, <1>2, <1>3, <1>4, StepKinds

\* A step keeps the ETags sound: a write moves the revision past every cache,
\* and a fetch stores the rows under their own revision.
LEMMA EtagStep == TypesInv /\ EtagSound /\ [Next]_vars => EtagSound'
<1> SUFFICES ASSUME TypesInv, EtagSound, [Next]_vars PROVE EtagSound'
  OBVIOUS
<1>0. BaseOK /\ JobsOK /\ rev \in Nat /\ cache \in [Devices -> Cache \cup {None}]
  BY DEF TypesInv, BaseOK, GateTypeOK
<1>1. CASE UNCHANGED vars
  BY <1>1 DEF vars, local, EtagSound
<1>2. CASE Next
  <2>1. PICK d \in Devices :
           \/ \E p \in Paths : Edit(d, p) \/ Restore(d, p) \/ EditIgnore(d, p)
           \/ Engine(d) \/ ResumePlan(d) \/ Failure(d) \/ Poll(d)
    BY <1>2 DEF Next
  <2>2. CASE UNCHANGED <<serverVars, writer, cache>>
    BY <2>2 DEF serverVars, gateVars, EtagSound
  <2>3. CASE RefreshCache(d) /\ UNCHANGED <<serverVars, writer>>
    <3>1. cache' = [cache EXCEPT ![d] = [etag |-> rev, manifest |-> rows]]
      BY <1>0, <2>3, FetchedRows DEF RefreshCache
    <3>2. rev' = rev /\ rows' = rows
      BY <2>3 DEF serverVars, gateVars
    <3>3. QED
      BY <1>0, <3>1, <3>2 DEF EtagSound
  <2>4. CASE ServerApplies(d)
    <3>1. InJob(d, Paths)
      BY <1>0, EngineAssumption DEF InJob, JobsOK, Copies
    <3>2. cache' = cache /\ (Written(d, NextOp(d).path) \/ UNCHANGED serverVars)
      BY <1>0, <2>4, <3>1, ServerStep
    <3>3. CASE UNCHANGED serverVars
      BY <3>2, <3>3 DEF serverVars, gateVars, EtagSound
    <3>4. CASE Written(d, NextOp(d).path)
      <4>1. rev' = rev + 1
        BY <3>4 DEF Written
      <4>2. ASSUME NEW e \in Devices, cache[e] # None
            PROVE  cache[e].etag <= rev' /\ cache[e].etag # rev'
        <5>1. cache[e].etag \in Nat /\ cache[e].etag <= rev
          BY <1>0, <4>2 DEF EtagSound, Cache
        <5>2. QED
          BY <1>0, <4>1, <5>1
      <4>3. QED
        BY <3>2, <4>2 DEF EtagSound
    <3>5. QED
      BY <3>2, <3>3, <3>4
  <2>5. QED
    BY <1>0, <2>1, <2>2, <2>3, <2>4, ServerOrCache
<1>3. QED
  BY <1>1, <1>2

\* A revision names one table of rows: a manifest that a device keeps under an
\* ETag is, on a 304, what the server holds (get_manifest, bump_revision,
\* fetch_remote_manifest), for any number of devices writing in between.
THEOREM EtagKept == Spec => []EtagSound
<1>1. Init => EtagSound
  <2> SUFFICES ASSUME Init PROVE EtagSound
    OBVIOUS
  <2>1. /\ rev = 0
        /\ cache = [d \in Devices |-> IF d \in Joining THEN None
                                      ELSE [etag |-> 0, manifest |-> rows]]
    BY DEF Init
  <2>2. QED
    BY <2>1 DEF EtagSound
<1>2. QED
  BY <1>1, EtagStep, TypesAlways, PTL DEF Spec

-----------------------------------------------------------------------------
(* Ignored paths                                                           *)

\* The engine's steps write only to files of the job's own paths, and only on
\* their own device.
LEMMA DiskWhere ==
    ASSUME BaseOK, JobsOK, NEW d \in Devices, NEW P, InJob(d, P),
           \/ \E p \in Paths : DeleteLocal(d, p) \/ FetchOne(d, p)
           \/ \E choice \in UserChoices : Resolve(d, choice)
    PROVE  \A e \in Devices, q \in Paths : disk'[e][q] # disk[e][q] => e = d /\ q \in P
<1>0. disk \in [Devices -> [Paths -> Contents \cup {None}]] /\ None \in Contents \cup {None}
  BY DEF BaseOK
<1>1. ASSUME NEW p \in P, NEW c \in Contents \cup {None}, disk' = [disk EXCEPT ![d][p] = c]
      PROVE  \A e \in Devices, q \in Paths : disk'[e][q] # disk[e][q] => e = d /\ q \in P
  BY <1>1, DiskTypes DEF InJob
<1>2. ASSUME NEW p \in Paths, DeleteLocal(d, p)
      PROVE  \A e \in Devices, q \in Paths : disk'[e][q] # disk[e][q] => e = d /\ q \in P
  <2>1. p \in P /\ disk' = [disk EXCEPT ![d][p] = None]
    BY <1>2 DEF DeleteLocal, InJob, JobIn
  <2>2. QED
    BY <1>0, <1>1, <2>1
<1>3. ASSUME NEW p \in Paths, get_file(p) # None, NEW q \in P, decrypt_and_write(d, q, get_file(p))
      PROVE  \A e \in Devices, r \in Paths : disk'[e][r] # disk[e][r] => e = d /\ r \in P
  <2>1. get_file(p) \in Contents \cup {None}
    BY DEF get_file, BaseOK, GateTypeOK
  <2>2. disk' = [disk EXCEPT ![d][q] = get_file(p)]
    BY <1>3 DEF decrypt_and_write, write_atomic
  <2>3. QED
    BY <1>1, <2>1, <2>2
<1>4. ASSUME NEW p \in Paths, FetchOne(d, p)
      PROVE  \A e \in Devices, q \in Paths : disk'[e][q] # disk[e][q] => e = d /\ q \in P
  <2>1. p \in P
    BY <1>4 DEF FetchOne, InJob, JobIn
  <2>2. UNCHANGED disk \/ (get_file(p) # None /\ decrypt_and_write(d, p, get_file(p)))
    BY <1>4 DEF FetchOne
  <2>3. QED
    BY <1>3, <2>1, <2>2
<1>5. ASSUME NEW choice \in UserChoices, Resolve(d, choice)
      PROVE  \A e \in Devices, q \in Paths : disk'[e][q] # disk[e][q] => e = d /\ q \in P
  <2>1. job[d].stage = "resolving"
    BY <1>5 DEF Resolve
  <2>2. PICK c \in ConflictIn(P) : c = Head(job[d].conflicts)
    BY <2>1, HeadTailProperties DEF InJob, JobIn, JobSide
  <2>3. PICK p \in P : p = c.path
    BY DEF ConflictIn
  <2>4. p \in Paths /\ (p \in DOMAIN CopyOf => CopyOf[p] \in P)
    BY DEF InJob, Copies
  <2>5. \/ disk' = disk
        \/ disk' = [disk EXCEPT ![d][p] = None]
        \/ get_file(p) # None /\ decrypt_and_write(d, p, get_file(p))
        \/ p \in DOMAIN CopyOf /\ get_file(p) # None /\ decrypt_and_write(d, CopyOf[p], get_file(p))
    BY <1>5, <2>2, <2>3 DEF Resolve, KeepRemote, KeepBoth, effective_choice
  <2>6. QED
    BY <1>0, <1>1, <1>3, <2>4, <2>5
<1>6. QED
  BY <1>2, <1>4, <1>5

\* The paths a device's cycle may touch.
Visible(d) == (Paths \ ignored[d]) \cup Copies

\* A job holds visible paths only, and so does a plan that may be resumed.
VisibleInv ==
    /\ \A d \in Devices : job[d] \in JobIn(Visible(d))
    /\ ResumePlans => \A d \in Devices : pending[d] \in Seq(ConflictIn(Visible(d)))

\* Such a job is one that the steps move on.
LEMMA VisibleJob ==
    ASSUME BaseOK, JobsOK, VisibleInv, NEW d \in Devices
    PROVE  InJob(d, Visible(d))
<1>1. Visible(d) \in SUBSET Paths /\ Copies \subseteq Visible(d) /\ Paths \ ignored[d] \subseteq Visible(d)
  BY EngineAssumption DEF Visible, Copies
<1>2. QED
  BY <1>1 DEF InJob, VisibleInv, JobsOK

\* A device's step leaves the patterns alone, unless it changes one, which it
\* does outside of a cycle.
LEMMA PatternsKept ==
    ASSUME BaseOK, JobsOK, NEW d \in Devices,
           \/ \E p \in Paths : Edit(d, p) \/ Restore(d, p)
           \/ Engine(d) \/ ResumePlan(d) \/ Failure(d) \/ Poll(d)
    PROVE  UNCHANGED ignored
<1>1. CASE \/ \E p \in Paths : \/ Edit(d, p) \/ Restore(d, p) \/ DeleteLocal(d, p) \/ FetchOne(d, p)
           \/ \E choice \in UserChoices : Resolve(d, choice)
  BY <1>1, DiskStep
<1>2. CASE Inner(d)
  BY <1>2, InnerStep
<1>3. CASE ServerApplies(d) \/ BatchAnswered(d) \/ CheckpointSave(d)
  BY <1>3 DEF ServerApplies, BatchAnswered, CheckpointSave
<1>4. CASE FetchAndPlan(d) \/ CheckpointFetch(d) \/ Poll(d)
  BY <1>4 DEF FetchAndPlan, CheckpointFetch, Poll
<1>5. QED
  BY <1>1, <1>2, <1>3, <1>4 DEF Engine, Inner

\* Plans stay on visible paths.
LEMMA VisibleStep ==
    ASSUME ~ResumePlans \/ MaxIgnoreEdits = 0, TypesInv, VisibleInv, [Next]_vars
    PROVE  VisibleInv'
<1>0. BaseOK /\ JobsOK
  BY DEF TypesInv
<1>1. CASE UNCHANGED vars
  BY <1>1 DEF vars, local, VisibleInv, Visible
<1>2. CASE Next
  <2>1. PICK d \in Devices :
           \/ \E p \in Paths : Edit(d, p) \/ Restore(d, p) \/ EditIgnore(d, p)
           \/ Engine(d) \/ ResumePlan(d) \/ Failure(d) \/ Poll(d)
    BY <1>2 DEF Next
  <2>2. CASE \E p \in Paths : EditIgnore(d, p)
    <3>1. PICK p \in Paths : EditIgnore(d, p)
      BY <2>2
    <3>2. /\ ~ResumePlans
      <4>1. ignoreEdits \in Nat /\ MaxIgnoreEdits \in Nat /\ ignoreEdits < MaxIgnoreEdits
        BY <1>0, <3>1, EngineAssumption DEF BaseOK, EditIgnore
      <4>2. QED
        BY <4>1
    <3>3. job' = job /\ job[d] = IdleJob
      BY <1>0, <3>1 DEF EditIgnore, JobsOK, JobSide
    <3>4. \A e \in Devices \ {d} : ignored'[e] = ignored[e]
      BY <1>0, <3>1 DEF EditIgnore, BaseOK
    <3>5. ASSUME NEW e \in Devices PROVE job'[e] \in JobIn(Visible(e)')
      <4>1. CASE e = d
        BY <3>3, <4>1, IdleJobType
      <4>2. CASE e # d
        BY <3>3, <3>4, <4>2 DEF VisibleInv, Visible
      <4>3. QED
        BY <4>1, <4>2
    <3>6. QED
      BY <3>2, <3>5 DEF VisibleInv
  <2>3. CASE \/ \E p \in Paths : Edit(d, p) \/ Restore(d, p)
             \/ Engine(d) \/ ResumePlan(d) \/ Failure(d) \/ Poll(d)
    <3>1. \A e \in Devices : Visible(e)' = Visible(e)
      BY <1>0, <2>3, PatternsKept DEF Visible
    <3>2. InJob(d, Visible(d))
      BY <1>0, VisibleJob
    <3>3. UNCHANGED job \/ Moved(d, Visible(d))
      <4>1. CASE Poll(d) \/ \E p \in Paths : Edit(d, p) \/ Restore(d, p)
        BY <4>1 DEF Edit, Restore, Poll
      <4>2. CASE Engine(d) \/ ResumePlan(d) \/ Failure(d)
        <5>1. ResumePlan(d) => pending[d] \in Seq(ConflictIn(Visible(d)))
          BY DEF ResumePlan, VisibleInv
        <5>2. QED
          BY <1>0, <3>2, <4>2, <5>1, JobStep
      <4>3. QED
        BY <2>3, <4>1, <4>2
    <3>4. \A e \in Devices : job'[e] \in JobIn(Visible(e))
      BY <3>3 DEF VisibleInv, Moved
    <3>5. ASSUME ResumePlans, NEW e \in Devices PROVE pending'[e] \in Seq(ConflictIn(Visible(e)))
      <4>1. pending[e] \in Seq(ConflictIn(Visible(e))) /\ <<>> \in Seq(ConflictIn(Visible(e)))
        BY <3>5 DEF VisibleInv
      <4>2. job[d].left \in Seq(ConflictIn(Visible(d)))
        BY <3>2 DEF InJob, JobIn
      <4>3. pending'[e] = pending[e] \/ pending'[e] = <<>> \/ (e = d /\ pending'[e] = job[d].left)
        BY <1>0, <2>3, PlanKept DEF JobsOK
      <4>4. QED
        BY <4>1, <4>2, <4>3
    <3>6. QED
      BY <3>1, <3>4, <3>5 DEF VisibleInv
  <2>4. QED
    BY <2>1, <2>2, <2>3
<1>3. QED
  BY <1>1, <1>2

\* What the property says of one step.
LEMMA IgnoredStep ==
    ASSUME ~ResumePlans \/ MaxIgnoreEdits = 0, TypesInv, VisibleInv, [Next]_vars,
           NEW d \in Devices, job'[d] # job[d],
           NEW p \in ignored[d] \ Copies
    PROVE  disk'[d][p] = disk[d][p] /\ rows'[p] = rows[p]
<1>0. BaseOK /\ JobsOK /\ p \in Paths /\ p \notin Visible(d)
  BY DEF TypesInv, BaseOK, Visible
<1>1. InJob(d, Visible(d))
  BY <1>0, VisibleJob
<1>2. PICK e \in Devices :
         \/ \E q \in Paths : Edit(e, q) \/ Restore(e, q) \/ EditIgnore(e, q)
         \/ Engine(e) \/ ResumePlan(e) \/ Failure(e) \/ Poll(e)
  BY DEF Next, vars, local
<1>3. e = d /\ (Engine(d) \/ ResumePlan(d) \/ Failure(d))
  <2>1. Engine(e) \/ ResumePlan(e) \/ Failure(e)
    BY <1>2 DEF Edit, Restore, EditIgnore, Poll
  <2>2. InJob(e, Paths) /\ pending[e] \in Seq(ConflictIn(Paths))
    BY <1>0, EngineAssumption DEF InJob, JobsOK, Copies
  <2>3. Moved(e, Paths)
    BY <1>0, <2>1, <2>2, JobStep
  <2>4. QED
    BY <2>1, <2>3 DEF Moved
<1>4. CASE \/ \E q \in Paths : DeleteLocal(d, q) \/ FetchOne(d, q)
           \/ \E choice \in UserChoices : Resolve(d, choice)
  <2>1. disk'[d][p] = disk[d][p]
    BY <1>0, <1>1, <1>4, DiskWhere
  <2>2. UNCHANGED serverVars
    BY <1>0, <1>4, DiskStep
  <2>3. QED
    BY <2>1, <2>2 DEF serverVars, gateVars
<1>5. CASE ServerApplies(d)
  <2>1. /\ Written(d, NextOp(d).path) \/ UNCHANGED serverVars
        /\ NextOp(d).path \in Visible(d) /\ disk' = disk
    BY <1>0, <1>1, <1>5, ServerStep
  <2>2. QED
    BY <1>0, <2>1 DEF Written, serverVars, gateVars, BaseOK, GateTypeOK, Manifests
<1>6. CASE Inner(d)
  BY <1>0, <1>6, InnerStep DEF serverVars, gateVars
<1>7. CASE FetchAndPlan(d) \/ CheckpointFetch(d) \/ BatchAnswered(d) \/ CheckpointSave(d)
  BY <1>7 DEF FetchAndPlan, CheckpointFetch, BatchAnswered, CheckpointSave, serverVars, gateVars
<1>8. QED
  BY <1>3, <1>4, <1>5, <1>6, <1>7 DEF Engine, Inner

\* "Ignored" means untouched: the cycle of a device changes neither the file
\* nor the row of a path its config ignores, however cycles, edits, failures
\* and other devices interleave.  A plan that outlives a change of the patterns
\* is the one exception, so the theorem leaves out having both.
THEOREM IgnoredKept ==
    ASSUME ~ResumePlans \/ MaxIgnoreEdits = 0
    PROVE  Spec => IgnoredUntouched
<1>1. Init => VisibleInv
  <2> SUFFICES ASSUME Init PROVE VisibleInv
    OBVIOUS
  <2>1. job = [d \in Devices |-> IdleJob] /\ pending = [d \in Devices |-> <<>>]
    BY DEF Init
  <2>2. QED
    BY <2>1, IdleJobType DEF VisibleInv
<1>2. TypesInv /\ VisibleInv /\ [Next]_vars => VisibleInv'
  BY VisibleStep
<1>3. TypesInv /\ VisibleInv /\ [Next]_vars =>
         [\A d \in Devices : job'[d] # job[d] =>
            \A p \in ignored[d] \ {CopyOf[q] : q \in DOMAIN CopyOf} :
               disk'[d][p] = disk[d][p] /\ rows'[p] = rows[p]]_vars
  BY IgnoredStep DEF Copies
<1>4. QED
  BY <1>1, <1>2, <1>3, TypesAlways, PTL DEF Spec, IgnoredUntouched

-----------------------------------------------------------------------------
(* Local files                                                             *)

\* A job knows the files it is about to replace: the walk recorded them, what it
\* will delete or download over is what the checkpoint holds, and each conflict
\* left has the file as its local side.  The paths of a plan are all different.
Faithful(j, files, checkpoint, patterns) ==
    /\ j.stage = "walked" => \A p \in Paths \ patterns :
          files[p] # None => j.working[p] = Live(HashOf[files[p]])
    /\ \A p \in j.deletes \cup j.fetches :
          files[p] # None => HashOf[files[p]] = version(checkpoint[p])
    /\ \A i \in DOMAIN j.conflicts :
          /\ files[j.conflicts[i].path] # None =>
                j.conflicts[i].local = Live(HashOf[files[j.conflicts[i].path]])
          /\ j.conflicts[i].path \notin j.deletes \cup j.fetches
          /\ \A k \in DOMAIN j.conflicts : k # i => j.conflicts[k].path # j.conflicts[i].path

FaithfulInv == \A d \in Devices : Faithful(job[d], disk[d], base[d], ignored[d])

\* Outside of a cycle there is nothing to know.
LEMMA IdleFaithful ==
    ASSUME NEW files, NEW checkpoint, NEW patterns
    PROVE  Faithful(IdleJob, files, checkpoint, patterns)
BY DEF Faithful, IdleJob

\* A job with the same plan or less of it, for the same files.
LEMMA SameFaithful ==
    ASSUME NEW j, NEW k, NEW files, NEW checkpoint, NEW patterns,
           Faithful(j, files, checkpoint, patterns), k.stage # "walked",
           k.deletes \subseteq j.deletes, k.fetches \subseteq j.fetches,
           k.conflicts = j.conflicts
    PROVE  Faithful(k, files, checkpoint, patterns)
BY DEF Faithful

\* A file of a plan's path is written, and the path leaves the plan.
LEMMA WriteFaithful ==
    ASSUME NEW j, NEW k, NEW files, NEW new, NEW checkpoint, NEW patterns, NEW p \in Paths,
           Faithful(j, files, checkpoint, patterns), k.stage # "walked",
           \A q \in Paths : q # p => new[q] = files[q],
           j.deletes \cup j.fetches \subseteq Paths,
           \A i \in DOMAIN j.conflicts : j.conflicts[i].path \in Paths,
           k.deletes \subseteq j.deletes, k.fetches \subseteq j.fetches,
           k.conflicts = j.conflicts,
           p \in j.deletes \cup j.fetches, p \notin k.deletes \cup k.fetches \/ new[p] = None
    PROVE  Faithful(k, new, checkpoint, patterns)
<1>1. \A q \in k.deletes \cup k.fetches : new[q] # None => HashOf[new[q]] = version(checkpoint[q])
  BY DEF Faithful
<1>2. \A i \in DOMAIN j.conflicts : j.conflicts[i].path # p /\ j.conflicts[i].path \in Paths
  BY DEF Faithful
<1>3. QED
  BY <1>1, <1>2 DEF Faithful

\* The first conflict is dealt with: only its own file may have changed.
LEMMA TailFaithful ==
    ASSUME NEW P \in SUBSET Paths, NEW j \in JobIn(P), NEW k, NEW files, NEW new, NEW checkpoint,
           NEW patterns, Faithful(j, files, checkpoint, patterns), k.stage # "walked",
           j.conflicts # <<>>, k.conflicts = Tail(j.conflicts),
           k.deletes = j.deletes, k.fetches = j.fetches,
           \A q \in Paths : q # Head(j.conflicts).path => new[q] = files[q]
    PROVE  Faithful(k, new, checkpoint, patterns)
<1>1. /\ j.conflicts \in Seq(ConflictIn(P)) /\ Len(j.conflicts) \in Nat /\ Len(j.conflicts) # 0
      /\ DOMAIN j.conflicts = 1..Len(j.conflicts) /\ Head(j.conflicts) = j.conflicts[1]
      /\ j.deletes \subseteq Paths /\ j.fetches \subseteq Paths
  BY HeadTailProperties, LenProperties, EmptySeq DEF JobIn
<1>2. /\ DOMAIN k.conflicts = 1..(Len(j.conflicts) - 1)
      /\ \A i \in 1..(Len(j.conflicts) - 1) : k.conflicts[i] = j.conflicts[i + 1]
  BY <1>1, HeadTailProperties, LenProperties
<1>3. \A i \in DOMAIN k.conflicts : i + 1 \in DOMAIN j.conflicts /\ i + 1 # 1
  BY <1>1, <1>2
<1>4. \A i \in DOMAIN j.conflicts : j.conflicts[i].path \in Paths
  <2>1. \A i \in DOMAIN j.conflicts : j.conflicts[i] \in ConflictIn(P)
    BY <1>1, ElementOfSeq
  <2>2. \A c \in ConflictIn(P) : c.path \in Paths
    BY DEF ConflictIn
  <2>3. QED
    BY <2>1, <2>2
<1>5. 1 \in DOMAIN j.conflicts
  BY <1>1
<1>6. ASSUME NEW i \in DOMAIN k.conflicts
      PROVE  /\ k.conflicts[i].path \in Paths /\ k.conflicts[i].path # Head(j.conflicts).path
             /\ k.conflicts[i].path \notin k.deletes \cup k.fetches
             /\ files[k.conflicts[i].path] # None =>
                   k.conflicts[i].local = Live(HashOf[files[k.conflicts[i].path]])
  <2>1. PICK n \in DOMAIN j.conflicts : n = i + 1 /\ n # 1 /\ k.conflicts[i] = j.conflicts[n]
    BY <1>2, <1>3
  <2>2. QED
    BY <1>1, <1>4, <1>5, <2>1 DEF Faithful
<1>7. ASSUME NEW i \in DOMAIN k.conflicts, NEW m \in DOMAIN k.conflicts, m # i
      PROVE  k.conflicts[m].path # k.conflicts[i].path
  <2>1. i + 1 # m + 1 /\ i + 1 \in DOMAIN j.conflicts /\ m + 1 \in DOMAIN j.conflicts
    BY <1>1, <1>2, <1>3, <1>7
  <2>2. QED
    BY <1>2, <2>1 DEF Faithful
<1>8. ASSUME NEW q \in k.deletes \cup k.fetches
      PROVE  new[q] # None => HashOf[new[q]] = version(checkpoint[q])
  <2>1. q # Head(j.conflicts).path /\ q \in Paths
    BY <1>1, <1>5 DEF Faithful
  <2>2. QED
    BY <2>1 DEF Faithful
<1>9. QED
  BY <1>6, <1>7, <1>8 DEF Faithful

\* A device's step leaves the other devices alone.
LEMMA OthersKept ==
    ASSUME BaseOK, JobsOK, NEW d \in Devices,
           \/ \E p \in Paths : Edit(d, p) \/ Restore(d, p) \/ EditIgnore(d, p)
           \/ Engine(d) \/ ResumePlan(d) \/ Failure(d) \/ Poll(d),
           NEW e \in Devices, e # d
    PROVE  /\ job'[e] = job[e] /\ disk'[e] = disk[e]
           /\ base'[e] = base[e] /\ ignored'[e] = ignored[e]
<1>0. /\ disk \in [Devices -> [Paths -> Contents \cup {None}]] /\ base \in [Devices -> Manifests]
      /\ ignored \in [Devices -> SUBSET Paths]
  BY DEF BaseOK
<1>1. job'[e] = job[e]
  <2>1. InJob(d, Paths) /\ pending[d] \in Seq(ConflictIn(Paths))
    BY EngineAssumption DEF InJob, JobsOK, Copies
  <2>2. UNCHANGED job \/ Moved(d, Paths)
    BY <2>1, JobStep DEF Edit, Restore, EditIgnore, Poll
  <2>3. QED
    BY <2>2 DEF Moved
<1>2. CASE \/ \E p \in Paths : \/ Edit(d, p) \/ Restore(d, p) \/ DeleteLocal(d, p) \/ FetchOne(d, p)
           \/ \E choice \in UserChoices : Resolve(d, choice)
  <2>1. UNCHANGED <<base, ignored>>
    BY <1>2, DiskStep
  <2>2. disk' = disk \/ \E p, c : disk' = [disk EXCEPT ![d][p] = c]
    <3>1. CASE \E p \in Paths : Edit(d, p) \/ Restore(d, p) \/ DeleteLocal(d, p) \/ FetchOne(d, p)
      BY <3>1 DEF Edit, Restore, write_restored, DeleteLocal, FetchOne, decrypt_and_write, write_atomic
    <3>2. CASE \E choice \in UserChoices : Resolve(d, choice)
      BY <3>2 DEF Resolve, KeepRemote, KeepBoth, decrypt_and_write, write_atomic
    <3>3. QED
      BY <1>2, <3>1, <3>2
  <2>3. disk'[e] = disk[e]
    BY <1>0, <2>2
  <2>4. QED
    BY <1>1, <2>1, <2>3
<1>3. CASE \E p \in Paths : EditIgnore(d, p)
  BY <1>0, <1>1, <1>3 DEF EditIgnore
<1>4. CASE ServerApplies(d) \/ BatchAnswered(d) \/ FetchAndPlan(d) \/ CheckpointFetch(d) \/ Poll(d)
  <2>1. UNCHANGED <<disk, base, ignored>>
    BY <1>4 DEF ServerApplies, BatchAnswered, FetchAndPlan, CheckpointFetch, Poll
  <2>2. QED
    BY <1>1, <2>1
<1>5. CASE CheckpointSave(d)
  BY <1>0, <1>1, <1>5 DEF CheckpointSave
<1>6. CASE Inner(d)
  BY <1>1, <1>6, InnerStep
<1>7. QED
  BY <1>2, <1>3, <1>4, <1>5, <1>6, StepKinds

\* The uploads and the fetch of the checkpoint leave the plan alone.
LEMMA UploadsKeepPlan ==
    ASSUME BaseOK, JobsOK, NEW d \in Devices,
           \/ PrepareBatch(d) \/ ServerApplies(d) \/ ServerFull(d) \/ BatchAnswered(d)
           \/ BatchResend(d) \/ BatchFails(d) \/ CheckpointFetch(d)
    PROVE  /\ job'[d].stage # "walked"
           /\ job'[d].deletes = job[d].deletes /\ job'[d].fetches = job[d].fetches
           /\ job'[d].conflicts = job[d].conflicts
           /\ UNCHANGED <<disk, base, ignored>>
<1>0. job \in [Devices -> JobIn(Paths)] /\ job[d] \in JobIn(Paths)
  BY DEF JobsOK
<1>1. UNCHANGED <<disk, base, ignored>>
  BY DEF PrepareBatch, ServerApplies, ServerFull, BatchAnswered, BatchResend, BatchFails, CheckpointFetch
<1>2. ASSUME NEW k, job' = [job EXCEPT ![d] = k], k.stage # "walked",
             k.deletes = job[d].deletes, k.fetches = job[d].fetches, k.conflicts = job[d].conflicts
      PROVE  /\ job'[d].stage # "walked"
             /\ job'[d].deletes = job[d].deletes /\ job'[d].fetches = job[d].fetches
             /\ job'[d].conflicts = job[d].conflicts
  BY <1>0, <1>2
<1>3. CASE PrepareBatch(d)
  <2>1. PICK n \in 1..BATCH_MAX_OPS :
           LET batch == SubSeq(job[d].uploads, 1, n)
               readable(act) == act.kind = "Upload" => disk[d][act.path] # None
               members == Ascending({i \in 1..n : readable(batch[i])})
           IN  job' = [job EXCEPT
                 ![d].stage = IF members = <<>> THEN "uploading" ELSE "sending",
                 ![d].uploads = SubSeq(@, n + 1, Len(@)),
                 ![d].ops = build_batch_form(d, batch, members),
                 ![d].results = <<>>, ![d].attempt = 0, ![d].landed = {},
                 ![d].hold_back = @ \cup
                     {batch[i].path : i \in {i \in DOMAIN batch : ~readable(batch[i])}}]
    BY <1>3 DEF PrepareBatch
  <2>2. PICK s, us, os, hb :
           /\ job' = [job EXCEPT ![d].stage = s, ![d].uploads = us, ![d].ops = os,
                 ![d].results = <<>>, ![d].attempt = 0, ![d].landed = {}, ![d].hold_back = hb]
           /\ s \in {"uploading", "sending"}
    BY <2>1, Zenon
  <2>3. QED
    BY <1>0, <1>1, <2>2 DEF JobIn
<1>4. CASE ServerApplies(d) \/ ServerFull(d)
  <2>1. job[d].stage = "sending" /\ \E status, current : Answer(d, status, current)
    BY <1>4 DEF ServerApplies, ServerFull, ServerPut, ServerDelete
  <2>2. QED
    BY <1>0, <1>1, <2>1 DEF Answer, JobIn
<1>5. CASE BatchAnswered(d)
  <2>1. PICK fatal, hb, l :
           job' = [job EXCEPT ![d].stage = "uploading", ![d].hold_back = @ \cup hb,
              ![d].fatal = @ \/ fatal, ![d].uploads = IF fatal THEN <<>> ELSE @,
              ![d].left = @ \o l,
              ![d].ops = <<>>, ![d].results = <<>>, ![d].attempt = 0, ![d].landed = {}]
    BY <1>5 DEF BatchAnswered
  <2>2. QED
    BY <1>0, <1>1, <2>1 DEF JobIn
<1>6. CASE BatchFails(d)
  <2>1. PICK held : held = {job[d].ops[i].path : i \in DOMAIN job[d].ops}
    OBVIOUS
  <2>2. PICK fatal \in BOOLEAN :
           job' = [job EXCEPT ![d].stage = "uploading", ![d].hold_back = @ \cup held,
              ![d].fatal = @ \/ fatal, ![d].uploads = IF fatal THEN <<>> ELSE @,
              ![d].ops = <<>>, ![d].results = <<>>, ![d].attempt = 0, ![d].landed = {}]
    BY <1>6, <2>1 DEF BatchFails
  <2>3. QED
    BY <1>0, <1>1, <2>2 DEF JobIn
<1>7. CASE BatchResend(d)
  BY <1>0, <1>1, <1>7 DEF BatchResend, JobIn
<1>8. CASE CheckpointFetch(d)
  BY <1>0, <1>1, <1>8 DEF CheckpointFetch, JobIn
<1>9. QED
  BY <1>3, <1>4, <1>5, <1>6, <1>7, <1>8

\* The plan that the diff makes knows the files it is about.
LEMMA PlanFaithful ==
    ASSUME BaseOK, JobsOK, NEW d \in Devices, FetchAndPlan(d),
           Faithful(job[d], disk[d], base[d], ignored[d])
    PROVE  Faithful(job'[d], disk[d], base[d], ignored[d])
<1>1. /\ job \in [Devices -> JobIn(Paths)] /\ job[d] \in JobIn(Paths) /\ job[d].stage = "walked"
      /\ job[d].working \in Manifests /\ FetchedManifest(d) \in Manifests
      /\ disk[d] \in [Paths -> Contents \cup {None}]
  BY FetchedType DEF JobsOK, JobIn, FetchAndPlan, BaseOK
<1>2. PICK remote \in Manifests : remote = FetchedManifest(d)
  BY <1>1
<1>3. PICK diff : diff = diff_local_and_remote(d, remote)
  OBVIOUS
<1>4. PICK cs : cs = ActionsOf(diff, {"Conflict"})
  OBVIOUS
<1>5. /\ job'[d].stage = "downloading" /\ job'[d].conflicts = cs
      /\ job'[d].deletes = {p \in Paths : diff[p].kind = "DeleteLocal"}
      /\ job'[d].fetches = {p \in Paths : diff[p].kind = "Download"}
  BY <1>1, <1>2, <1>3, <1>4 DEF FetchAndPlan, JobIn
<1>6. ASSUME NEW p \in Paths, diff[p].kind # "Nothing"
      PROVE  /\ PlannedAction(diff[p], p, base[d][p], job[d].working[p], remote[p])
             /\ disk[d][p] # None => job[d].working[p] = Live(HashOf[disk[d][p]])
  <2>1. p \notin ignored[d] /\ PlannedAction(diff[p], p, base[d][p], job[d].working[p], remote[p])
    BY <1>1, <1>3, <1>6, PlanPath
  <2>2. QED
    BY <1>1, <2>1 DEF Faithful
<1>7. ASSUME NEW p \in Paths, disk[d][p] # None
      PROVE  /\ version(Live(HashOf[disk[d][p]])) = HashOf[disk[d][p]]
             /\ Live(HashOf[disk[d][p]]) # None /\ Live(HashOf[disk[d][p]]) \in Entry
  <2>1. HashOf[disk[d][p]] \in Hashes
    BY <1>1, <1>7, EngineAssumption
  <2>2. QED
    BY <2>1, LiveEntry
<1>8. ASSUME NEW p \in job'[d].deletes \cup job'[d].fetches, disk[d][p] # None
      PROVE  HashOf[disk[d][p]] = version(base[d][p])
  <2>1. p \in Paths /\ diff[p].kind \in {"Download", "DeleteLocal"}
    BY <1>5
  <2>2. version(job[d].working[p]) = version(base[d][p])
    BY <1>6, <2>1 DEF PlannedAction
  <2>3. QED
    BY <1>6, <1>7, <1>8, <2>1, <2>2
<1>9. ASSUME NEW p \in Paths, diff[p].kind = "Conflict", disk[d][p] # None
      PROVE  diff[p].local = Live(HashOf[disk[d][p]])
  <2>1. diff[p].local = local_or_tombstone(job[d].working[p], base[d][p])
    BY <1>6, <1>9 DEF PlannedAction
  <2>2. job[d].working[p] = Live(HashOf[disk[d][p]]) /\ job[d].working[p] # None
    BY <1>6, <1>7, <1>9
  <2>3. QED
    BY <2>1, <2>2 DEF local_or_tombstone
<1>10. PICK where \in [DOMAIN cs -> Paths] :
          /\ \A i \in DOMAIN cs : cs[i] = diff[where[i]] /\ diff[where[i]].kind \in {"Conflict"}
          /\ \A i, j \in DOMAIN cs : i # j => where[i] # where[j]
  <2>1. \A p \in Paths : diff[p].kind \in {"Conflict"} => diff[p] \in Action
    BY <1>6 DEF PlannedAction
  <2>2. PICK kinds : kinds = {"Conflict"}
    OBVIOUS
  <2>3. \A p \in Paths : diff[p].kind \in kinds => diff[p] \in Action
    BY <2>1, <2>2
  <2>4. ActionsOf(diff, kinds) \in Seq(Action) /\ Listed(ActionsOf(diff, kinds), diff, kinds)
    BY <2>3, ActionsList
  <2>5. Listed(cs, diff, {"Conflict"})
    BY <1>4, <2>2, <2>4
  <2>6. QED
    BY <2>5 DEF Listed
<1>11. \A i \in DOMAIN cs : cs[i].path = where[i] /\ where[i] \in Paths
  <2>1. \A p \in Paths : diff[p].kind = "Conflict" => diff[p].path = p
    BY <1>6 DEF PlannedAction
  <2>2. QED
    BY <1>10, <2>1
<1>12. ASSUME NEW i \in DOMAIN cs
       PROVE  /\ disk[d][cs[i].path] # None => cs[i].local = Live(HashOf[disk[d][cs[i].path]])
              /\ cs[i].path \notin job'[d].deletes \cup job'[d].fetches
              /\ \A k \in DOMAIN cs : k # i => cs[k].path # cs[i].path
  BY <1>5, <1>9, <1>10, <1>11
<1>13. QED
  BY <1>5, <1>8, <1>12 DEF Faithful

\* A device's step keeps its own job true to its files, as long as the user
\* edits outside of cycles only and no plan is resumed.
LEMMA FaithfulOwn ==
    ASSUME ~EditMidCycle, ~ResumePlans, "KeepBoth" \notin UserChoices,
           BaseOK, JobsOK, NEW d \in Devices, Faithful(job[d], disk[d], base[d], ignored[d]),
           \/ \E p \in Paths : Edit(d, p) \/ Restore(d, p) \/ EditIgnore(d, p)
           \/ Engine(d) \/ ResumePlan(d) \/ Failure(d) \/ Poll(d)
    PROVE  Faithful(job'[d], disk'[d], base'[d], ignored'[d])
<1> DEFINE Goal == Faithful(job'[d], disk'[d], base'[d], ignored'[d])
<1>0. /\ job \in [Devices -> JobIn(Paths)] /\ job[d] \in JobIn(Paths) /\ JobSide(job[d])
      /\ disk \in [Devices -> [Paths -> Contents \cup {None}]]
      /\ job[d].deletes \cup job[d].fetches \subseteq Paths
  BY DEF JobsOK, BaseOK, JobIn
<1>1. CASE \E p \in Paths : Edit(d, p) \/ Restore(d, p) \/ EditIgnore(d, p)
  <2>1. job[d].stage = "idle" /\ job' = job
    BY <1>1 DEF Edit, Restore, EditIgnore
  <2>2. job'[d] = IdleJob
    BY <1>0, <2>1 DEF JobSide
  <2>3. QED
    BY <2>2, IdleFaithful
<1>2. CASE CheckpointSave(d) \/ SkipCheckpoint(d) \/ Abort(d)
  <2>1. job'[d] = IdleJob
    BY <1>0, <1>2 DEF CheckpointSave, SkipCheckpoint, Abort, EndCycle
  <2>2. QED
    BY <2>1, IdleFaithful
<1>3. CASE Poll(d)
  BY <1>3 DEF Poll
<1>4. CASE \/ PrepareBatch(d) \/ ServerApplies(d) \/ ServerFull(d) \/ BatchAnswered(d)
           \/ BatchResend(d) \/ BatchFails(d) \/ CheckpointFetch(d)
  <2>1. /\ job'[d].stage # "walked"
        /\ job'[d].deletes = job[d].deletes /\ job'[d].fetches = job[d].fetches
        /\ job'[d].conflicts = job[d].conflicts
        /\ disk' = disk /\ base' = base /\ ignored' = ignored
    BY <1>4, UploadsKeepPlan
  <2>2. Faithful(job'[d], disk[d], base[d], ignored[d])
    BY <2>1, SameFaithful
  <2>3. QED
    BY <2>1, <2>2
<1>5. CASE \/ DownloadsDone(d)
           \/ \E p \in Paths : \/ DeleteLocalFails(d, p) \/ FetchOneFails(d, p)
                               \/ FetchOne(d, p) /\ get_file(p) = None
  <2>1. disk' = disk /\ base' = base /\ ignored' = ignored
    BY <1>5 DEF DownloadsDone, DeleteLocalFails, FetchOneFails, FetchOne
  <2>2. /\ job'[d].stage # "walked"
        /\ job'[d].deletes \subseteq job[d].deletes /\ job'[d].fetches \subseteq job[d].fetches
        /\ job'[d].conflicts = job[d].conflicts
    <3>1. CASE DownloadsDone(d)
      BY <1>0, <3>1 DEF DownloadsDone, AfterDownloads, JobIn
    <3>2. ASSUME NEW p \in Paths, DeleteLocalFails(d, p)
          PROVE  /\ job'[d].stage # "walked"
                 /\ job'[d].deletes \subseteq job[d].deletes /\ job'[d].fetches \subseteq job[d].fetches
                 /\ job'[d].conflicts = job[d].conflicts
      BY <1>0, <3>2 DEF DeleteLocalFails, JobIn
    <3>3. ASSUME NEW p \in Paths, FetchOneFails(d, p)
          PROVE  /\ job'[d].stage # "walked"
                 /\ job'[d].deletes \subseteq job[d].deletes /\ job'[d].fetches \subseteq job[d].fetches
                 /\ job'[d].conflicts = job[d].conflicts
      BY <1>0, <3>3 DEF FetchOneFails, JobIn
    <3>4. ASSUME NEW p \in Paths, FetchOne(d, p), get_file(p) = None
          PROVE  /\ job'[d].stage # "walked"
                 /\ job'[d].deletes \subseteq job[d].deletes /\ job'[d].fetches \subseteq job[d].fetches
                 /\ job'[d].conflicts = job[d].conflicts
      <4>1. /\ job[d].stage = "downloading"
            /\ job' = [job EXCEPT ![d].fetches = @ \ {p}, ![d].hold_back = @ \cup {p}]
        BY <3>4 DEF FetchOne
      <4>2. QED
        BY <1>0, <4>1 DEF JobIn
    <3>5. QED
      BY <1>5, <3>1, <3>2, <3>3, <3>4
  <2>3. Faithful(job'[d], disk[d], base[d], ignored[d])
    BY <2>2, SameFaithful
  <2>4. QED
    BY <2>1, <2>3
<1>6. CASE Walk(d)
  <2>1. PICK m : m = build_working_manifest(walked(d), base[d])
    OBVIOUS
  <2>2. /\ disk' = disk /\ base' = base /\ ignored' = ignored
        /\ job' = [job EXCEPT ![d].stage = "walked", ![d].working = m]
        /\ job[d] = IdleJob
    BY <1>0, <1>6, <2>1 DEF Walk, MayStart, JobSide
  <2>3. /\ job'[d].working = m /\ job'[d].deletes = {} /\ job'[d].fetches = {}
        /\ job'[d].conflicts = <<>>
    BY <1>0, <2>2 DEF JobIn, IdleJob
  <2>4. ASSUME NEW p \in Paths \ ignored[d], disk[d][p] # None
        PROVE  m[p] = Live(HashOf[disk[d][p]])
    <3>1. HashOf[disk[d][p]] \in Hashes /\ walked(d)[p] = HashOf[disk[d][p]]
      BY <1>0, <2>4, EngineAssumption DEF walked, HashIn
    <3>2. QED
      BY <2>1, <3>1, WorkingFacts, SentinelAssumption
  <2>5. disk'[d] = disk[d] /\ base'[d] = base[d] /\ ignored'[d] = ignored[d] /\ DOMAIN <<>> = {}
    BY <2>2
  <2>6. PICK k, files : k = job'[d] /\ files = disk[d]
    OBVIOUS
  <2>7. \A p \in Paths \ ignored[d] : files[p] # None => k.working[p] = Live(HashOf[files[p]])
    BY <2>3, <2>4, <2>6
  <2>8. k.deletes \cup k.fetches = {} /\ DOMAIN k.conflicts = {}
    BY <2>3, <2>5, <2>6
  <2>9. Faithful(k, files, base[d], ignored[d])
    BY <2>7, <2>8 DEF Faithful
  <2>10. QED
    BY <2>5, <2>6, <2>9
<1>7. CASE FetchAndPlan(d)
  <2>1. disk' = disk /\ base' = base /\ ignored' = ignored
    BY <1>7 DEF FetchAndPlan
  <2>2. QED
    BY <1>7, <2>1, PlanFaithful
<1>8. \A i \in DOMAIN job[d].conflicts : job[d].conflicts[i].path \in Paths
  <2>1. \A i \in DOMAIN job[d].conflicts : job[d].conflicts[i] \in ConflictIn(Paths)
    BY <1>0, ElementOfSeq, LenProperties DEF JobIn
  <2>2. \A c \in ConflictIn(Paths) : c.path \in Paths
    BY DEF ConflictIn
  <2>3. QED
    BY <2>1, <2>2
<1>9. ASSUME NEW p \in Paths, DeleteLocal(d, p) PROVE Goal
  <2>1. /\ p \in job[d].deletes /\ disk' = [disk EXCEPT ![d][p] = None]
        /\ base' = base /\ ignored' = ignored
    BY <1>9 DEF DeleteLocal
  <2>2. /\ job'[d].stage # "walked" /\ job'[d].deletes \subseteq job[d].deletes
        /\ job'[d].fetches \subseteq job[d].fetches /\ job'[d].conflicts = job[d].conflicts
    BY <1>0, <1>9 DEF DeleteLocal, JobIn
  <2>3. disk'[d][p] = None /\ \A q \in Paths : q # p => disk'[d][q] = disk[d][q]
    BY <1>0, <2>1
  <2>a. p \in job[d].deletes \cup job[d].fetches /\ job[d].deletes \cup job[d].fetches \subseteq Paths
    BY <1>0, <2>1
  <2>b. PICK j, k, files, new : j = job[d] /\ k = job'[d] /\ files = disk[d] /\ new = disk'[d]
    OBVIOUS
  <2>c. PICK checkpoint, patterns : checkpoint = base[d] /\ patterns = ignored[d]
    OBVIOUS
  <2>d. /\ Faithful(j, files, checkpoint, patterns) /\ k.stage # "walked"
        /\ \A q \in Paths : q # p => new[q] = files[q]
        /\ j.deletes \cup j.fetches \subseteq Paths
        /\ \A i \in DOMAIN j.conflicts : j.conflicts[i].path \in Paths
        /\ k.deletes \subseteq j.deletes /\ k.fetches \subseteq j.fetches
        /\ k.conflicts = j.conflicts /\ p \in j.deletes \cup j.fetches
        /\ new[p] = None
    BY <1>8, <2>2, <2>3, <2>a, <2>b, <2>c
  <2>e. Faithful(k, new, checkpoint, patterns)
    BY <2>d, WriteFaithful
  <2>4. Faithful(job'[d], disk'[d], base[d], ignored[d])
    BY <2>b, <2>c, <2>e
  <2>5. QED
    BY <2>1, <2>4
<1>10. ASSUME NEW p \in Paths, FetchOne(d, p), get_file(p) # None PROVE Goal
  <2>1. /\ p \in job[d].fetches /\ disk' = [disk EXCEPT ![d][p] = get_file(p)]
        /\ base' = base /\ ignored' = ignored
    BY <1>10 DEF FetchOne, decrypt_and_write, write_atomic
  <2>2. /\ job'[d].stage # "walked" /\ job'[d].deletes \subseteq job[d].deletes
        /\ job'[d].fetches \subseteq job[d].fetches /\ job'[d].conflicts = job[d].conflicts
        /\ p \notin job'[d].deletes \cup job'[d].fetches
    <3>1. /\ job[d].stage = "downloading" /\ job[d].deletes = {}
          /\ job' = [job EXCEPT ![d].fetches = @ \ {p}]
      BY <1>10 DEF FetchOne
    <3>2. QED
      BY <1>0, <3>1 DEF JobIn
  <2>3. \A q \in Paths : q # p => disk'[d][q] = disk[d][q]
    BY <1>0, <2>1
  <2>a. p \in job[d].deletes \cup job[d].fetches /\ job[d].deletes \cup job[d].fetches \subseteq Paths
    BY <1>0, <2>1
  <2>b. PICK j, k, files, new : j = job[d] /\ k = job'[d] /\ files = disk[d] /\ new = disk'[d]
    OBVIOUS
  <2>c. PICK checkpoint, patterns : checkpoint = base[d] /\ patterns = ignored[d]
    OBVIOUS
  <2>d. /\ Faithful(j, files, checkpoint, patterns) /\ k.stage # "walked"
        /\ \A q \in Paths : q # p => new[q] = files[q]
        /\ j.deletes \cup j.fetches \subseteq Paths
        /\ \A i \in DOMAIN j.conflicts : j.conflicts[i].path \in Paths
        /\ k.deletes \subseteq j.deletes /\ k.fetches \subseteq j.fetches
        /\ k.conflicts = j.conflicts /\ p \in j.deletes \cup j.fetches
        /\ p \notin k.deletes \cup k.fetches
    BY <1>8, <2>2, <2>3, <2>a, <2>b, <2>c
  <2>e. Faithful(k, new, checkpoint, patterns)
    BY <2>d, WriteFaithful
  <2>4. Faithful(job'[d], disk'[d], base[d], ignored[d])
    BY <2>b, <2>c, <2>e
  <2>5. QED
    BY <2>1, <2>4
<1>11. ASSUME NEW choice \in UserChoices, Resolve(d, choice) PROVE Goal
  <2>1. job[d].stage = "resolving" /\ job[d].conflicts # <<>>
    BY <1>0, <1>11 DEF Resolve, JobSide
  <2>2. PICK c \in ConflictIn(Paths) : c = Head(job[d].conflicts)
    BY <1>0, <2>1, HeadTailProperties DEF JobIn
  <2>3. /\ base' = base /\ ignored' = ignored
    BY <1>11 DEF Resolve
  <2>4. \/ job' = [job EXCEPT ![d] = IdleJob]
        \/ /\ \E us, de : job' = Resolved(d, us, de)
           /\ disk' = disk \/ \E new : disk' = [disk EXCEPT ![d][c.path] = new]
    <3>1. effective_choice(choice, c) # "KeepBoth"
      BY DEF effective_choice
    <3>2. QED
      BY <1>11, <2>2, <3>1 DEF Resolve, KeepRemote, decrypt_and_write, write_atomic
  <2>5. CASE job' = [job EXCEPT ![d] = IdleJob]
    <3>1. job'[d] = IdleJob
      BY <1>0, <2>5
    <3>2. QED
      BY <3>1, IdleFaithful
  <2>6. ASSUME NEW us, NEW de, job' = Resolved(d, us, de),
               disk' = disk \/ \E new : disk' = [disk EXCEPT ![d][c.path] = new]
        PROVE  Goal
    <3>1. /\ job'[d].stage # "walked" /\ job'[d].conflicts = Tail(job[d].conflicts)
          /\ job'[d].deletes = job[d].deletes /\ job'[d].fetches = job[d].fetches
      BY <1>0, <2>6 DEF Resolved, AfterDownloads, JobIn
    <3>2. \A q \in Paths : q # Head(job[d].conflicts).path => disk'[d][q] = disk[d][q]
      BY <1>0, <2>2, <2>6
    <3>3. Faithful(job'[d], disk'[d], base[d], ignored[d])
      BY <1>0, <2>1, <3>1, <3>2, TailFaithful
    <3>4. QED
      BY <2>3, <3>3
  <2>7. QED
    BY <2>4, <2>5, <2>6
<1>12. ~ResumePlan(d)
  BY DEF ResumePlan
<1> HIDE DEF Goal
<1>13. Goal
  <2> USE DEF Goal
  <2>1. QED
    BY <1>1, <1>2, <1>3, <1>4, <1>5, <1>6, <1>7, <1>9, <1>10, <1>11, <1>12 DEF Engine, Failure
<1>14. QED
  BY <1>13 DEF Goal

\* The jobs stay true to the files.
LEMMA FaithfulAlways ==
    ASSUME ~EditMidCycle, ~ResumePlans, "KeepBoth" \notin UserChoices
    PROVE  Spec => []FaithfulInv
<1>1. Init => FaithfulInv
  <2> SUFFICES ASSUME Init PROVE FaithfulInv
    OBVIOUS
  <2>1. job = [d \in Devices |-> IdleJob]
    BY DEF Init
  <2>2. QED
    BY <2>1, IdleFaithful DEF FaithfulInv
<1>2. TypesInv /\ FaithfulInv /\ [Next]_vars => FaithfulInv'
  <2> SUFFICES ASSUME TypesInv, FaithfulInv, [Next]_vars PROVE FaithfulInv'
    OBVIOUS
  <2>1. CASE UNCHANGED vars
    BY <2>1 DEF vars, local, FaithfulInv
  <2>2. CASE Next
    <3>1. PICK d \in Devices :
             \/ \E p \in Paths : Edit(d, p) \/ Restore(d, p) \/ EditIgnore(d, p)
             \/ Engine(d) \/ ResumePlan(d) \/ Failure(d) \/ Poll(d)
      BY <2>2 DEF Next
    <3>2. BaseOK /\ JobsOK
      BY DEF TypesInv
    <3>3. Faithful(job'[d], disk'[d], base'[d], ignored'[d])
      BY <3>1, <3>2, FaithfulOwn DEF FaithfulInv
    <3>4. ASSUME NEW e \in Devices, e # d
          PROVE  Faithful(job'[e], disk'[e], base'[e], ignored'[e])
      <4>1. /\ job'[e] = job[e] /\ disk'[e] = disk[e]
            /\ base'[e] = base[e] /\ ignored'[e] = ignored[e]
        BY <3>1, <3>2, <3>4, OthersKept
      <4>2. QED
        BY <4>1 DEF FaithfulInv
    <3>5. QED
      BY <3>3, <3>4 DEF FaithfulInv
  <2>3. QED
    BY <2>1, <2>2
<1>3. QED
  BY <1>1, <1>2, TypesAlways, PTL DEF Spec

\* A local file changes only where the user has the bytes elsewhere or chose.
LEMMA LocalStep ==
    ASSUME "KeepBoth" \notin UserChoices, TypesInv, FaithfulInv, [Next]_vars, edits' = edits,
           NEW d \in Devices, NEW p \in Paths, disk[d][p] # None, disk'[d][p] # disk[d][p]
    PROVE  \/ disk[d][p] = body[p]
           \/ HashOf[disk[d][p]] = version(base[d][p])
           \/ /\ job[d].stage = "resolving"
              /\ Head(job[d].conflicts).path = p
              /\ Head(job[d].conflicts).local = Live(HashOf[disk[d][p]])
<1>0. /\ BaseOK /\ JobsOK /\ edits \in Nat
      /\ disk \in [Devices -> [Paths -> Contents \cup {None}]]
      /\ job \in [Devices -> JobIn(Paths)] /\ job[d] \in JobIn(Paths) /\ JobSide(job[d])
      /\ Faithful(job[d], disk[d], base[d], ignored[d])
  BY DEF TypesInv, BaseOK, JobsOK, FaithfulInv
<1>1. PICK e \in Devices :
         \/ \E q \in Paths : Edit(e, q) \/ Restore(e, q) \/ EditIgnore(e, q)
         \/ Engine(e) \/ ResumePlan(e) \/ Failure(e) \/ Poll(e)
  BY DEF Next, vars, local
<1>2. e = d
  BY <1>0, <1>1, OthersKept
<1>3. ~\E q \in Paths : Edit(d, q) \/ Restore(d, q)
  <2>1. edits + 1 # edits
    BY <1>0
  <2>2. QED
    BY <2>1 DEF Edit, Restore
<1>4. \/ \E q \in Paths : DeleteLocal(d, q) \/ FetchOne(d, q)
      \/ \E choice \in UserChoices : Resolve(d, choice)
  <2>1. ~(Inner(d) \/ ServerApplies(d) \/ FetchAndPlan(d) \/ CheckpointFetch(d) \/ Poll(d))
    <3>1. UNCHANGED disk => FALSE
      OBVIOUS
    <3>2. Inner(d) => UNCHANGED disk
      BY <1>0, InnerStep
    <3>3. QED
      BY <3>1, <3>2 DEF ServerApplies, FetchAndPlan, CheckpointFetch, Poll
  <2>2. ~(BatchAnswered(d) \/ CheckpointSave(d) \/ \E q \in Paths : EditIgnore(d, q))
    BY DEF BatchAnswered, CheckpointSave, EditIgnore
  <2>3. QED
    BY <1>1, <1>2, <1>3, <2>1, <2>2, StepKinds
<1>5. ASSUME NEW q \in Paths, DeleteLocal(d, q) \/ FetchOne(d, q)
      PROVE  HashOf[disk[d][p]] = version(base[d][p])
  <2>1. q \in job[d].deletes \cup job[d].fetches
    BY <1>5 DEF DeleteLocal, FetchOne
  <2>2. disk' = disk \/ \E new : disk' = [disk EXCEPT ![d][q] = new]
    BY <1>5 DEF DeleteLocal, FetchOne, decrypt_and_write, write_atomic
  <2>3. q = p
    BY <1>0, <2>2
  <2>4. QED
    BY <1>0, <2>1, <2>3 DEF Faithful
<1>6. ASSUME NEW choice \in UserChoices, Resolve(d, choice)
      PROVE  /\ job[d].stage = "resolving"
             /\ Head(job[d].conflicts).path = p
             /\ Head(job[d].conflicts).local = Live(HashOf[disk[d][p]])
  <2>1. job[d].stage = "resolving" /\ job[d].conflicts # <<>> /\ job[d].conflicts \in Seq(ConflictIn(Paths))
    BY <1>0, <1>6 DEF Resolve, JobSide, JobIn
  <2>2. 1 \in DOMAIN job[d].conflicts /\ Head(job[d].conflicts) = job[d].conflicts[1]
    BY <2>1, LenProperties, EmptySeq
  <2>3. PICK c \in ConflictIn(Paths) : c = Head(job[d].conflicts)
    BY <2>1, HeadTailProperties
  <2>4. effective_choice(choice, c) # "KeepBoth"
    BY DEF effective_choice
  <2>5. disk' = disk \/ \E new : disk' = [disk EXCEPT ![d][c.path] = new]
    BY <1>6, <2>3, <2>4 DEF Resolve, KeepRemote, decrypt_and_write, write_atomic
  <2>6. c.path = p
    BY <1>0, <2>5 DEF ConflictIn
  <2>7. QED
    BY <1>0, <2>1, <2>2, <2>3, <2>6 DEF Faithful
<1>7. QED
  BY <1>4, <1>5, <1>6

\* No silent loss of local files: whatever the other devices, the failures and
\* the overlapping cycles do, the engine replaces or removes a file only if it
\* holds what the checkpoint holds, or if it is the local side of the conflict
\* that the user has just decided.  The user edits between cycles, answers
\* conflicts in the cycle that found them, and asks for no conflict copy (which
\* is written over whatever has its name).
THEOREM LocalKept ==
    ASSUME ~EditMidCycle, ~ResumePlans, "KeepBoth" \notin UserChoices
    PROVE  Spec => NoLocalLoss
<1>1. TypesInv /\ FaithfulInv /\ [Next]_vars =>
        [edits' = edits => \A d \in Devices, p \in Paths :
          disk[d][p] # None /\ disk'[d][p] # disk[d][p] =>
              \/ disk[d][p] = body[p]
              \/ HashOf[disk[d][p]] = version(base[d][p])
              \/ /\ job[d].stage = "resolving"
                 /\ Head(job[d].conflicts).path = p
                 /\ Head(job[d].conflicts).local = Live(HashOf[disk[d][p]])]_vars
  BY LocalStep
<1>2. Spec => []FaithfulInv
  BY FaithfulAlways
<1>3. QED
  BY <1>1, <1>2, TypesAlways, PTL DEF Spec, NoLocalLoss

-----------------------------------------------------------------------------
(* Late conflicts                                                          *)

\* Each element of a list has a path of its own.
Distinct(s) == \A i, k \in DOMAIN s : i # k => s[i].path # s[k].path

\* Two lists have no path in common.
Apart(s, t) == \A i \in DOMAIN s, k \in DOMAIN t : s[i].path # t[k].path

\* What device d is about to write to p, in a table `tab` whose rows were
\* written by `wr`: a row that d itself wrote last has the parent hash, and a
\* row to delete is there.
Aimed(d, tab, wr, p, parent, delete) ==
    /\ wr[p] = d /\ tab[p] # None => tab[p].hash = parent
    /\ delete => tab[p] # None

\* What it is sending: the row may also be the one this very operation wrote.
Sent(d, tab, wr, op) ==
    /\ wr[op.path] = d /\ tab[op.path] # None =>
          \/ tab[op.path].hash = op.parent
          \/ op.kind = "Upload" /\ tab[op.path] = Live(op.hash)
    /\ op.kind = "DeleteRemote" => tab[op.path] # None

\* The writes that would keep the local sides of the conflicts, and the
\* uploads, are aimed at what they will meet.
AimedConflicts(d, tab, wr, cs) ==
    \A i \in DOMAIN cs : Aimed(d, tab, wr, cs[i].path, cs[i].remote.hash, cs[i].local.deleted)

AimedUploads(d, tab, wr, us) ==
    \A i \in DOMAIN us :
        Aimed(d, tab, wr, us[i].path, parent_hash(us[i]), us[i].kind = "DeleteRemote")

SentOps(d, tab, wr, ops) == \A i \in DOMAIN ops : Sent(d, tab, wr, ops[i])

\* A cycle has one plan for a path.
OnePlan(j) ==
    /\ Distinct(j.conflicts) /\ Distinct(j.uploads) /\ Distinct(j.ops)
    /\ Apart(j.conflicts, j.uploads) /\ Apart(j.conflicts, j.ops) /\ Apart(j.uploads, j.ops)
    /\ j.stage = "walked" => j.ops = <<>>

AimedJob(d, j, tab, wr) ==
    /\ OnePlan(j)
    /\ AimedConflicts(d, tab, wr, j.conflicts)
    /\ AimedUploads(d, tab, wr, j.uploads)
    /\ SentOps(d, tab, wr, j.ops)

AimedInv == \A d \in Devices : AimedJob(d, job[d], rows, writer)

\* The lists of a job hold conflicts, writes and operations on paths.
LEMMA JobLists ==
    ASSUME NEW j \in JobIn(Paths)
    PROVE  /\ j.conflicts \in Seq(ConflictIn(Paths)) /\ j.uploads \in Seq(WriteIn(Paths))
           /\ j.ops \in Seq(OpIn(Paths))
           /\ \A i \in DOMAIN j.conflicts : j.conflicts[i] \in ConflictIn(Paths) /\ j.conflicts[i].path \in Paths
           /\ \A i \in DOMAIN j.uploads : j.uploads[i] \in WriteIn(Paths) /\ j.uploads[i].path \in Paths
           /\ \A i \in DOMAIN j.ops : j.ops[i] \in OpIn(Paths) /\ j.ops[i].path \in Paths
<1>1. /\ j.conflicts \in Seq(ConflictIn(Paths)) /\ j.uploads \in Seq(WriteIn(Paths))
      /\ j.ops \in Seq(OpIn(Paths))
  BY DEF JobIn
<1>2. /\ \A i \in DOMAIN j.conflicts : j.conflicts[i] \in ConflictIn(Paths)
      /\ \A i \in DOMAIN j.uploads : j.uploads[i] \in WriteIn(Paths)
      /\ \A i \in DOMAIN j.ops : j.ops[i] \in OpIn(Paths)
  BY <1>1, ElementOfSeq, LenProperties
<1>3. /\ \A c \in ConflictIn(Paths) : c.path \in Paths
      /\ \A w \in WriteIn(Paths) : w.path \in Paths
      /\ \A o \in OpIn(Paths) : o.path \in Paths
  BY DEF ConflictIn, WriteIn, OpIn
<1>4. QED
  BY <1>1, <1>2, <1>3

\* A job with the same lists, or with some of them empty.
LEMMA AimedLess ==
    ASSUME NEW d, NEW j, NEW k, NEW tab, NEW wr, AimedJob(d, j, tab, wr),
           k.conflicts \in {j.conflicts, <<>>}, k.uploads \in {j.uploads, <<>>},
           k.ops \in {j.ops, <<>>}, k.stage = "walked" => k.ops = <<>>
    PROVE  AimedJob(d, k, tab, wr)
<1>1. DOMAIN <<>> = {}
  OBVIOUS
<1>2. PICK empty : empty = <<>>
  OBVIOUS
<1>3. DOMAIN empty = {}
  BY <1>1, <1>2
<1>4. OnePlan(k)
  BY <1>2, <1>3 DEF AimedJob, OnePlan, Distinct, Apart
<1>5. /\ AimedConflicts(d, tab, wr, k.conflicts) /\ AimedUploads(d, tab, wr, k.uploads)
      /\ SentOps(d, tab, wr, k.ops)
  BY <1>2, <1>3 DEF AimedJob, AimedConflicts, AimedUploads, SentOps
<1>6. QED
  BY <1>4, <1>5 DEF AimedJob

\* An idle device plans nothing.
LEMMA AimedIdle ==
    ASSUME NEW d, NEW tab, NEW wr
    PROVE  AimedJob(d, IdleJob, tab, wr)
<1>1. IdleJob.conflicts = <<>> /\ IdleJob.uploads = <<>> /\ IdleJob.ops = <<>>
  BY DEF IdleJob
<1>2. DOMAIN <<>> = {}
  OBVIOUS
<1>3. QED
  BY <1>1, <1>2 DEF AimedJob, OnePlan, Distinct, Apart, AimedConflicts, AimedUploads, SentOps

\* Another device writes: the row is no longer d's, and it is there.
LEMMA AimedOther ==
    ASSUME NEW d, NEW e, e # d, NEW j \in JobIn(Paths), NEW tab \in Manifests,
           NEW wr \in [Paths -> Devices \cup {None}], NEW p \in Paths, NEW row \in Entry,
           AimedJob(d, j, tab, wr)
    PROVE  AimedJob(d, j, [tab EXCEPT ![p] = row], [wr EXCEPT ![p] = e])
<1> DEFINE new == [tab EXCEPT ![p] = row]
           now == [wr EXCEPT ![p] = e]
<1>1. \A q \in Paths : /\ new[q] = IF q = p THEN row ELSE tab[q]
                       /\ now[q] = IF q = p THEN e ELSE wr[q]
  BY DEF Manifests
<1>2. row # None
  BY SentinelAssumption
<1> HIDE DEF new, now
<1>3. AimedConflicts(d, new, now, j.conflicts)
  BY <1>1, <1>2, JobLists DEF AimedJob, AimedConflicts, Aimed
<1>4. AimedUploads(d, new, now, j.uploads)
  BY <1>1, <1>2, JobLists DEF AimedJob, AimedUploads, Aimed
<1>5. SentOps(d, new, now, j.ops)
  BY <1>1, <1>2, JobLists DEF AimedJob, SentOps, Sent
<1>6. AimedJob(d, j, new, now)
  BY <1>3, <1>4, <1>5 DEF AimedJob
<1>7. QED
  BY <1>6 DEF new, now

\* d's own operation is committed: no other part of its job is about the path.
LEMMA AimedSelf ==
    ASSUME NEW d, NEW j \in JobIn(Paths), NEW tab \in Manifests,
           NEW wr \in [Paths -> Devices \cup {None}], NEW n \in DOMAIN j.ops, NEW row \in Entry,
           AimedJob(d, j, tab, wr),
           \/ row.hash = j.ops[n].parent
           \/ j.ops[n].kind = "Upload" /\ row = Live(j.ops[n].hash)
    PROVE  AimedJob(d, j, [tab EXCEPT ![j.ops[n].path] = row], [wr EXCEPT ![j.ops[n].path] = d])
<1>0. PICK p \in Paths : p = j.ops[n].path
  BY JobLists
<1> DEFINE new == [tab EXCEPT ![p] = row]
           now == [wr EXCEPT ![p] = d]
<1>1. \A q \in Paths : /\ new[q] = IF q = p THEN row ELSE tab[q]
                       /\ now[q] = IF q = p THEN d ELSE wr[q]
  BY DEF Manifests
<1>2. row # None
  BY SentinelAssumption
<1> HIDE DEF new, now
<1>3. AimedConflicts(d, new, now, j.conflicts)
  <2>1. \A i \in DOMAIN j.conflicts : j.conflicts[i].path # p
    BY <1>0 DEF AimedJob, OnePlan, Apart
  <2>2. QED
    BY <1>1, <2>1, JobLists DEF AimedJob, AimedConflicts, Aimed
<1>4. AimedUploads(d, new, now, j.uploads)
  <2>1. \A i \in DOMAIN j.uploads : j.uploads[i].path # p
    BY <1>0 DEF AimedJob, OnePlan, Apart
  <2>2. QED
    BY <1>1, <2>1, JobLists DEF AimedJob, AimedUploads, Aimed
<1>5. SentOps(d, new, now, j.ops)
  <2>1. \A i \in DOMAIN j.ops : i # n => j.ops[i].path # p
    BY <1>0 DEF AimedJob, OnePlan, Distinct
  <2>2. ASSUME NEW i \in DOMAIN j.ops, i # n PROVE Sent(d, new, now, j.ops[i])
    BY <1>1, <2>1, <2>2, JobLists DEF AimedJob, SentOps, Sent
  <2>3. Sent(d, new, now, j.ops[n])
    BY <1>0, <1>1, <1>2 DEF Sent
  <2>4. QED
    BY <2>2, <2>3 DEF SentOps
<1>6. AimedJob(d, j, new, now)
  BY <1>3, <1>4, <1>5 DEF AimedJob
<1>7. QED
  BY <1>0, <1>6 DEF new, now

\* The first conflict is dealt with, and perhaps becomes the last upload.
LEMMA AimedTail ==
    ASSUME NEW d, NEW j \in JobIn(Paths), NEW k, NEW tab, NEW wr, AimedJob(d, j, tab, wr),
           j.conflicts # <<>>, k.conflicts = Tail(j.conflicts), k.ops = j.ops, k.stage # "walked",
           \/ k.uploads = j.uploads
           \/ k.uploads = Append(j.uploads, conflict_to_upload(Head(j.conflicts)))
    PROVE  AimedJob(d, k, tab, wr)
<1>1. /\ j.conflicts \in Seq(ConflictIn(Paths)) /\ Len(j.conflicts) \in Nat /\ Len(j.conflicts) # 0
      /\ DOMAIN j.conflicts = 1..Len(j.conflicts) /\ Head(j.conflicts) = j.conflicts[1]
      /\ DOMAIN k.conflicts = 1..(Len(j.conflicts) - 1)
      /\ \A i \in 1..(Len(j.conflicts) - 1) : k.conflicts[i] = j.conflicts[i + 1]
  BY JobLists, HeadTailProperties, LenProperties, EmptySeq
<1>2. \A i \in DOMAIN k.conflicts : i + 1 \in DOMAIN j.conflicts /\ i + 1 # 1 /\ i \in Nat
  BY <1>1
<1>3. 1 \in DOMAIN j.conflicts
  BY <1>1
<1>4. PICK c \in ConflictIn(Paths) : c = j.conflicts[1]
  BY <1>3, JobLists
<1>5. Distinct(k.conflicts) /\ Apart(k.conflicts, j.uploads) /\ Apart(k.conflicts, j.ops)
  <2>1. \A i, m \in DOMAIN k.conflicts : i # m => i + 1 # m + 1
    BY <1>2
  <2>2. QED
    BY <1>1, <1>2, <2>1 DEF AimedJob, OnePlan, Distinct, Apart
<1>6. AimedConflicts(d, tab, wr, k.conflicts)
  BY <1>1, <1>2 DEF AimedJob, AimedConflicts
<1>7. CASE k.uploads = j.uploads
  BY <1>5, <1>6, <1>7 DEF AimedJob, OnePlan
<1>8. CASE k.uploads = Append(j.uploads, conflict_to_upload(Head(j.conflicts)))
  <2>1. PICK u \in WriteIn(Paths) : u = conflict_to_upload(c)
    <3>1. conflict_to_upload(c) \in WriteIn(Paths)
      BY DEF conflict_to_upload, action, ConflictIn, WriteIn
    <3>2. QED
      BY <3>1
  <2>2. /\ u.path = c.path /\ parent_hash(u) = c.remote.hash
        /\ u.kind = "DeleteRemote" => c.local.deleted
    <3>1. c.remote # None
      BY SentinelAssumption DEF ConflictIn
    <3>2. QED
      BY <2>1, <3>1 DEF conflict_to_upload, action, parent_hash
  <2>3. Aimed(d, tab, wr, u.path, parent_hash(u), u.kind = "DeleteRemote")
    BY <1>3, <1>4, <2>2 DEF AimedJob, AimedConflicts, Aimed
  <2>4. /\ j.uploads \in Seq(WriteIn(Paths)) /\ Len(j.uploads) \in Nat
        /\ DOMAIN j.uploads = 1..Len(j.uploads)
    BY JobLists, LenProperties
  <2>5. k.uploads = Append(j.uploads, u)
    BY <1>1, <1>4, <1>8, <2>1
  <2>6. /\ DOMAIN k.uploads = 1..(Len(j.uploads) + 1)
        /\ \A i \in 1..Len(j.uploads) : k.uploads[i] = j.uploads[i]
        /\ k.uploads[Len(j.uploads) + 1] = u
    BY <2>4, <2>5, AppendProperties, LenProperties
  <2>7. \A i \in DOMAIN k.uploads : \/ i \in DOMAIN j.uploads /\ k.uploads[i] = j.uploads[i]
                                    \/ i = Len(j.uploads) + 1 /\ k.uploads[i] = u
    BY <2>4, <2>6
  <2>8. /\ \A i \in DOMAIN j.uploads : j.uploads[i].path # u.path
        /\ \A i \in DOMAIN j.ops : j.ops[i].path # u.path
    BY <1>3, <1>4, <2>2 DEF AimedJob, OnePlan, Apart
  <2>9. \A i \in DOMAIN k.conflicts : k.conflicts[i].path # u.path
    BY <1>1, <1>2, <1>3, <1>4, <2>2 DEF AimedJob, OnePlan, Distinct
  <2>10. Distinct(k.uploads)
    BY <2>7, <2>8 DEF AimedJob, OnePlan, Distinct
  <2>11. Apart(k.conflicts, k.uploads) /\ Apart(k.uploads, j.ops)
    BY <1>5, <2>7, <2>8, <2>9 DEF AimedJob, OnePlan, Apart
  <2>12. AimedUploads(d, tab, wr, k.uploads)
    BY <2>3, <2>7 DEF AimedJob, AimedUploads
  <2>13. QED
    BY <1>5, <1>6, <2>10, <2>11, <2>12 DEF AimedJob, OnePlan
<1>9. QED
  BY <1>7, <1>8

\* A batch is cut from the uploads: the operations are those of different
\* uploads among the first n, and the others stay.
LEMMA AimedBatch ==
    ASSUME NEW d, NEW j \in JobIn(Paths), NEW k, NEW tab, NEW wr, AimedJob(d, j, tab, wr),
           k.conflicts = j.conflicts, k.stage # "walked", NEW n \in Nat, n <= Len(j.uploads),
           k.uploads = SubSeq(j.uploads, n + 1, Len(j.uploads)),
           NEW at \in [DOMAIN k.ops -> 1..n],
           \A l, m \in DOMAIN k.ops : l # m => at[l] # at[m],
           \A m \in DOMAIN k.ops : k.ops[m] = prepare_batch_op(d, j.uploads[at[m]])
    PROVE  AimedJob(d, k, tab, wr)
<1>1. /\ j.uploads \in Seq(WriteIn(Paths)) /\ Len(j.uploads) \in Nat
      /\ DOMAIN j.uploads = 1..Len(j.uploads)
  BY JobLists, LenProperties
<1>2. /\ DOMAIN k.uploads = 1..(Len(j.uploads) - n)
      /\ \A i \in 1..(Len(j.uploads) - n) : k.uploads[i] = j.uploads[n + i]
  <2>1. \A i \in n + 1 .. Len(j.uploads) : j.uploads[i] \in WriteIn(Paths)
    BY <1>1, ElementOfSeq
  <2>2. /\ k.uploads = [i \in 1..(Len(j.uploads) - n) |-> j.uploads[n + i]]
    BY <1>1
  <2>3. QED
    BY <1>1, <2>2
<1>3. \A i \in DOMAIN k.uploads : n + i \in DOMAIN j.uploads /\ n + i > n /\ i \in Nat
  BY <1>1, <1>2
<1>4. \A m \in DOMAIN k.ops : at[m] \in DOMAIN j.uploads /\ at[m] <= n /\ at[m] \in Nat
  BY <1>1
<1>5. \A m \in DOMAIN k.ops :
         /\ k.ops[m].path = j.uploads[at[m]].path /\ k.ops[m].kind = j.uploads[at[m]].kind
         /\ k.ops[m].parent = parent_hash(j.uploads[at[m]])
  <2>1. \A act : /\ prepare_batch_op(d, act).path = act.path
                 /\ prepare_batch_op(d, act).kind = act.kind
                 /\ prepare_batch_op(d, act).parent = parent_hash(act)
    BY DEF prepare_batch_op
  <2>2. QED
    BY <2>1
<1>6. \A i, m \in DOMAIN k.uploads : i # m => n + i # n + m
  BY <1>3
<1>7. \A i \in DOMAIN k.uploads, m \in DOMAIN k.ops : n + i # at[m]
  BY <1>3, <1>4
<1>8. OnePlan(k)
  <2>1. Distinct(k.uploads)
    BY <1>2, <1>3, <1>6 DEF AimedJob, OnePlan, Distinct
  <2>2. Distinct(k.ops)
    BY <1>4, <1>5 DEF AimedJob, OnePlan, Distinct
  <2>3. Apart(k.conflicts, k.uploads)
    BY <1>2, <1>3 DEF AimedJob, OnePlan, Apart
  <2>4. Apart(k.conflicts, k.ops)
    BY <1>4, <1>5 DEF AimedJob, OnePlan, Apart
  <2>5. Apart(k.uploads, k.ops)
    BY <1>2, <1>3, <1>4, <1>5, <1>7 DEF AimedJob, OnePlan, Apart, Distinct
  <2>6. QED
    BY <2>1, <2>2, <2>3, <2>4, <2>5 DEF AimedJob, OnePlan
<1>9. AimedUploads(d, tab, wr, k.uploads)
  BY <1>2, <1>3 DEF AimedJob, AimedUploads
<1>10. SentOps(d, tab, wr, k.ops)
  BY <1>4, <1>5 DEF AimedJob, AimedUploads, Aimed, SentOps, Sent
<1>11. QED
  BY <1>8, <1>9, <1>10 DEF AimedJob

\* The job k is j after a batch was cut: the operations are made from different
\* uploads among the first n, those `at` points to, which could be read; the
\* paths of those that could not are held back; the other uploads stay.
Cut(d, j, k, n, at) ==
    /\ n \in Nat /\ n <= Len(j.uploads)
    /\ k.stage \in {"uploading", "sending"}
    /\ k.conflicts = j.conflicts /\ k.fetches = j.fetches /\ k.left = j.left /\ k.fatal = j.fatal
    /\ k.results = <<>>
    /\ k.uploads = SubSeq(j.uploads, n + 1, Len(j.uploads))
    /\ at \in [DOMAIN k.ops -> 1..n]
    /\ \A l, m \in DOMAIN k.ops : l # m => at[l] # at[m]
    /\ \A m \in DOMAIN k.ops :
          /\ k.ops[m] = prepare_batch_op(d, j.uploads[at[m]])
          /\ j.uploads[at[m]].kind = "Upload" => disk[d][j.uploads[at[m]].path] # None
    /\ j.hold_back \subseteq k.hold_back
    /\ \A p \in k.hold_back \ j.hold_back : \E i \in 1..n :
          j.uploads[i].path = p /\ j.uploads[i].kind = "Upload" /\ disk[d][p] = None

\* PrepareBatch makes such a cut.
LEMMA PrepareCut ==
    ASSUME JobsOK, NEW d \in Devices, PrepareBatch(d)
    PROVE  \E n, at : Cut(d, job[d], job'[d], n, at)
<1> DEFINE readable(act) == act.kind = "Upload" => disk[d][act.path] # None
<1>1. /\ job \in [Devices -> JobIn(Paths)] /\ job[d] \in JobIn(Paths)
      /\ job[d].uploads \in Seq(WriteIn(Paths)) /\ Len(job[d].uploads) \in Nat
      /\ job[d].stage = "uploading"
  BY JobLists, LenProperties DEF JobsOK, PrepareBatch
<1>2. PICK n \in 1..BATCH_MAX_OPS :
         LET batch == SubSeq(job[d].uploads, 1, n)
             members == Ascending({i \in 1..n : readable(batch[i])})
         IN  /\ n <= Len(job[d].uploads)
             /\ job' = [job EXCEPT
                   ![d].stage = IF members = <<>> THEN "uploading" ELSE "sending",
                   ![d].uploads = SubSeq(@, n + 1, Len(@)),
                   ![d].ops = build_batch_form(d, batch, members),
                   ![d].results = <<>>, ![d].attempt = 0, ![d].landed = {},
                   ![d].hold_back = @ \cup
                       {batch[i].path : i \in {i \in DOMAIN batch : ~readable(batch[i])}}]
  BY DEF PrepareBatch
<1> DEFINE batch == SubSeq(job[d].uploads, 1, n)
           picked == {i \in 1..n : readable(batch[i])}
           members == Ascending(picked)
           unread == {batch[i].path : i \in {i \in DOMAIN batch : ~readable(batch[i])}}
<1>a. n <= Len(job[d].uploads)
  BY <1>2
<1>3. n \in Nat /\ 1 <= n /\ n <= Len(job[d].uploads)
  BY <1>a, EngineAssumption
<1>4. picked \in SUBSET (1..n) /\ \A i \in picked : readable(batch[i])
  OBVIOUS
<1>5. DOMAIN batch = 1..n /\ \A i \in 1..n : batch[i] = job[d].uploads[i]
  BY <1>1, <1>3
<1>6. PICK s :
         /\ job' = [job EXCEPT ![d].stage = s, ![d].uploads = SubSeq(@, n + 1, Len(@)),
                      ![d].ops = build_batch_form(d, batch, members),
                      ![d].results = <<>>, ![d].attempt = 0, ![d].landed = {},
                      ![d].hold_back = @ \cup unread]
         /\ s \in {"uploading", "sending"}
  BY <1>2, Zenon
<1>b. \A p \in unread : \E i \in 1..n : /\ job[d].uploads[i].path = p
                                        /\ job[d].uploads[i].kind = "Upload" /\ disk[d][p] = None
  BY <1>5
<1> HIDE DEF batch, picked, unread
<1>7. /\ members \in Seq(picked) /\ \A l, m \in DOMAIN members : l # m => members[l] # members[m]
  <2>1. IsFiniteSet(1..n)
    BY <1>3, FS_Interval
  <2>2. picked \in SUBSET Nat
    BY <1>3, <1>4
  <2>3. IsFiniteSet(picked)
    BY <1>4, <2>1, FS_Subset
  <2>4. QED
    BY <2>2, <2>3, AscendingList
<1> HIDE DEF members
<1>8. \A m \in DOMAIN members : members[m] \in picked /\ members[m] \in 1..n
  BY <1>4, <1>7, ElementOfSeq, LenProperties
<1>9. PICK os : os = build_batch_form(d, batch, members)
  OBVIOUS
<1>10. /\ job'[d].conflicts = job[d].conflicts /\ job'[d].stage = s
       /\ job'[d].fetches = job[d].fetches /\ job'[d].left = job[d].left
       /\ job'[d].fatal = job[d].fatal /\ job'[d].results = <<>>
       /\ job'[d].uploads = SubSeq(job[d].uploads, n + 1, Len(job[d].uploads))
       /\ job'[d].ops = os /\ job'[d].hold_back = job[d].hold_back \cup unread
  BY <1>1, <1>6, <1>9 DEF JobIn
<1>11. /\ DOMAIN os = DOMAIN members
       /\ \A m \in DOMAIN members : os[m] = prepare_batch_op(d, job[d].uploads[members[m]])
  BY <1>5, <1>8, <1>9 DEF build_batch_form
<1>12. PICK at : at = [m \in DOMAIN os |-> members[m]]
  OBVIOUS
<1>13. /\ at \in [DOMAIN os -> 1..n] /\ \A m \in DOMAIN os : at[m] = members[m]
  BY <1>8, <1>11, <1>12
<1>14. PICK j, k : j = job[d] /\ k = job'[d]
  OBVIOUS
<1>15. k.ops = os
  BY <1>10, <1>14
<1>16. /\ at \in [DOMAIN k.ops -> 1..n]
       /\ \A l, m \in DOMAIN k.ops : l # m => at[l] # at[m]
  BY <1>7, <1>11, <1>13, <1>15
<1>17. \A m \in DOMAIN k.ops : k.ops[m] = prepare_batch_op(d, j.uploads[at[m]])
  BY <1>11, <1>13, <1>14, <1>15
<1>18. \A m \in DOMAIN k.ops :
          j.uploads[at[m]].kind = "Upload" => disk[d][j.uploads[at[m]].path] # None
  BY <1>4, <1>5, <1>8, <1>11, <1>13, <1>14, <1>15
<1>19. /\ j.hold_back \subseteq k.hold_back
       /\ \A p \in k.hold_back \ j.hold_back : \E i \in 1..n :
             j.uploads[i].path = p /\ j.uploads[i].kind = "Upload" /\ disk[d][p] = None
  BY <1>10, <1>14, <1>b
<1>20. Cut(d, j, k, n, at)
  BY <1>3, <1>6, <1>10, <1>14, <1>16, <1>17, <1>18, <1>19 DEF Cut
<1>21. QED
  BY <1>14, <1>20

\* The job after a batch was cut is aimed.
LEMMA PrepareAims ==
    ASSUME BaseOK, JobsOK, NEW d \in Devices, PrepareBatch(d),
           NEW tab, NEW wr, AimedJob(d, job[d], tab, wr)
    PROVE  AimedJob(d, job'[d], tab, wr)
<1>1. PICK j, k : j = job[d] /\ k = job'[d]
  OBVIOUS
<1>2. j \in JobIn(Paths) /\ AimedJob(d, j, tab, wr)
  BY <1>1 DEF JobsOK
<1>3. PICK n, at : Cut(d, j, k, n, at)
  BY <1>1, PrepareCut
<1>4. /\ k.conflicts = j.conflicts /\ k.stage # "walked" /\ n \in Nat /\ n <= Len(j.uploads)
      /\ k.uploads = SubSeq(j.uploads, n + 1, Len(j.uploads))
      /\ at \in [DOMAIN k.ops -> 1..n]
      /\ \A l, m \in DOMAIN k.ops : l # m => at[l] # at[m]
      /\ \A m \in DOMAIN k.ops : k.ops[m] = prepare_batch_op(d, j.uploads[at[m]])
  BY <1>3 DEF Cut
<1>5. AimedJob(d, k, tab, wr)
  BY <1>2, <1>4, AimedBatch
<1>6. QED
  BY <1>1, <1>5

\* What is planned for one path is aimed at the row it was planned from.
LEMMA PlanAimed ==
    ASSUME NEW d, NEW tab \in Manifests, NEW wr, NEW p \in Paths, NEW a,
           NEW b \in Entry \cup {None}, NEW l \in Entry \cup {None},
           PlannedAction(a, p, b, l, tab[p])
    PROVE  /\ a.kind = "Conflict" => Aimed(d, tab, wr, p, a.remote.hash, a.local.deleted)
           /\ a.kind \in {"Upload", "DeleteRemote"} =>
                 Aimed(d, tab, wr, p, parent_hash(a), a.kind = "DeleteRemote")
<1>1. tab[p] \in Entry \cup {None}
  BY DEF Manifests
<1>2. ASSUME a.kind = "Conflict" PROVE Aimed(d, tab, wr, p, a.remote.hash, a.local.deleted)
  <2>1. /\ a.local = local_or_tombstone(l, b) /\ a.remote = local_or_tombstone(tab[p], b)
        /\ version(l) # version(tab[p])
    BY <1>2 DEF PlannedAction
  <2>2. tab[p] # None => a.remote = tab[p]
    BY <1>1, <2>1, SideEntry
  <2>3. version(a.local) = version(l)
    BY <2>1, SideEntry
  <2>4. a.local.deleted => version(l) = None
    BY <2>3 DEF version
  <2>5. a.local.deleted => tab[p] # None
    BY <2>1, <2>4 DEF version
  <2>6. QED
    BY <2>2, <2>5 DEF Aimed
<1>3. ASSUME a.kind \in {"Upload", "DeleteRemote"}
      PROVE  Aimed(d, tab, wr, p, parent_hash(a), a.kind = "DeleteRemote")
  <2>1. a.remote = tab[p] /\ (a.kind = "DeleteRemote" => version(tab[p]) # None)
    BY <1>3 DEF PlannedAction
  <2>2. QED
    BY <2>1 DEF Aimed, parent_hash, version
<1>4. QED
  BY <1>2, <1>3

\* The actions of some kinds that a diff has, as a list: each is a path's own.
LEMMA ListedPaths ==
    ASSUME NEW diff, NEW kinds,
           \A p \in Paths : diff[p].kind \in kinds => diff[p].path = p,
           NEW s, s = ActionsOf(diff, kinds)
    PROVE  /\ Distinct(s)
           /\ \A i \in DOMAIN s : /\ s[i].path \in Paths /\ s[i] = diff[s[i].path]
                                  /\ diff[s[i].path].kind \in kinds
<1>1. PICK X : X = {diff[p] : p \in Paths}
  OBVIOUS
<1>2. \A p \in Paths : diff[p].kind \in kinds => diff[p] \in X
  BY <1>1
<1>3. Listed(s, diff, kinds)
  BY <1>2, ActionsList
<1>4. PICK where \in [DOMAIN s -> Paths] :
        /\ \A i \in DOMAIN s : s[i] = diff[where[i]] /\ diff[where[i]].kind \in kinds
        /\ \A i, j \in DOMAIN s : i # j => where[i] # where[j]
  BY <1>3 DEF Listed
<1>5. \A i \in DOMAIN s : where[i] \in Paths /\ s[i].path = where[i]
  BY <1>4
<1>6. QED
  BY <1>4, <1>5 DEF Distinct

\* A fresh plan is aimed at the rows it was made from, which the fetched
\* manifest are.
LEMMA PlanAims ==
    ASSUME BaseOK, JobsOK, EtagSound, NEW d \in Devices, FetchAndPlan(d),
           AimedJob(d, job[d], rows, writer)
    PROVE  AimedJob(d, job'[d], rows, writer)
<1>1. /\ job \in [Devices -> JobIn(Paths)] /\ job[d] \in JobIn(Paths) /\ job[d].stage = "walked"
      /\ job[d].working \in Manifests /\ rows \in Manifests /\ job[d].ops = <<>>
  BY DEF JobsOK, JobIn, FetchAndPlan, BaseOK, GateTypeOK, AimedJob, OnePlan
<1>2. FetchedManifest(d) = rows
  BY FetchedRows
<1>3. PICK diff : diff = diff_local_and_remote(d, rows)
  OBVIOUS
<1>4. PICK ck, uk : ck = {"Conflict"} /\ uk = {"Upload", "DeleteRemote"}
  OBVIOUS
<1>5. PICK cs, us : cs = ActionsOf(diff, ck) /\ us = ActionsOf(diff, uk)
  OBVIOUS
<1>6. /\ job'[d].stage = "downloading" /\ job'[d].conflicts = cs /\ job'[d].uploads = us
      /\ job'[d].ops = <<>>
  BY <1>1, <1>2, <1>3, <1>4, <1>5 DEF FetchAndPlan, JobIn
<1>7. ASSUME NEW p \in Paths, diff[p].kind \in ck \cup uk
      PROVE  /\ diff[p].path = p
             /\ PlannedAction(diff[p], p, base[d][p], job[d].working[p], rows[p])
  <2>1. diff[p].kind # "Nothing"
    BY <1>4, <1>7
  <2>2. QED
    BY <1>1, <1>3, <2>1, PlanPath
<1>8. ASSUME NEW p \in Paths
      PROVE  /\ diff[p].kind \in ck =>
                   Aimed(d, rows, writer, p, diff[p].remote.hash, diff[p].local.deleted)
             /\ diff[p].kind \in uk =>
                   Aimed(d, rows, writer, p, parent_hash(diff[p]), diff[p].kind = "DeleteRemote")
  <2>1. base[d][p] \in Entry \cup {None} /\ job[d].working[p] \in Entry \cup {None}
    BY <1>1 DEF BaseOK, Manifests
  <2>2. ASSUME diff[p].kind \in ck \cup uk
        PROVE  /\ diff[p].kind = "Conflict" =>
                     Aimed(d, rows, writer, p, diff[p].remote.hash, diff[p].local.deleted)
               /\ diff[p].kind \in {"Upload", "DeleteRemote"} =>
                     Aimed(d, rows, writer, p, parent_hash(diff[p]), diff[p].kind = "DeleteRemote")
    BY <1>1, <1>7, <2>1, <2>2, PlanAimed
  <2>3. QED
    BY <1>4, <2>2
<1>9. /\ Distinct(cs)
      /\ \A i \in DOMAIN cs : /\ cs[i].path \in Paths /\ cs[i] = diff[cs[i].path]
                              /\ diff[cs[i].path].kind \in ck
  BY <1>5, <1>7, ListedPaths
<1>10. /\ Distinct(us)
       /\ \A i \in DOMAIN us : /\ us[i].path \in Paths /\ us[i] = diff[us[i].path]
                               /\ diff[us[i].path].kind \in uk
  BY <1>5, <1>7, ListedPaths
<1>11. ck \cap uk = {}
  BY <1>4
<1>12. Apart(cs, us)
  BY <1>9, <1>10, <1>11 DEF Apart
<1>13. AimedConflicts(d, rows, writer, cs)
  BY <1>8, <1>9 DEF AimedConflicts
<1>14. AimedUploads(d, rows, writer, us)
  BY <1>8, <1>10 DEF AimedUploads
<1>15. PICK none : none = <<>> /\ DOMAIN none = {}
  OBVIOUS
<1>16. PICK k : k = job'[d]
  OBVIOUS
<1>17. k.stage # "walked" /\ k.conflicts = cs /\ k.uploads = us /\ k.ops = none
  BY <1>6, <1>15, <1>16
<1>18. AimedJob(d, k, rows, writer)
  BY <1>9, <1>10, <1>12, <1>13, <1>14, <1>15, <1>17
     DEF AimedJob, OnePlan, Distinct, Apart, SentOps
<1>19. QED
  BY <1>16, <1>18

\* The operation that the server runs next, in the list of the batch.
LEMMA NextOpIn ==
    ASSUME JobsOK, NEW d \in Devices, Len(job[d].results) < Len(job[d].ops)
    PROVE  \E n \in DOMAIN job[d].ops : NextOp(d) = job[d].ops[n] /\ NextOp(d) \in OpIn(Paths)
<1>1. job[d] \in JobIn(Paths) /\ job[d].results \in Seq(Verdict) /\ job[d].ops \in Seq(OpIn(Paths))
  BY DEF JobsOK, JobIn
<1>2. Len(job[d].results) + 1 \in 1..Len(job[d].ops) /\ DOMAIN job[d].ops = 1..Len(job[d].ops)
  BY <1>1
<1>3. QED
  BY <1>1, <1>2, JobLists DEF NextOp

\* The server runs an operation of d: whatever it writes, every device's job
\* stays aimed.
LEMMA ServerAims ==
    ASSUME BaseOK, JobsOK, AimedInv, NEW d \in Devices, ServerApplies(d), NEW e \in Devices
    PROVE  AimedJob(e, job[e], rows', writer')
<1>1. /\ AimedJob(d, job[d], rows, writer) /\ AimedJob(e, job[e], rows, writer)
      /\ job[d] \in JobIn(Paths) /\ job[e] \in JobIn(Paths) /\ rows \in Manifests
      /\ writer \in [Paths -> Devices \cup {None}]
  BY DEF AimedInv, JobsOK, BaseOK, GateTypeOK
<1>2. PICK n \in DOMAIN job[d].ops : NextOp(d) = job[d].ops[n] /\ NextOp(d) \in OpIn(Paths)
  BY NextOpIn DEF ServerApplies
<1>3. PICK op \in OpIn(Paths) : op = NextOp(d)
  BY <1>2
<1>4. op.path \in Paths /\ op.hash \in Hashes \cup {NoHash}
  BY DEF OpIn
<1>5. PICK row \in Entry \cup {None} : row = rows[op.path]
  BY <1>1, <1>4 DEF Manifests
<1>6. \/ UNCHANGED <<rows, writer>>
      \/ /\ op.kind = "Upload" /\ rows' = [rows EXCEPT ![op.path] = Live(op.hash)]
         /\ writer' = [writer EXCEPT ![op.path] = d]
      \/ /\ op.kind = "DeleteRemote" /\ delete_gate(row, op.parent) = "accept"
         /\ rows' = [rows EXCEPT ![op.path] = tombstone(row)]
         /\ writer' = [writer EXCEPT ![op.path] = d]
  BY <1>3, <1>5 DEF ServerApplies, ServerPut, ServerDelete, CommitPut, CommitDelete, Wrote,
                    serverVars, gateVars
<1>7. CASE UNCHANGED <<rows, writer>>
  BY <1>1, <1>7
<1>8. ASSUME NEW new \in Entry, rows' = [rows EXCEPT ![op.path] = new],
             writer' = [writer EXCEPT ![op.path] = d],
             \/ new.hash = op.parent
             \/ op.kind = "Upload" /\ new = Live(op.hash)
      PROVE  AimedJob(e, job[e], rows', writer')
  <2>1. CASE e # d
    BY <1>1, <1>4, <1>8, <2>1, AimedOther
  <2>2. CASE e = d
    <3>1. AimedJob(d, job[d], [rows EXCEPT ![job[d].ops[n].path] = new],
                   [writer EXCEPT ![job[d].ops[n].path] = d])
      BY <1>1, <1>2, <1>3, <1>8, AimedSelf
    <3>2. QED
      BY <1>2, <1>3, <1>8, <2>2, <3>1
  <2>3. QED
    BY <2>1, <2>2
<1>9. CASE /\ op.kind = "Upload" /\ rows' = [rows EXCEPT ![op.path] = Live(op.hash)]
           /\ writer' = [writer EXCEPT ![op.path] = d]
  BY <1>4, <1>8, <1>9, LiveEntry
<1>10. CASE /\ op.kind = "DeleteRemote" /\ delete_gate(row, op.parent) = "accept"
            /\ rows' = [rows EXCEPT ![op.path] = tombstone(row)]
            /\ writer' = [writer EXCEPT ![op.path] = d]
  <2>1. row # None
    BY <1>1, <1>2, <1>3, <1>5, <1>10 DEF AimedJob, SentOps, Sent
  <2>2. row.hash = op.parent
    BY <1>10, <2>1 DEF delete_gate
  <2>3. tombstone(row) = [hash |-> row.hash, deleted |-> TRUE] /\ row.hash \in Hashes \cup {NoHash}
    BY <2>1 DEF tombstone, Entry
  <2>4. tombstone(row) \in Entry /\ tombstone(row).hash = op.parent
    BY <2>2, <2>3, TombEntry
  <2>5. QED
    BY <1>8, <1>10, <2>4
<1>11. QED
  BY <1>6, <1>7, <1>9, <1>10

\* The steps that leave the lists of a job as they are, or drop some of them.
Keeps(j, k) ==
    /\ k.conflicts \in {j.conflicts, <<>>} /\ k.uploads \in {j.uploads, <<>>}
    /\ k.ops \in {j.ops, <<>>} /\ k.stage # "walked"

Dropping(d) ==
    \/ \E p \in Paths : \/ DeleteLocal(d, p) \/ FetchOne(d, p)
                        \/ DeleteLocalFails(d, p) \/ FetchOneFails(d, p)
    \/ DownloadsDone(d) \/ BatchAnswered(d) \/ BatchResend(d) \/ BatchFails(d)
    \/ CheckpointFetch(d)

LEMMA DroppingKeeps ==
    ASSUME JobsOK, NEW d \in Devices, Dropping(d)
    PROVE  Keeps(job[d], job'[d]) /\ job'[d].results \in {job[d].results, <<>>}
<1> DEFINE Goal == Keeps(job[d], job'[d]) /\ job'[d].results \in {job[d].results, <<>>}
<1>0. job \in [Devices -> JobIn(Paths)] /\ job[d] \in JobIn(Paths)
  BY DEF JobsOK
<1>1. ASSUME NEW p \in Paths, DeleteLocal(d, p) \/ DeleteLocalFails(d, p) PROVE Goal
  <2>1. PICK hb : /\ job[d].stage = "downloading"
                  /\ job' = [job EXCEPT ![d].deletes = @ \ {p}, ![d].hold_back = hb]
    <3>1. CASE DeleteLocal(d, p)
      <4>1. job' = [job EXCEPT ![d].deletes = @ \ {p}, ![d].hold_back = job[d].hold_back]
        BY <1>0, <3>1 DEF DeleteLocal, JobIn
      <4>2. QED
        BY <3>1, <4>1 DEF DeleteLocal
    <3>2. CASE DeleteLocalFails(d, p)
      BY <3>2 DEF DeleteLocalFails
    <3>3. QED
      BY <1>1, <3>1, <3>2
  <2>2. QED
    BY <1>0, <2>1 DEF Keeps, JobIn
<1>2. ASSUME NEW p \in Paths, FetchOne(d, p) PROVE Goal
  <2>1. /\ job[d].stage = "downloading"
        /\ \/ job' = [job EXCEPT ![d].fetches = @ \ {p}]
           \/ job' = [job EXCEPT ![d].fetches = @ \ {p}, ![d].hold_back = @ \cup {p}]
    BY <1>2 DEF FetchOne
  <2>2. CASE job' = [job EXCEPT ![d].fetches = @ \ {p}]
    BY <1>0, <2>1, <2>2 DEF Keeps, JobIn
  <2>3. CASE job' = [job EXCEPT ![d].fetches = @ \ {p}, ![d].hold_back = @ \cup {p}]
    BY <1>0, <2>1, <2>3 DEF Keeps, JobIn
  <2>4. QED
    BY <2>1, <2>2, <2>3
<1>3. ASSUME NEW p \in Paths, FetchOneFails(d, p) PROVE Goal
  BY <1>0, <1>3 DEF FetchOneFails, Keeps, JobIn
<1>4. CASE DownloadsDone(d)
  BY <1>0, <1>4 DEF DownloadsDone, AfterDownloads, Keeps, JobIn
<1>5. CASE BatchAnswered(d)
  <2>1. PICK fatal, hb, l :
           job' = [job EXCEPT ![d].stage = "uploading", ![d].hold_back = @ \cup hb,
              ![d].fatal = @ \/ fatal, ![d].uploads = IF fatal THEN <<>> ELSE @,
              ![d].left = @ \o l,
              ![d].ops = <<>>, ![d].results = <<>>, ![d].attempt = 0, ![d].landed = {}]
    BY <1>5 DEF BatchAnswered
  <2>2. QED
    BY <1>0, <2>1 DEF Keeps, JobIn
<1>6. CASE BatchFails(d)
  <2>1. PICK held : held = {job[d].ops[i].path : i \in DOMAIN job[d].ops}
    OBVIOUS
  <2>2. PICK fatal \in BOOLEAN :
           job' = [job EXCEPT ![d].stage = "uploading", ![d].hold_back = @ \cup held,
              ![d].fatal = @ \/ fatal, ![d].uploads = IF fatal THEN <<>> ELSE @,
              ![d].ops = <<>>, ![d].results = <<>>, ![d].attempt = 0, ![d].landed = {}]
    BY <1>6, <2>1 DEF BatchFails
  <2>3. QED
    BY <1>0, <2>2 DEF Keeps, JobIn
<1>7. CASE BatchResend(d)
  BY <1>0, <1>7 DEF BatchResend, Keeps, JobIn
<1>8. CASE CheckpointFetch(d)
  BY <1>0, <1>8 DEF CheckpointFetch, Keeps, JobIn
<1> HIDE DEF Goal
<1>9. Goal
  BY <1>1, <1>2, <1>3, <1>4, <1>5, <1>6, <1>7, <1>8 DEF Dropping, Goal
<1>10. QED
  BY <1>9 DEF Goal

\* An answer only makes the list of results longer.
LEMMA AnswerKeeps ==
    ASSUME JobsOK, NEW d \in Devices, ServerApplies(d) \/ ServerFull(d)
    PROVE  Keeps(job[d], job'[d])
<1>0. job \in [Devices -> JobIn(Paths)] /\ job[d] \in JobIn(Paths)
  BY DEF JobsOK
<1>1. job[d].stage = "sending" /\ \E status, current : Answer(d, status, current)
  BY DEF ServerApplies, ServerFull, ServerPut, ServerDelete
<1>2. QED
  BY <1>0, <1>1 DEF Answer, Keeps, JobIn

\* Resolving a conflict takes it off the list, and perhaps appends the write
\* that keeps its local side.
LEMMA ResolveTakes ==
    ASSUME "KeepBoth" \notin UserChoices, JobsOK, NEW d \in Devices,
           NEW choice \in UserChoices, Resolve(d, choice)
    PROVE  \/ job'[d] = IdleJob
           \/ /\ job[d].conflicts # <<>> /\ job'[d].conflicts = Tail(job[d].conflicts)
              /\ job'[d].ops = job[d].ops /\ job'[d].stage # "walked"
              /\ job'[d].results = job[d].results
              /\ \/ job'[d].uploads = job[d].uploads
                 \/ job'[d].uploads =
                       Append(job[d].uploads, conflict_to_upload(Head(job[d].conflicts)))
<1>0. /\ job \in [Devices -> JobIn(Paths)] /\ job[d] \in JobIn(Paths) /\ JobSide(job[d])
      /\ job[d].uploads \in Seq(WriteIn(Paths))
  BY DEF JobsOK, JobIn
<1>1. job[d].stage = "resolving" /\ job[d].conflicts # <<>>
  BY <1>0 DEF Resolve, JobSide
<1>2. PICK c : c = Head(job[d].conflicts)
  OBVIOUS
<1>3. \/ job' = [job EXCEPT ![d] = IdleJob]
      \/ \E de : \/ job' = Resolved(d, <<>>, de)
                 \/ job' = Resolved(d, <<conflict_to_upload(c)>>, de)
  <2>1. effective_choice(choice, c) # "KeepBoth"
    BY DEF effective_choice
  <2>2. QED
    BY <1>2, <2>1 DEF Resolve, KeepRemote
<1>4. CASE job' = [job EXCEPT ![d] = IdleJob]
  BY <1>0, <1>4
<1>5. ASSUME NEW us, NEW de, job' = Resolved(d, us, de)
      PROVE  /\ job'[d].conflicts = Tail(job[d].conflicts)
             /\ job'[d].ops = job[d].ops /\ job'[d].stage # "walked"
             /\ job'[d].results = job[d].results
             /\ job'[d].uploads = job[d].uploads \o us
  BY <1>0, <1>5 DEF Resolved, AfterDownloads, JobIn
<1>6. job[d].uploads \o <<>> = job[d].uploads
  BY <1>0, ConcatEmptySeq
<1>7. job[d].uploads \o <<conflict_to_upload(c)>> = Append(job[d].uploads, conflict_to_upload(c))
  BY <1>0, AppendIsConcat
<1>8. QED
  BY <1>1, <1>2, <1>3, <1>4, <1>5, <1>6, <1>7

\* A device's own step, the server's part aside, keeps its job aimed.
LEMMA AimedOwn ==
    ASSUME ~ResumePlans, "KeepBoth" \notin UserChoices, BaseOK, JobsOK, EtagSound,
           NEW d \in Devices, AimedJob(d, job[d], rows, writer), ~ServerApplies(d),
           \/ \E p \in Paths : Edit(d, p) \/ Restore(d, p) \/ EditIgnore(d, p)
           \/ Engine(d) \/ ResumePlan(d) \/ Failure(d) \/ Poll(d)
    PROVE  AimedJob(d, job'[d], rows, writer)
<1> DEFINE Goal == AimedJob(d, job'[d], rows, writer)
<1>0. job \in [Devices -> JobIn(Paths)] /\ job[d] \in JobIn(Paths) /\ JobSide(job[d])
  BY DEF JobsOK
<1>1. CASE (\E p \in Paths : Edit(d, p) \/ Restore(d, p) \/ EditIgnore(d, p)) \/ Poll(d)
  BY <1>1 DEF Edit, Restore, EditIgnore, Poll
<1>2. CASE CheckpointSave(d) \/ SkipCheckpoint(d) \/ Abort(d)
  <2>1. job'[d] = IdleJob
    BY <1>0, <1>2 DEF CheckpointSave, SkipCheckpoint, Abort, EndCycle
  <2>2. QED
    BY <2>1, AimedIdle
<1>3. CASE Walk(d)
  <2>1. PICK m : m = build_working_manifest(walked(d), base[d])
    OBVIOUS
  <2>2. job' = [job EXCEPT ![d].stage = "walked", ![d].working = m] /\ job[d] = IdleJob
    BY <1>0, <1>3, <2>1 DEF Walk, MayStart, JobSide
  <2>3. job'[d].conflicts = <<>> /\ job'[d].uploads = <<>> /\ job'[d].ops = <<>>
    BY <1>0, <2>2 DEF JobIn, IdleJob
  <2>4. QED
    BY <2>3, AimedLess
<1>4. CASE FetchAndPlan(d)
  BY <1>4, PlanAims
<1>5. CASE Dropping(d) \/ ServerFull(d)
  <2>1. Keeps(job[d], job'[d])
    BY <1>5, DroppingKeeps, AnswerKeeps
  <2>2. PICK j, k : j = job[d] /\ k = job'[d]
    OBVIOUS
  <2>3. AimedJob(d, k, rows, writer)
    BY <2>1, <2>2, AimedLess DEF Keeps
  <2>4. QED
    BY <2>2, <2>3
<1>6. CASE PrepareBatch(d)
  BY <1>6, PrepareAims
<1>7. ASSUME NEW choice \in UserChoices, Resolve(d, choice) PROVE Goal
  <2>1. CASE job'[d] = IdleJob
    BY <2>1, AimedIdle
  <2>2. CASE job'[d] # IdleJob
    <3>1. /\ job[d].conflicts # <<>> /\ job'[d].conflicts = Tail(job[d].conflicts)
          /\ job'[d].ops = job[d].ops /\ job'[d].stage # "walked"
          /\ \/ job'[d].uploads = job[d].uploads
             \/ job'[d].uploads =
                   Append(job[d].uploads, conflict_to_upload(Head(job[d].conflicts)))
      BY <1>7, <2>2, ResolveTakes
    <3>2. QED
      BY <1>0, <3>1, AimedTail
  <2>3. QED
    BY <2>1, <2>2
<1>8. ~ResumePlan(d)
  BY DEF ResumePlan
<1> HIDE DEF Goal
<1>9. Goal
  <2> USE DEF Goal
  <2>1. QED
    BY <1>1, <1>2, <1>3, <1>4, <1>5, <1>6, <1>7, <1>8 DEF Engine, Failure, Dropping
<1>10. QED
  BY <1>9 DEF Goal

\* Every step keeps every job aimed.
LEMMA AimedStep ==
    ASSUME ~ResumePlans, "KeepBoth" \notin UserChoices
    PROVE  TypesInv /\ EtagSound /\ AimedInv /\ [Next]_vars => AimedInv'
<1>0. SUFFICES ASSUME TypesInv, EtagSound, AimedInv, [Next]_vars, NEW e \in Devices
               PROVE  AimedJob(e, job'[e], rows', writer')
  BY DEF AimedInv
<1>1. BaseOK /\ JobsOK /\ AimedJob(e, job[e], rows, writer)
  BY <1>0 DEF TypesInv, AimedInv
<1>2. CASE UNCHANGED vars
  BY <1>1, <1>2 DEF vars, local, ghosts
<1>3. ASSUME NEW d \in Devices,
             \/ \E p \in Paths : Edit(d, p) \/ Restore(d, p) \/ EditIgnore(d, p)
             \/ Engine(d) \/ ResumePlan(d) \/ Failure(d) \/ Poll(d)
      PROVE  AimedJob(e, job'[e], rows', writer')
  <2>1. e # d => job'[e] = job[e]
    BY <1>1, <1>3, OthersKept
  <2>2. CASE ServerApplies(d)
    <3>1. AimedJob(e, job[e], rows', writer')
      BY <1>0, <1>1, <2>2, ServerAims
    <3>2. CASE e = d
      <4>1. Keeps(job[e], job'[e])
        BY <1>1, <2>2, <3>2, AnswerKeeps
      <4>2. PICK j, k, tab, wr : j = job[e] /\ k = job'[e] /\ tab = rows' /\ wr = writer'
        OBVIOUS
      <4>3. AimedJob(e, k, tab, wr)
        BY <3>1, <4>1, <4>2, AimedLess DEF Keeps
      <4>4. QED
        BY <4>2, <4>3
    <3>3. QED
      BY <2>1, <3>1, <3>2
  <2>3. CASE ~ServerApplies(d)
    <3>1. rows' = rows /\ writer' = writer
      BY <1>1, <1>3, <2>3, ServerOrCache DEF serverVars, gateVars
    <3>2. CASE e = d
      <4>1. AimedJob(e, job'[e], rows, writer)
        BY <1>0, <1>1, <1>3, <2>3, <3>2, AimedOwn
      <4>2. QED
        BY <3>1, <4>1
    <3>3. QED
      BY <1>1, <2>1, <3>1, <3>2
  <2>4. QED
    BY <2>2, <2>3
<1>4. QED
  BY <1>0, <1>2, <1>3 DEF Next

\* The jobs stay aimed.
LEMMA AimedAlways ==
    ASSUME ~ResumePlans, "KeepBoth" \notin UserChoices
    PROVE  Spec => []AimedInv
<1>1. Init => AimedInv
  BY AimedIdle DEF Init, AimedInv
<1>2. TypesInv /\ EtagSound /\ AimedInv /\ [Next]_vars => AimedInv'
  BY AimedStep
<1>3. QED
  BY <1>1, <1>2, TypesAlways, EtagKept, PTL DEF Spec

\* A plan and a new batch bring no results.
LEMMA PlanResults ==
    ASSUME JobsOK, NEW d \in Devices, FetchAndPlan(d) \/ PrepareBatch(d)
    PROVE  job'[d].results \in {job[d].results, <<>>}
<1>0. job \in [Devices -> JobIn(Paths)] /\ job[d] \in JobIn(Paths)
  BY DEF JobsOK
<1>1. CASE FetchAndPlan(d)
  <2>1. PICK diff : diff = diff_local_and_remote(d, FetchedManifest(d))
    OBVIOUS
  <2>2. job' = [job EXCEPT ![d].stage = "downloading",
                     ![d].deletes = {p \in Paths : diff[p].kind = "DeleteLocal"},
                     ![d].fetches = {p \in Paths : diff[p].kind = "Download"},
                     ![d].conflicts = ActionsOf(diff, {"Conflict"}),
                     ![d].uploads = ActionsOf(diff, {"Upload", "DeleteRemote"})]
    BY <1>1, <2>1 DEF FetchAndPlan
  <2>3. PICK s, de, fe, cs, us :
           job' = [job EXCEPT ![d].stage = s, ![d].deletes = de, ![d].fetches = fe,
                              ![d].conflicts = cs, ![d].uploads = us]
    BY <2>2, Zenon
  <2>4. QED
    BY <1>0, <2>3 DEF JobIn
<1>2. CASE PrepareBatch(d)
  <2>1. PICK n \in 1..BATCH_MAX_OPS :
           LET batch == SubSeq(job[d].uploads, 1, n)
               readable(act) == act.kind = "Upload" => disk[d][act.path] # None
               members == Ascending({i \in 1..n : readable(batch[i])})
           IN  job' = [job EXCEPT
                 ![d].stage = IF members = <<>> THEN "uploading" ELSE "sending",
                 ![d].uploads = SubSeq(@, n + 1, Len(@)),
                 ![d].ops = build_batch_form(d, batch, members),
                 ![d].results = <<>>, ![d].attempt = 0, ![d].landed = {},
                 ![d].hold_back = @ \cup
                     {batch[i].path : i \in {i \in DOMAIN batch : ~readable(batch[i])}}]
    BY <1>2 DEF PrepareBatch
  <2>2. PICK s, us, os, hb :
           job' = [job EXCEPT ![d].stage = s, ![d].uploads = us, ![d].ops = os,
                 ![d].results = <<>>, ![d].attempt = 0, ![d].landed = {}, ![d].hold_back = hb]
    BY <2>1, Zenon
  <2>3. QED
    BY <1>0, <2>2 DEF JobIn
<1>3. QED
  BY <1>1, <1>2

\* Only an answer of the server makes the results of a batch more.
LEMMA ResultsGrow ==
    ASSUME ~ResumePlans, "KeepBoth" \notin UserChoices, JobsOK, NEW d \in Devices,
           \/ \E p \in Paths : Edit(d, p) \/ Restore(d, p) \/ EditIgnore(d, p)
           \/ Engine(d) \/ ResumePlan(d) \/ Failure(d) \/ Poll(d),
           Len(job'[d].results) > Len(job[d].results)
    PROVE  ServerApplies(d) \/ ServerFull(d)
<1>0. /\ job \in [Devices -> JobIn(Paths)] /\ job[d] \in JobIn(Paths) /\ JobSide(job[d])
      /\ job[d].results \in Seq(Verdict) /\ Len(job[d].results) \in Nat
  BY LenProperties DEF JobsOK, JobIn
<1>1. job'[d].results # job[d].results /\ job'[d].results # <<>>
  BY <1>0
<1>2. ~((\E p \in Paths : Edit(d, p) \/ Restore(d, p) \/ EditIgnore(d, p)) \/ Poll(d))
  BY <1>1 DEF Edit, Restore, EditIgnore, Poll
<1>3. IdleJob.results = <<>>
  BY DEF IdleJob
<1>4. ~(CheckpointSave(d) \/ SkipCheckpoint(d) \/ Abort(d))
  <2>1. CheckpointSave(d) \/ SkipCheckpoint(d) \/ Abort(d) => job'[d] = IdleJob
    BY <1>0 DEF CheckpointSave, SkipCheckpoint, Abort, EndCycle
  <2>2. QED
    BY <1>1, <1>3, <2>1
<1>5. ~Walk(d)
  <2>1. Walk(d) => job'[d].results = job[d].results
    BY <1>0 DEF Walk, JobIn
  <2>2. QED
    BY <1>1, <2>1
<1>6. ~(FetchAndPlan(d) \/ PrepareBatch(d))
  BY <1>1, PlanResults
<1>7. ~Dropping(d)
  BY <1>1, DroppingKeeps
<1>8. ~\E choice \in UserChoices : Resolve(d, choice)
  BY <1>1, <1>3, ResolveTakes
<1>9. ~ResumePlan(d)
  BY DEF ResumePlan
<1>10. QED
  BY <1>2, <1>4, <1>5, <1>6, <1>7, <1>8, <1>9 DEF Engine, Failure, Dropping

\* A 409 is about a row that another device wrote.
LEMMA LateStep ==
    ASSUME ~ResumePlans, "KeepBoth" \notin UserChoices, TypesInv, AimedInv, [Next]_vars,
           NEW d \in Devices, Len(job'[d].results) > Len(job[d].results),
           job'[d].results[Len(job'[d].results)].status = "409"
    PROVE  writer[NextOp(d).path] # d
<1>0. /\ BaseOK /\ JobsOK /\ AimedJob(d, job[d], rows, writer) /\ job[d] \in JobIn(Paths)
      /\ job \in [Devices -> JobIn(Paths)]
      /\ job[d].results \in Seq(Verdict) /\ Len(job[d].results) \in Nat
      /\ rows \in Manifests
  BY LenProperties DEF TypesInv, AimedInv, JobsOK, JobIn, BaseOK, GateTypeOK
<1>1. job'[d] # job[d]
  BY <1>0
<1>2. PICK e \in Devices :
         \/ \E q \in Paths : Edit(e, q) \/ Restore(e, q) \/ EditIgnore(e, q)
         \/ Engine(e) \/ ResumePlan(e) \/ Failure(e) \/ Poll(e)
  BY <1>1 DEF Next, vars, local
<1>3. e = d
  BY <1>0, <1>1, <1>2, OthersKept
<1>4. ServerApplies(d) \/ ServerFull(d)
  BY <1>0, <1>2, <1>3, ResultsGrow
<1>5. ASSUME NEW status, NEW current, Answer(d, status, current) PROVE status = "409"
  <2>1. PICK res : res = [status |-> status, current |-> current]
    OBVIOUS
  <2>2. job'[d].results = Append(job[d].results, res)
    BY <1>0, <1>5, <2>1 DEF Answer, JobIn
  <2>3. PICK s : s = job[d].results
    OBVIOUS
  <2>4. Append(s, res)[Len(Append(s, res))] = res
    BY <1>0, <2>3
  <2>5. QED
    BY <2>1, <2>2, <2>3, <2>4
<1>6. ~ServerFull(d)
  BY <1>5 DEF ServerFull
<1>7. ServerApplies(d)
  BY <1>4, <1>6
<1>8. PICK n \in DOMAIN job[d].ops : NextOp(d) = job[d].ops[n] /\ NextOp(d) \in OpIn(Paths)
  BY <1>0, <1>7, NextOpIn DEF ServerApplies
<1>9. PICK op \in OpIn(Paths) : op = NextOp(d)
  BY <1>8
<1>10. Sent(d, rows, writer, op)
  BY <1>0, <1>8, <1>9 DEF AimedJob, SentOps
<1>11. PICK row : row = rows[op.path]
  OBVIOUS
<1>12. \/ op.kind = "Upload" /\ put_gate(row, op.parent, op.hash) = "conflict"
       \/ op.kind = "DeleteRemote" /\ delete_gate(row, op.parent) = "conflict"
  BY <1>5, <1>7, <1>9, <1>11 DEF ServerApplies, ServerPut, ServerDelete
<1>13. SUFFICES ASSUME writer[op.path] = d PROVE FALSE
  BY <1>9
<1>14. CASE op.kind = "Upload" /\ put_gate(row, op.parent, op.hash) = "conflict"
  BY <1>10, <1>11, <1>13, <1>14 DEF Sent, put_gate, Live
<1>15. CASE op.kind = "DeleteRemote" /\ delete_gate(row, op.parent) = "conflict"
  BY <1>10, <1>11, <1>13, <1>15 DEF Sent, delete_gate
<1>16. QED
  BY <1>12, <1>14, <1>15

\* Sending a batch again is safe (api_client.rs, batch): whatever the other
\* devices, the edits, the failures and the resent batches do, a device gets a
\* 409 only for a path that another device wrote last.  The user answers
\* conflicts in the cycle that found them and asks for no conflict copy: a
\* kept plan and the upload of a copy name parents that the device's own
\* earlier writes may have replaced.
THEOREM LateForeign ==
    ASSUME ~ResumePlans, "KeepBoth" \notin UserChoices
    PROVE  Spec => LateConflictIsForeign
<1>1. Spec => []AimedInv
  BY AimedAlways
<1>2. TypesInv /\ AimedInv /\ [Next]_vars =>
        [\A d \in Devices :
          /\ Len(job'[d].results) > Len(job[d].results)
          /\ job'[d].results[Len(job'[d].results)].status = "409"
          => writer[NextOp(d).path] # d]_vars
  BY LateStep
<1>3. QED
  BY <1>1, <1>2, TypesAlways, PTL DEF Spec, LateConflictIsForeign

-----------------------------------------------------------------------------
(* Silent clobbers                                                         *)

\* The live version of a row is one that a device has had or was shown.
Met(kn, tab, p) == version(tab[p]) # None => tab[p].hash \in kn[p]

\* A conflict of a row that was met, whose local side the device has had.
KnownConflict(c, kn, tab) ==
    /\ Met(kn, tab, c.path)
    /\ ~c.local.deleted => c.local.hash \in kn[c.path]

\* A write to a row that was met; an upload names the hash of the file.
KnownUpload(u, files, kn, tab) ==
    /\ Met(kn, tab, u.path)
    /\ u.kind = "Upload" =>
          /\ u.local.hash \in kn[u.path]
          /\ files[u.path] # None => HashOf[files[u.path]] = u.local.hash

\* An operation on a row that was met, with the content its hash names.
KnownOp(o, kn, tab) ==
    /\ Met(kn, tab, o.path)
    /\ o.kind = "Upload" =>
          o.hash \in kn[o.path] /\ o.content # None /\ HashOf[o.content] = o.hash

Planning == {"idle", "walked"}

\* A cycle that writes nothing over an unknown version: what it walked, was in
\* conflict with, uploads and sends is known.  Once it has planned, every row it
\* looks at was met, or is still to be downloaded, or is kept out of the
\* checkpoint.
Informed(j, files, kn, tab, patterns) ==
    /\ j.stage = "walked" => \A p \in Paths : Met(kn, j.working, p)
    /\ \A i \in DOMAIN j.conflicts : KnownConflict(j.conflicts[i], kn, tab)
    /\ \A i \in DOMAIN j.uploads : /\ KnownUpload(j.uploads[i], files, kn, tab)
                                   /\ j.uploads[i].path \notin j.fetches
    /\ \A i \in DOMAIN j.ops : KnownOp(j.ops[i], kn, tab)
    /\ j.stage \notin Planning \cup {"downloading"} => j.fetches = {}
    /\ j.stage \notin Planning => \A p \in Paths \ patterns :
          Met(kn, tab, p) \/ p \in j.fetches \/ p \in j.hold_back \/ j.fatal

\* Outside of a cycle there is nothing to be informed of.
LEMMA IdleInformed ==
    ASSUME NEW files, NEW kn, NEW tab, NEW patterns
    PROVE  Informed(IdleJob, files, kn, tab, patterns)
<1>1. /\ IdleJob.stage = "idle" /\ IdleJob.conflicts = <<>> /\ IdleJob.uploads = <<>>
      /\ IdleJob.ops = <<>> /\ DOMAIN <<>> = {}
  BY DEF IdleJob
<1>2. QED
  BY <1>1 DEF Informed, Planning

\* Each element of t is one of s.
Among(t, s) == \A i \in DOMAIN t : \E m \in DOMAIN s : t[i] = s[m]

\* How a planned job k may follow j: it holds back and stops no less, and a
\* path leaves the downloads only when its row was met or it is held back.
Onward(j, k, kn, tab) ==
    /\ j.stage \notin Planning /\ k.stage \notin Planning
    /\ j.hold_back \subseteq k.hold_back /\ (j.fatal => k.fatal) /\ k.fetches \subseteq j.fetches
    /\ k.stage # "downloading" => k.fetches = {}
    /\ \A p \in j.fetches \ k.fetches : p \in k.hold_back \/ k.fatal \/ Met(kn, tab, p)

\* A device knows no less.
More(kn, now) == \A p \in Paths : kn[p] \subseteq now[p]

\* The files of the uploads are as they were, or gone.
SameUploads(j, files, new) ==
    \A i \in DOMAIN j.uploads :
        new[j.uploads[i].path] = files[j.uploads[i].path] \/ new[j.uploads[i].path] = None

\* A job that goes on with the same lists or less of them, or with one more
\* known upload, stays informed.
LEMMA InformedOnward ==
    ASSUME NEW j \in JobIn(Paths), NEW k, NEW files, NEW new, NEW kn, NEW now, NEW tab, NEW patterns,
           Informed(j, files, kn, tab, patterns), More(kn, now), Onward(j, k, now, tab),
           SameUploads(j, files, new),
           Among(k.conflicts, j.conflicts), Among(k.ops, j.ops),
           \A i \in DOMAIN k.uploads :
              \/ \E m \in DOMAIN j.uploads : k.uploads[i] = j.uploads[m]
              \/ /\ KnownUpload(k.uploads[i], new, now, tab)
                 /\ k.uploads[i].path \notin k.fetches
    PROVE  Informed(k, new, now, tab, patterns)
<1>1. \A p \in Paths : Met(kn, tab, p) => Met(now, tab, p)
  BY DEF More, Met
<1>2. ASSUME NEW i \in DOMAIN j.conflicts PROVE KnownConflict(j.conflicts[i], now, tab)
  <2>1. j.conflicts[i].path \in Paths /\ KnownConflict(j.conflicts[i], kn, tab)
    BY JobLists DEF Informed
  <2>2. QED
    BY <1>1, <2>1 DEF KnownConflict, More
<1>3. ASSUME NEW i \in DOMAIN j.uploads
      PROVE  KnownUpload(j.uploads[i], new, now, tab) /\ j.uploads[i].path \notin k.fetches
  <2>1. /\ j.uploads[i].path \in Paths /\ KnownUpload(j.uploads[i], files, kn, tab)
        /\ j.uploads[i].path \notin j.fetches
    BY JobLists DEF Informed
  <2>2. QED
    BY <1>1, <2>1 DEF KnownUpload, More, SameUploads, Onward
<1>4. ASSUME NEW i \in DOMAIN j.ops PROVE KnownOp(j.ops[i], now, tab)
  <2>1. j.ops[i].path \in Paths /\ KnownOp(j.ops[i], kn, tab)
    BY JobLists DEF Informed
  <2>2. QED
    BY <1>1, <2>1 DEF KnownOp, More
<1>5. ASSUME NEW p \in Paths \ patterns
      PROVE  Met(now, tab, p) \/ p \in k.fetches \/ p \in k.hold_back \/ k.fatal
  BY <1>1 DEF Informed, Onward
<1>6. k.stage # "walked" /\ (k.stage # "downloading" => k.fetches = {})
  BY DEF Onward, Planning
<1>7. QED
  BY <1>2, <1>3, <1>4, <1>5, <1>6 DEF Informed, Among

\* A job stays informed as its device learns more and as the table changes to
\* rows that are met too.
LEMMA InformedMore ==
    ASSUME NEW j \in JobIn(Paths), NEW files, NEW kn, NEW now, NEW tab, NEW new, NEW patterns,
           Informed(j, files, kn, tab, patterns), More(kn, now),
           \A p \in Paths : Met(kn, tab, p) => Met(now, new, p)
    PROVE  Informed(j, files, now, new, patterns)
<1>2. ASSUME NEW i \in DOMAIN j.conflicts PROVE KnownConflict(j.conflicts[i], now, new)
  <2>1. j.conflicts[i].path \in Paths /\ KnownConflict(j.conflicts[i], kn, tab)
    BY JobLists DEF Informed
  <2>2. QED
    BY <2>1 DEF KnownConflict, More
<1>3. ASSUME NEW i \in DOMAIN j.uploads
      PROVE  KnownUpload(j.uploads[i], files, now, new) /\ j.uploads[i].path \notin j.fetches
  <2>1. /\ j.uploads[i].path \in Paths /\ KnownUpload(j.uploads[i], files, kn, tab)
        /\ j.uploads[i].path \notin j.fetches
    BY JobLists DEF Informed
  <2>2. QED
    BY <2>1 DEF KnownUpload, More
<1>4. ASSUME NEW i \in DOMAIN j.ops PROVE KnownOp(j.ops[i], now, new)
  <2>1. j.ops[i].path \in Paths /\ KnownOp(j.ops[i], kn, tab)
    BY JobLists DEF Informed
  <2>2. QED
    BY <2>1 DEF KnownOp, More
<1>5. j.stage = "walked" => \A p \in Paths : Met(now, j.working, p)
  BY DEF Informed, Met, More
<1>6. j.stage \notin Planning => \A p \in Paths \ patterns :
          Met(now, new, p) \/ p \in j.fetches \/ p \in j.hold_back \/ j.fatal
  BY DEF Informed
<1>7. j.stage \notin Planning \cup {"downloading"} => j.fetches = {}
  BY DEF Informed
<1>8. QED
  BY <1>2, <1>3, <1>4, <1>5, <1>6, <1>7 DEF Informed


\* A live row's content is there and has the row's hash.
LiveBodies == \A p \in Paths :
    version(rows[p]) # None => body[p] # None /\ HashOf[body[p]] = rows[p].hash

\* What a device learns of a file it writes.
LEMMA LearnHash ==
    ASSUME BaseOK, NEW d \in Devices, NEW p \in Paths, NEW hs, Learn(d, p, hs)
    PROVE  hs \subseteq known'[d][p] /\ \A e \in Devices : More(known[e], known'[e])
<1>1. known \in [Devices -> [Paths -> SUBSET (Hashes \cup {NoHash})]]
  BY DEF BaseOK
<1>2. QED
  BY <1>1 DEF Learn, More

\* No device forgets what it knows.
LEMMA KnownGrows ==
    ASSUME BaseOK, JobsOK, NEW d \in Devices,
           \/ \E p \in Paths : Edit(d, p) \/ Restore(d, p) \/ EditIgnore(d, p)
           \/ Engine(d) \/ ResumePlan(d) \/ Failure(d) \/ Poll(d)
    PROVE  \A e \in Devices : More(known[e], known'[e])
<1> DEFINE Goal == \A e \in Devices : More(known[e], known'[e])
<1>0. known \in [Devices -> [Paths -> SUBSET (Hashes \cup {NoHash})]]
  BY DEF BaseOK
<1>1. ASSUME UNCHANGED known PROVE Goal
  BY <1>1 DEF More
<1>2. ASSUME NEW p \in Paths, Edit(d, p) \/ Restore(d, p) \/ DeleteLocal(d, p) \/ FetchOne(d, p)
      PROVE  Goal
  <2>1. UNCHANGED known \/ \E hs : Learn(d, p, hs)
    BY <1>2 DEF Edit, Restore, write_restored, DeleteLocal, FetchOne, decrypt_and_write, ghosts
  <2>2. QED
    BY <1>1, <2>1, LearnHash
<1>3. ASSUME NEW choice \in UserChoices, Resolve(d, choice) PROVE Goal
  <2>1. job[d].stage = "resolving" /\ job[d].conflicts # <<>> /\ job[d] \in JobIn(Paths)
    BY <1>3 DEF Resolve, JobsOK, JobSide
  <2>2. PICK c \in ConflictIn(Paths) : c = Head(job[d].conflicts)
    BY <2>1, HeadTailProperties DEF JobIn
  <2>3. PICK p \in Paths : p = c.path
    BY DEF ConflictIn
  <2>4. \/ UNCHANGED known
        \/ \E hs : Learn(d, p, hs)
        \/ p \in DOMAIN CopyOf /\ \E hs : Learn(d, CopyOf[p], hs)
    BY <1>3, <2>2, <2>3 DEF Resolve, KeepRemote, KeepBoth, effective_choice, decrypt_and_write
  <2>5. QED
    BY <1>1, <2>4, LearnHash, EngineAssumption
<1>4. ASSUME NEW f, known' = [known EXCEPT ![d] = f], More(known[d], f) PROVE Goal
  BY <1>0, <1>4 DEF More
<1>5. CASE FetchAndPlan(d)
  <2>1. PICK diff : known' = [known EXCEPT ![d] = [p \in Paths |->
                        IF diff[p].kind = "Conflict" THEN @[p] \cup {diff[p].remote.hash}
                        ELSE @[p]]]
    BY <1>5 DEF FetchAndPlan
  <2>2. PICK f : f = [p \in Paths |-> IF diff[p].kind = "Conflict"
                                      THEN known[d][p] \cup {diff[p].remote.hash} ELSE known[d][p]]
    OBVIOUS
  <2>3. known' = [known EXCEPT ![d] = f]
    BY <1>0, <2>1, <2>2
  <2>4. More(known[d], f)
    BY <2>2 DEF More
  <2>5. QED
    BY <1>4, <2>3, <2>4
<1>6. CASE BatchAnswered(d)
  <2>1. PICK g : g = [p \in Paths |-> {job[d].results[i].current.hash : i \in {j \in DOMAIN job[d].results :
                  job[d].ops[j].path = p /\ job[d].results[j].status = "409"}}]
    OBVIOUS
  <2>2. PICK f : f = [p \in Paths |-> known[d][p] \cup g[p]]
    OBVIOUS
  <2>3. known' = [known EXCEPT ![d] = f]
    BY <1>0, <1>6, <2>1, <2>2 DEF BatchAnswered
  <2>4. More(known[d], f)
    BY <2>2 DEF More
  <2>5. QED
    BY <1>4, <2>3, <2>4
<1>7. CASE (\E p \in Paths : EditIgnore(d, p)) \/ ServerApplies(d) \/ CheckpointFetch(d) \/ Poll(d)
           \/ CheckpointSave(d)
  <2>1. UNCHANGED known
    BY <1>7 DEF EditIgnore, ServerApplies, CheckpointFetch, Poll, CheckpointSave, ghosts
  <2>2. QED
    BY <1>1, <2>1
<1>8. CASE Inner(d)
  <2>1. UNCHANGED known
    BY <1>8, InnerStep DEF ghosts
  <2>2. QED
    BY <1>1, <2>1
<1> HIDE DEF Goal
<1>9. Goal
  <2> USE DEF Goal
  <2>1. QED
    BY <1>2, <1>3, <1>5, <1>6, <1>7, <1>8, StepKinds
<1>10. QED
  BY <1>9 DEF Goal

\* How a step changes the folders: not at all, or one file of its own device,
\* whose hash it then knows.
LEMMA DiskLearnt ==
    ASSUME BaseOK, JobsOK, NEW d \in Devices,
           \/ \E p \in Paths : Edit(d, p) \/ Restore(d, p) \/ EditIgnore(d, p)
           \/ Engine(d) \/ ResumePlan(d) \/ Failure(d) \/ Poll(d)
    PROVE  \/ disk' = disk
           \/ \E p \in Paths, c \in Contents \cup {None} :
                 /\ disk' = [disk EXCEPT ![d][p] = c]
                 /\ c # None => HashOf[c] \in known'[d][p]
<1> DEFINE Goal == \/ disk' = disk
                   \/ \E p \in Paths, c \in Contents \cup {None} :
                         /\ disk' = [disk EXCEPT ![d][p] = c]
                         /\ c # None => HashOf[c] \in known'[d][p]
<1>1. ASSUME NEW p \in Paths, Edit(d, p) PROVE Goal
  <2>1. PICK c \in Contents \cup {None} :
           disk' = [disk EXCEPT ![d][p] = c] /\ Learn(d, p, IF c = None THEN {} ELSE {HashOf[c]})
    BY <1>1 DEF Edit
  <2>2. c # None => HashOf[c] \in known'[d][p]
    BY <2>1, LearnHash
  <2>3. QED
    BY <2>1, <2>2
<1>2. ASSUME NEW p \in Paths, Restore(d, p) PROVE Goal
  <2>1. PICK c \in Contents : disk' = [disk EXCEPT ![d][p] = c] /\ Learn(d, p, {HashOf[c]})
    BY <1>2 DEF Restore, write_restored, write_atomic, get_history, BaseOK
  <2>2. HashOf[c] \in known'[d][p]
    BY <2>1, LearnHash
  <2>3. QED
    BY <2>1, <2>2
<1>3. ASSUME NEW p \in Paths, disk' = [disk EXCEPT ![d][p] = None] PROVE Goal
  BY <1>3, Zenon
<1>4. ASSUME NEW p \in Paths, NEW q \in Paths, decrypt_and_write(d, p, get_file(q)) PROVE Goal
  <2>1. PICK c \in Contents \cup {None} : c = get_file(q)
    BY DEF get_file, BaseOK, GateTypeOK
  <2>2. disk' = [disk EXCEPT ![d][p] = c] /\ Learn(d, p, {HashOf[c]})
    BY <1>4, <2>1 DEF decrypt_and_write, write_atomic
  <2>3. HashOf[c] \in known'[d][p]
    BY <2>2, LearnHash
  <2>4. QED
    BY <2>2, <2>3
<1>5. ASSUME NEW p \in Paths, DeleteLocal(d, p) \/ FetchOne(d, p) PROVE Goal
  <2>1. disk' = disk \/ disk' = [disk EXCEPT ![d][p] = None] \/ decrypt_and_write(d, p, get_file(p))
    BY <1>5 DEF DeleteLocal, FetchOne
  <2>2. QED
    BY <1>3, <1>4, <2>1
<1>6. ASSUME NEW choice \in UserChoices, Resolve(d, choice) PROVE Goal
  <2>1. job[d].stage = "resolving" /\ job[d].conflicts # <<>> /\ job[d] \in JobIn(Paths)
    BY <1>6 DEF Resolve, JobsOK, JobSide
  <2>2. PICK c \in ConflictIn(Paths) : c = Head(job[d].conflicts)
    BY <2>1, HeadTailProperties DEF JobIn
  <2>3. PICK p \in Paths : p = c.path
    BY DEF ConflictIn
  <2>4. \/ disk' = disk
        \/ disk' = [disk EXCEPT ![d][p] = None]
        \/ decrypt_and_write(d, p, get_file(p))
        \/ p \in DOMAIN CopyOf /\ decrypt_and_write(d, CopyOf[p], get_file(p))
    BY <1>6, <2>2, <2>3 DEF Resolve, KeepRemote, KeepBoth, effective_choice
  <2>5. QED
    BY <1>3, <1>4, <2>4, EngineAssumption
<1>7. CASE (\E p \in Paths : EditIgnore(d, p)) \/ ServerApplies(d) \/ FetchAndPlan(d)
           \/ CheckpointFetch(d) \/ Poll(d) \/ BatchAnswered(d) \/ CheckpointSave(d)
  BY <1>7 DEF EditIgnore, ServerApplies, FetchAndPlan, CheckpointFetch, Poll, BatchAnswered,
              CheckpointSave
<1>8. CASE Inner(d)
  BY <1>8, InnerStep
<1> HIDE DEF Goal
<1>9. Goal
  <2> USE DEF Goal
  <2>1. QED
    BY <1>1, <1>2, <1>5, <1>6, <1>7, <1>8, StepKinds
<1>10. QED
  BY <1>9 DEF Goal

\* Every device knows the files it has.
DiskKnown == \A d \in Devices, p \in Paths : disk[d][p] # None => HashOf[disk[d][p]] \in known[d][p]

\* It goes on knowing them.
LEMMA DiskKnownStep ==
    ASSUME BaseOK, JobsOK, DiskKnown, NEW d \in Devices,
           \/ \E p \in Paths : Edit(d, p) \/ Restore(d, p) \/ EditIgnore(d, p)
           \/ Engine(d) \/ ResumePlan(d) \/ Failure(d) \/ Poll(d)
    PROVE  DiskKnown'
<1>1. \A e \in Devices : More(known[e], known'[e])
  BY KnownGrows
<1>2. CASE disk' = disk
  BY <1>1, <1>2 DEF DiskKnown, More
<1>3. ASSUME NEW p \in Paths, NEW c \in Contents \cup {None}, disk' = [disk EXCEPT ![d][p] = c],
             c # None => HashOf[c] \in known'[d][p]
      PROVE  DiskKnown'
  <2>1. \A e \in Devices, q \in Paths : disk'[e][q] = IF e = d /\ q = p THEN c ELSE disk[e][q]
    BY <1>3, DiskTypes
  <2>2. QED
    BY <1>1, <1>3, <2>1 DEF DiskKnown, More
<1>4. QED
  BY <1>2, <1>3, DiskLearnt


\* The steps that drop from a plan hold back what they give up; a downloaded
\* file is the row's.
LEMMA DroppingOnward ==
    ASSUME BaseOK, JobsOK, LiveBodies, NEW d \in Devices, Dropping(d) \/ ServerFull(d),
           job[d].stage \notin Planning \cup {"downloading"} => job[d].fetches = {}
    PROVE  Onward(job[d], job'[d], known'[d], rows)
<1> DEFINE Goal == Onward(job[d], job'[d], known'[d], rows)
<1>0. job \in [Devices -> JobIn(Paths)] /\ job[d] \in JobIn(Paths) /\ job[d].fetches \subseteq Paths
  BY DEF JobsOK, JobIn
<1>a. ASSUME job[d].stage \notin Planning, job'[d].stage \notin Planning,
             job[d].hold_back \subseteq job'[d].hold_back, job[d].fatal => job'[d].fatal,
             job'[d].fetches = job[d].fetches,
             job[d].stage = "downloading" => job'[d].stage = "downloading"
      PROVE  Goal
  BY <1>a DEF Onward, Planning
<1>1. ASSUME NEW p \in Paths, DeleteLocal(d, p) PROVE Goal
  <2>1. job[d].stage = "downloading" /\ job' = [job EXCEPT ![d].deletes = @ \ {p}]
    BY <1>1 DEF DeleteLocal
  <2>2. /\ job'[d].stage = "downloading" /\ job'[d].hold_back = job[d].hold_back
        /\ job'[d].fatal = job[d].fatal /\ job'[d].fetches = job[d].fetches
    BY <1>0, <2>1 DEF JobIn
  <2>3. QED
    BY <1>a, <2>1, <2>2 DEF Planning
<1>2. ASSUME NEW p \in Paths, DeleteLocalFails(d, p) PROVE Goal
  <2>1. /\ job[d].stage = "downloading"
        /\ job' = [job EXCEPT ![d].deletes = @ \ {p}, ![d].hold_back = @ \cup {p}]
    BY <1>2 DEF DeleteLocalFails
  <2>2. /\ job'[d].stage = "downloading" /\ job'[d].hold_back = job[d].hold_back \cup {p}
        /\ job'[d].fatal = job[d].fatal /\ job'[d].fetches = job[d].fetches
    BY <1>0, <2>1 DEF JobIn
  <2>3. QED
    BY <1>a, <2>1, <2>2 DEF Planning
<1>3. ASSUME NEW p \in Paths, NEW held,
             job[d].stage = "downloading", job'[d].stage = "downloading",
             job'[d].fetches = job[d].fetches \ {p},
             job'[d].hold_back = job[d].hold_back \cup held, job[d].fatal => job'[d].fatal,
             p \in held \/ Met(known'[d], rows, p)
      PROVE  Goal
  BY <1>3 DEF Onward, Planning
<1>4. ASSUME NEW p \in Paths, FetchOne(d, p), get_file(p) # None PROVE Goal
  <2>1. /\ job[d].stage = "downloading" /\ job' = [job EXCEPT ![d].fetches = @ \ {p}]
        /\ Learn(d, p, {HashOf[body[p]]})
    BY <1>4 DEF FetchOne, decrypt_and_write, get_file
  <2>2. /\ job'[d].stage = "downloading" /\ job'[d].hold_back = job[d].hold_back
        /\ job'[d].fatal = job[d].fatal /\ job'[d].fetches = job[d].fetches \ {p}
    BY <1>0, <2>1 DEF JobIn
  <2>3. HashOf[body[p]] \in known'[d][p]
    BY <2>1, LearnHash
  <2>4. Met(known'[d], rows, p)
    BY <2>3 DEF Met, LiveBodies
  <2>5. job'[d].hold_back = job[d].hold_back \cup {}
    BY <2>2
  <2>6. QED
    BY <1>3, <2>1, <2>2, <2>4, <2>5
<1>5. ASSUME NEW p \in Paths, FetchOne(d, p), get_file(p) = None PROVE Goal
  <2>1. /\ job[d].stage = "downloading"
        /\ job' = [job EXCEPT ![d].fetches = @ \ {p}, ![d].hold_back = @ \cup {p}]
    BY <1>5 DEF FetchOne
  <2>2. /\ job'[d].stage = "downloading" /\ job'[d].hold_back = job[d].hold_back \cup {p}
        /\ job'[d].fatal = job[d].fatal /\ job'[d].fetches = job[d].fetches \ {p}
    BY <1>0, <2>1 DEF JobIn
  <2>3. QED
    BY <1>3, <2>1, <2>2
<1>6. ASSUME NEW p \in Paths, FetchOneFails(d, p) PROVE Goal
  <2>1. job[d].stage = "downloading"
    BY <1>6 DEF FetchOneFails
  <2>2. PICK fatal \in BOOLEAN :
           job' = [job EXCEPT ![d].fetches = @ \ {p}, ![d].hold_back = @ \cup {p},
                              ![d].fatal = @ \/ fatal]
    BY <1>6 DEF FetchOneFails
  <2>3. /\ job'[d].stage = "downloading" /\ job'[d].hold_back = job[d].hold_back \cup {p}
        /\ job[d].fatal => job'[d].fatal
        /\ job'[d].fetches = job[d].fetches \ {p}
    BY <1>0, <2>1, <2>2 DEF JobIn
  <2>4. QED
    BY <1>3, <2>1, <2>3
<1>7. CASE DownloadsDone(d)
  <2>1. PICK s : /\ job[d].stage = "downloading" /\ (job[d].fetches = {} \/ job[d].fatal)
                 /\ job' = [job EXCEPT ![d].stage = s, ![d].fetches = {}]
                 /\ s \in {"uploading", "resolving"}
    BY <1>7 DEF DownloadsDone, AfterDownloads
  <2>2. /\ job'[d].stage = s /\ job'[d].hold_back = job[d].hold_back
        /\ job'[d].fatal = job[d].fatal /\ job'[d].fetches = {}
    BY <1>0, <2>1 DEF JobIn
  <2>3. QED
    BY <2>1, <2>2 DEF Onward, Planning
<1>8. ASSUME job[d].stage = "sending", job'[d].stage \in {"sending", "uploading"},
             job[d].hold_back \subseteq job'[d].hold_back, job[d].fatal => job'[d].fatal,
             job'[d].fetches = job[d].fetches
      PROVE  Goal
  BY <1>8 DEF Onward, Planning
<1>9. CASE BatchAnswered(d)
  <2>1. PICK fatal, hb, l : /\ job[d].stage = "sending"
           /\ job' = [job EXCEPT ![d].stage = "uploading", ![d].hold_back = @ \cup hb,
              ![d].fatal = @ \/ fatal, ![d].uploads = IF fatal THEN <<>> ELSE @,
              ![d].left = @ \o l,
              ![d].ops = <<>>, ![d].results = <<>>, ![d].attempt = 0, ![d].landed = {}]
    BY <1>9 DEF BatchAnswered
  <2>2. /\ job'[d].stage = "uploading" /\ job'[d].hold_back = job[d].hold_back \cup hb
        /\ job'[d].fatal = (job[d].fatal \/ fatal) /\ job'[d].fetches = job[d].fetches
    BY <1>0, <2>1 DEF JobIn
  <2>3. QED
    BY <1>8, <2>1, <2>2
<1>10. CASE BatchFails(d)
  <2>1. PICK held : held = {job[d].ops[i].path : i \in DOMAIN job[d].ops}
    OBVIOUS
  <2>2. PICK fatal \in BOOLEAN :
           job' = [job EXCEPT ![d].stage = "uploading", ![d].hold_back = @ \cup held,
              ![d].fatal = @ \/ fatal, ![d].uploads = IF fatal THEN <<>> ELSE @,
              ![d].ops = <<>>, ![d].results = <<>>, ![d].attempt = 0, ![d].landed = {}]
    BY <1>10, <2>1 DEF BatchFails
  <2>3. /\ job'[d].stage = "uploading" /\ job'[d].hold_back = job[d].hold_back \cup held
        /\ job'[d].fatal = (job[d].fatal \/ fatal) /\ job'[d].fetches = job[d].fetches
    BY <1>0, <2>2 DEF JobIn
  <2>4. job[d].stage = "sending"
    BY <1>10 DEF BatchFails
  <2>5. QED
    BY <1>8, <2>3, <2>4
<1>11. CASE BatchResend(d) \/ ServerFull(d)
  <2>1. /\ job[d].stage = "sending"
        /\ \E rs, at, la : job' = [job EXCEPT ![d].attempt = at, ![d].landed = la, ![d].results = rs]
    <3>1. CASE BatchResend(d)
      BY <3>1, Zenon DEF BatchResend
    <3>2. CASE ServerFull(d)
      <4>1. PICK rs : job' = [job EXCEPT ![d].results = rs]
        BY <3>2 DEF ServerFull, Answer
      <4>2. job' = [job EXCEPT ![d].attempt = job[d].attempt, ![d].landed = job[d].landed,
                               ![d].results = rs]
        BY <1>0, <4>1 DEF JobIn
      <4>3. QED
        BY <3>2, <4>2, Zenon DEF ServerFull
    <3>3. QED
      BY <1>11, <3>1, <3>2
  <2>2. /\ job'[d].stage = "sending" /\ job'[d].hold_back = job[d].hold_back
        /\ job'[d].fatal = job[d].fatal /\ job'[d].fetches = job[d].fetches
    BY <1>0, <2>1 DEF JobIn
  <2>3. QED
    BY <1>8, <2>1, <2>2
<1>12. CASE CheckpointFetch(d)
  <2>1. job[d].stage = "uploading" /\ job' = [job EXCEPT ![d].stage = "saving"]
    BY <1>12 DEF CheckpointFetch
  <2>2. /\ job'[d].stage = "saving" /\ job'[d].hold_back = job[d].hold_back
        /\ job'[d].fatal = job[d].fatal /\ job'[d].fetches = job[d].fetches
    BY <1>0, <2>1 DEF JobIn
  <2>3. QED
    BY <1>a, <2>1, <2>2 DEF Planning
<1> HIDE DEF Goal
<1>13. Goal
  <2> USE DEF Goal
  <2>1. QED
    BY <1>1, <1>2, <1>4, <1>5, <1>6, <1>7, <1>9, <1>10, <1>11, <1>12 DEF Dropping
<1>14. QED
  BY <1>13 DEF Goal


\* A list kept or dropped, and the rest of a list.
LEMMA KeptAmong ==
    ASSUME NEW s, NEW t \in {s, <<>>}
    PROVE  Among(t, s)
<1>1. DOMAIN <<>> = {}
  OBVIOUS
<1>2. QED
  BY <1>1 DEF Among

LEMMA TailAmong ==
    ASSUME NEW X, NEW s \in Seq(X), s # <<>>
    PROVE  Among(Tail(s), s)
<1>1. /\ Len(s) \in Nat /\ Len(s) # 0 /\ DOMAIN s = 1..Len(s)
      /\ DOMAIN Tail(s) = 1..(Len(s) - 1)
      /\ \A i \in 1..(Len(s) - 1) : Tail(s)[i] = s[i + 1]
  BY HeadTailProperties, LenProperties, EmptySeq
<1>2. \A i \in DOMAIN Tail(s) : i + 1 \in DOMAIN s /\ Tail(s)[i] = s[i + 1]
  BY <1>1
<1>3. QED
  BY <1>2 DEF Among

\* These steps leave the files of the uploads alone, or remove them.
LEMMA DroppingUploads ==
    ASSUME BaseOK, JobsOK, NEW d \in Devices, Dropping(d) \/ ServerFull(d),
           \A i \in DOMAIN job[d].uploads : job[d].uploads[i].path \notin job[d].fetches
    PROVE  SameUploads(job[d], disk[d], disk'[d])
<1>0. /\ job[d] \in JobIn(Paths)
      /\ \A i \in DOMAIN job[d].uploads : job[d].uploads[i].path \in Paths
  BY JobLists DEF JobsOK
<1>1. ASSUME NEW p \in Paths, DeleteLocal(d, p) PROVE SameUploads(job[d], disk[d], disk'[d])
  <2>1. \A q \in Paths : disk'[d][q] = IF q = p THEN None ELSE disk[d][q]
    BY <1>1, DiskTypes DEF DeleteLocal
  <2>2. QED
    BY <1>0, <2>1 DEF SameUploads
<1>2. ASSUME NEW p \in Paths, FetchOne(d, p) PROVE SameUploads(job[d], disk[d], disk'[d])
  <2>1. CASE disk' = disk
    BY <2>1 DEF SameUploads
  <2>2. CASE decrypt_and_write(d, p, get_file(p))
    <3>1. PICK c \in Contents \cup {None} : c = get_file(p)
      BY DEF get_file, BaseOK, GateTypeOK
    <3>2. \A q \in Paths : disk'[d][q] = IF q = p THEN c ELSE disk[d][q]
      BY <2>2, <3>1, DiskTypes DEF decrypt_and_write, write_atomic
    <3>3. p \in job[d].fetches
      BY <1>2 DEF FetchOne
    <3>4. QED
      BY <1>0, <3>2, <3>3 DEF SameUploads
  <2>3. QED
    BY <1>2, <2>1, <2>2 DEF FetchOne
<1>3. ASSUME disk' = disk PROVE SameUploads(job[d], disk[d], disk'[d])
  BY <1>3 DEF SameUploads
<1>4. CASE \/ \E p \in Paths : DeleteLocalFails(d, p) \/ FetchOneFails(d, p)
           \/ DownloadsDone(d) \/ BatchAnswered(d) \/ BatchResend(d) \/ BatchFails(d)
           \/ CheckpointFetch(d) \/ ServerFull(d)
  <2>1. disk' = disk
    BY <1>4 DEF DeleteLocalFails, FetchOneFails, DownloadsDone, BatchAnswered, BatchResend,
                BatchFails, CheckpointFetch, ServerFull
  <2>2. QED
    BY <1>3, <2>1
<1>5. QED
  BY <1>1, <1>2, <1>4 DEF Dropping

\* After them the job is informed.
LEMMA DroppingInformed ==
    ASSUME BaseOK, JobsOK, LiveBodies, NEW d \in Devices, Dropping(d) \/ ServerFull(d),
           More(known[d], known'[d]), NEW patterns,
           Informed(job[d], disk[d], known[d], rows, patterns)
    PROVE  Informed(job'[d], disk'[d], known'[d], rows, patterns)
<1>1. Onward(job[d], job'[d], known'[d], rows)
  BY DroppingOnward DEF Informed
<1>2. SameUploads(job[d], disk[d], disk'[d])
  BY DroppingUploads DEF Informed
<1>3. Keeps(job[d], job'[d])
  BY DroppingKeeps, AnswerKeeps
<1>4. PICK j, k, files, new, kn, now :
         /\ j = job[d] /\ k = job'[d] /\ files = disk[d] /\ new = disk'[d]
         /\ kn = known[d] /\ now = known'[d]
  OBVIOUS
<1>5. /\ j \in JobIn(Paths) /\ Informed(j, files, kn, rows, patterns) /\ More(kn, now)
      /\ Onward(j, k, now, rows) /\ SameUploads(j, files, new) /\ Keeps(j, k)
  BY <1>1, <1>2, <1>3, <1>4 DEF JobsOK
<1>6. Among(k.conflicts, j.conflicts) /\ Among(k.ops, j.ops) /\ Among(k.uploads, j.uploads)
  BY <1>5, KeptAmong DEF Keeps
<1>7. \A i \in DOMAIN k.uploads : \E m \in DOMAIN j.uploads : k.uploads[i] = j.uploads[m]
  BY <1>6 DEF Among
<1>8. Informed(k, new, now, rows, patterns)
  BY <1>5, <1>6, <1>7, InformedOnward
<1>9. QED
  BY <1>4, <1>8

\* After a conflict is resolved: an upload made from it is of the conflict's
\* own file, and a file that is replaced is no upload's.
LEMMA ResolveInformed ==
    ASSUME "KeepBoth" \notin UserChoices, BaseOK, JobsOK, NEW d \in Devices,
           NEW choice \in UserChoices, Resolve(d, choice), More(known[d], known'[d]),
           OnePlan(job[d]), Faithful(job[d], disk[d], base[d], ignored[d]), NEW patterns,
           Informed(job[d], disk[d], known[d], rows, patterns)
    PROVE  Informed(job'[d], disk'[d], known'[d], rows, patterns)
<1>0. /\ job \in [Devices -> JobIn(Paths)] /\ job[d] \in JobIn(Paths) /\ JobSide(job[d])
      /\ job[d].conflicts \in Seq(ConflictIn(Paths)) /\ job[d].uploads \in Seq(WriteIn(Paths))
      /\ \A i \in DOMAIN job[d].uploads : job[d].uploads[i].path \in Paths
  BY JobLists DEF JobsOK
<1>1. job[d].stage = "resolving" /\ job[d].conflicts # <<>>
  BY <1>0 DEF Resolve, JobSide
<1>2. 1 \in DOMAIN job[d].conflicts /\ Head(job[d].conflicts) = job[d].conflicts[1]
  BY <1>0, <1>1, LenProperties, EmptySeq
<1>3. PICK c \in ConflictIn(Paths) : c = Head(job[d].conflicts)
  BY <1>0, <1>1, HeadTailProperties
<1>4. effective_choice(choice, c) # "KeepBoth"
  BY DEF effective_choice
<1>5. c.path \in Paths
  BY DEF ConflictIn
<1>6. CASE job' = [job EXCEPT ![d] = IdleJob]
  BY <1>0, <1>6, IdleInformed
<1>7. ASSUME NEW us \in {<<>>, <<conflict_to_upload(c)>>}, NEW de, job' = Resolved(d, us, de),
             SameUploads(job[d], disk[d], disk'[d]),
             us # <<>> => disk' = disk
      PROVE  Informed(job'[d], disk'[d], known'[d], rows, patterns)
  <2>1. PICK hb : hb = {de[i].path : i \in DOMAIN de}
    OBVIOUS
  <2>2. PICK s \in {"uploading", "resolving"} : s = AfterDownloads(Tail(job[d].conflicts))
    BY DEF AfterDownloads
  <2>3. /\ job'[d].stage = s /\ job'[d].conflicts = Tail(job[d].conflicts)
        /\ job'[d].ops = job[d].ops /\ job'[d].uploads = job[d].uploads \o us
        /\ job'[d].hold_back = job[d].hold_back \cup hb /\ job'[d].fatal = job[d].fatal
        /\ job'[d].fetches = job[d].fetches
    BY <1>0, <1>7, <2>1, <2>2 DEF Resolved, JobIn
  <2>4. job[d].fetches = {}
    BY <1>1 DEF Informed, Planning
  <2>5. Onward(job[d], job'[d], known'[d], rows)
    BY <1>1, <2>3, <2>4 DEF Onward, Planning
  <2>6. Among(Tail(job[d].conflicts), job[d].conflicts) /\ Among(job[d].ops, job[d].ops)
    BY <1>0, <1>1, TailAmong, KeptAmong
  <2>7. PICK u : u = conflict_to_upload(c)
    OBVIOUS
  <2>8. us # <<>> => KnownUpload(u, disk'[d], known'[d], rows)
    <3>1. SUFFICES ASSUME disk' = disk PROVE KnownUpload(u, disk[d], known'[d], rows)
      BY <1>7
    <3>2. /\ u.path = c.path /\ u.local = c.local
          /\ u.kind = "Upload" => ~c.local.deleted
      BY <2>7 DEF conflict_to_upload, action
    <3>3. KnownConflict(c, known[d], rows)
      BY <1>2, <1>3 DEF Informed
    <3>4. disk[d][c.path] # None => c.local = Live(HashOf[disk[d][c.path]])
      BY <1>2, <1>3 DEF Faithful
    <3>5. Met(known'[d], rows, u.path)
      BY <1>5, <3>2, <3>3 DEF KnownConflict, Met, More
    <3>6. u.kind = "Upload" => u.local.hash \in known'[d][u.path]
      BY <1>5, <3>2, <3>3 DEF KnownConflict, More
    <3>7. disk[d][u.path] # None => HashOf[disk[d][u.path]] = u.local.hash
      BY <3>2, <3>4 DEF Live
    <3>8. QED
      BY <3>5, <3>6, <3>7 DEF KnownUpload
  <2>9. PICK j, k, files, new, kn, now :
         /\ j = job[d] /\ k = job'[d] /\ files = disk[d] /\ new = disk'[d]
         /\ kn = known[d] /\ now = known'[d]
    OBVIOUS
  <2>10. \A i \in DOMAIN k.uploads :
           \/ \E m \in DOMAIN j.uploads : k.uploads[i] = j.uploads[m]
           \/ KnownUpload(k.uploads[i], new, now, rows) /\ k.uploads[i].path \notin k.fetches
    <3>1. CASE us = <<>>
      <4>1. k.uploads = j.uploads
        BY <1>0, <2>3, <2>9, <3>1, ConcatEmptySeq
      <4>2. QED
        BY <4>1
    <3>2. CASE us = <<u>>
      <4>1. k.uploads = Append(j.uploads, u) /\ j.uploads \in Seq(WriteIn(Paths))
        BY <1>0, <2>3, <2>9, <3>2, AppendIsConcat
      <4>2. \A i \in DOMAIN k.uploads : \/ i \in DOMAIN j.uploads /\ k.uploads[i] = j.uploads[i]
                                        \/ k.uploads[i] = u
        BY <4>1, AppendProperties, LenProperties
      <4>3. us # <<>>
        BY <3>2
      <4>4. KnownUpload(u, new, now, rows) /\ u.path \notin k.fetches
        BY <2>3, <2>4, <2>8, <2>9, <4>3
      <4>5. QED
        BY <4>2, <4>4
    <3>3. QED
      BY <1>7, <2>7, <3>1, <3>2
  <2>11. /\ j \in JobIn(Paths) /\ Informed(j, files, kn, rows, patterns) /\ More(kn, now)
         /\ Onward(j, k, now, rows) /\ SameUploads(j, files, new)
         /\ Among(k.conflicts, j.conflicts) /\ Among(k.ops, j.ops)
    BY <1>0, <1>7, <2>3, <2>5, <2>6, <2>9
  <2>12. Informed(k, new, now, rows, patterns)
    BY <2>10, <2>11, InformedOnward
  <2>13. QED
    BY <2>9, <2>12
<1>8. \A i \in DOMAIN job[d].uploads : job[d].uploads[i].path # c.path
  BY <1>2, <1>3 DEF OnePlan, Apart
<1>9. ASSUME disk' = disk PROVE SameUploads(job[d], disk[d], disk'[d])
  BY <1>9 DEF SameUploads
<1>10. ASSUME NEW x \in Contents \cup {None}, disk' = [disk EXCEPT ![d][c.path] = x]
       PROVE  SameUploads(job[d], disk[d], disk'[d])
  <2>1. \A q \in Paths : disk'[d][q] = IF q = c.path THEN x ELSE disk[d][q]
    BY <1>5, <1>10, DiskTypes
  <2>2. QED
    BY <1>0, <1>8, <2>1 DEF SameUploads
<1>11. \/ job' = [job EXCEPT ![d] = IdleJob]
       \/ disk' = disk /\ job' = Resolved(d, <<>>, <<c>>)
       \/ disk' = disk /\ job' = Resolved(d, <<conflict_to_upload(c)>>, <<>>)
       \/ disk' = [disk EXCEPT ![d][c.path] = None] /\ job' = Resolved(d, <<>>, <<>>)
       \/ decrypt_and_write(d, c.path, get_file(c.path)) /\ job' = Resolved(d, <<>>, <<>>)
  BY <1>3, <1>4 DEF Resolve, KeepRemote
<1>12. decrypt_and_write(d, c.path, get_file(c.path)) => SameUploads(job[d], disk[d], disk'[d])
  <2>1. body[c.path] \in Contents \cup {None}
    BY <1>5 DEF BaseOK, GateTypeOK
  <2>2. QED
    BY <1>10, <2>1 DEF decrypt_and_write, write_atomic, get_file
<1>13. CASE disk' = disk /\ job' = Resolved(d, <<>>, <<c>>)
  BY <1>7, <1>9, <1>13
<1>14. CASE disk' = disk /\ job' = Resolved(d, <<conflict_to_upload(c)>>, <<>>)
  BY <1>7, <1>9, <1>14
<1>15. CASE disk' = [disk EXCEPT ![d][c.path] = None] /\ job' = Resolved(d, <<>>, <<>>)
  BY <1>7, <1>10, <1>15
<1>16. CASE decrypt_and_write(d, c.path, get_file(c.path)) /\ job' = Resolved(d, <<>>, <<>>)
  BY <1>7, <1>12, <1>16
<1>17. QED
  BY <1>6, <1>11, <1>13, <1>14, <1>15, <1>16


\* After a batch is cut: an operation sends the file of its upload.
LEMMA PrepareInformed ==
    ASSUME BaseOK, JobsOK, NEW d \in Devices, PrepareBatch(d), NEW patterns,
           Informed(job[d], disk[d], known[d], rows, patterns)
    PROVE  Informed(job'[d], disk[d], known[d], rows, patterns)
<1>1. PICK j, k, files, kn : j = job[d] /\ k = job'[d] /\ files = disk[d] /\ kn = known[d]
  OBVIOUS
<1>2. j \in JobIn(Paths) /\ Informed(j, files, kn, rows, patterns) /\ j.stage = "uploading"
  BY <1>1 DEF JobsOK, PrepareBatch
<1>3. PICK n, at : Cut(d, j, k, n, at)
  BY <1>1, PrepareCut
<1>4. /\ n \in Nat /\ n <= Len(j.uploads) /\ k.stage \in {"uploading", "sending"}
      /\ k.conflicts = j.conflicts /\ k.fetches = j.fetches /\ k.fatal = j.fatal
      /\ j.hold_back \subseteq k.hold_back
      /\ k.uploads = SubSeq(j.uploads, n + 1, Len(j.uploads))
      /\ at \in [DOMAIN k.ops -> 1..n]
  BY <1>3 DEF Cut
<1>5. \A m \in DOMAIN k.ops :
         /\ k.ops[m] = prepare_batch_op(d, j.uploads[at[m]])
         /\ j.uploads[at[m]].kind = "Upload" => files[j.uploads[at[m]].path] # None
  BY <1>1, <1>3 DEF Cut
<1>6. /\ j.uploads \in Seq(WriteIn(Paths)) /\ Len(j.uploads) \in Nat
      /\ DOMAIN j.uploads = 1..Len(j.uploads)
  BY <1>2, JobLists, LenProperties
<1>7. \A m \in DOMAIN k.ops : at[m] \in DOMAIN j.uploads
  BY <1>4, <1>6
<1>8. \A i \in DOMAIN k.uploads : \E m \in DOMAIN j.uploads : k.uploads[i] = j.uploads[m]
  <2>a. PICK s, t : s = j.uploads /\ t = k.uploads
    OBVIOUS
  <2>b. s \in Seq(WriteIn(Paths)) /\ t = SubSeq(s, n + 1, Len(s)) /\ n \in Nat /\ n <= Len(s)
    BY <1>4, <1>6, <2>a
  <2>c. t = [i \in 1..(Len(s) - n) |-> s[n + i]]
    BY <2>b
  <2>1. k.uploads = [i \in 1..(Len(j.uploads) - n) |-> j.uploads[n + i]]
    BY <2>a, <2>c
  <2>2. \A i \in DOMAIN k.uploads : n + i \in DOMAIN j.uploads /\ k.uploads[i] = j.uploads[n + i]
    BY <1>4, <1>6, <2>1
  <2>3. QED
    BY <2>2
<1>9. ASSUME NEW m \in DOMAIN k.ops PROVE KnownOp(k.ops[m], kn, rows)
  <2>1. PICK u : u = j.uploads[at[m]]
    OBVIOUS
  <2>2. KnownUpload(u, files, kn, rows)
    BY <1>2, <1>7, <2>1 DEF Informed
  <2>3. /\ k.ops[m].path = u.path /\ k.ops[m].kind = u.kind /\ k.ops[m].hash = u.local.hash
        /\ u.kind = "Upload" => k.ops[m].content = files[u.path]
    <3>1. k.ops[m] = prepare_batch_op(d, u)
      BY <1>5, <2>1
    <3>2. prepare_batch_op(d, u) =
            [path |-> u.path, kind |-> u.kind, parent |-> parent_hash(u), hash |-> u.local.hash,
             content |-> IF u.kind = "Upload" THEN files[u.path] ELSE None]
      BY <1>1 DEF prepare_batch_op
    <3>3. QED
      BY <3>1, <3>2
  <2>4. u.kind = "Upload" => files[u.path] # None
    BY <1>5, <2>1
  <2>5. QED
    BY <2>2, <2>3, <2>4 DEF KnownUpload, KnownOp
<1>10. ASSUME NEW i \in DOMAIN k.uploads
       PROVE  KnownUpload(k.uploads[i], files, kn, rows) /\ k.uploads[i].path \notin k.fetches
  BY <1>2, <1>4, <1>8 DEF Informed
<1>11. j.stage \notin Planning /\ j.fetches = {} /\ k.stage # "walked"
  BY <1>2, <1>4 DEF Informed, Planning
<1>12. \A p \in Paths \ patterns :
          Met(kn, rows, p) \/ p \in k.fetches \/ p \in k.hold_back \/ k.fatal
  BY <1>2, <1>4, <1>11 DEF Informed
<1>13. Informed(k, files, kn, rows, patterns)
  BY <1>2, <1>4, <1>9, <1>10, <1>11, <1>12 DEF Informed
<1>14. QED
  BY <1>1, <1>13

\* The walk finds files that are there.
LEMMA WalkInformed ==
    ASSUME BaseOK, JobsOK, DiskKnown, NEW d \in Devices, Walk(d), NEW patterns
    PROVE  Informed(job'[d], disk[d], known[d], rows, patterns)
<1>0. /\ job \in [Devices -> JobIn(Paths)] /\ job[d] \in JobIn(Paths) /\ JobSide(job[d])
      /\ disk[d] \in [Paths -> Contents \cup {None}]
  BY DEF JobsOK, BaseOK
<1>1. PICK m : m = build_working_manifest(walked(d), base[d])
  OBVIOUS
<1>2. job' = [job EXCEPT ![d].stage = "walked", ![d].working = m] /\ job[d] = IdleJob
  BY <1>0, <1>1 DEF Walk, MayStart, JobSide
<1>3. /\ job'[d].conflicts = <<>> /\ job'[d].uploads = <<>> /\ job'[d].ops = <<>>
      /\ job'[d].working = m /\ job'[d].stage = "walked"
  BY <1>0, <1>2 DEF JobIn, IdleJob
<1>4. ASSUME NEW p \in Paths PROVE Met(known[d], m, p)
  <2>1. SUFFICES ASSUME version(m[p]) # None PROVE m[p].hash \in known[d][p]
    BY DEF Met
  <2>2. version(m[p]) = walked(d)[p] /\ m[p].hash = version(m[p])
    BY <1>1, <2>1, WorkingFacts DEF version
  <2>3. disk[d][p] # None /\ walked(d)[p] = HashOf[disk[d][p]]
    BY <2>1, <2>2 DEF walked, HashIn
  <2>4. QED
    BY <2>2, <2>3 DEF DiskKnown
<1>5. PICK k, kn : k = job'[d] /\ kn = known[d]
  OBVIOUS
<1>6. /\ DOMAIN k.conflicts = {} /\ DOMAIN k.uploads = {} /\ DOMAIN k.ops = {}
      /\ k.stage = "walked" /\ \A p \in Paths : Met(kn, k.working, p)
  BY <1>3, <1>4, <1>5
<1>7. Informed(k, disk[d], kn, rows, patterns)
  BY <1>6 DEF Informed, Planning
<1>8. QED
  BY <1>5, <1>7

\* What is planned for one path by a device that knows its checkpoint and its
\* files, and that is shown the other side of a conflict.
LEMMA PlanKnown ==
    ASSUME NEW p \in Paths, NEW a, NEW tab \in Manifests, NEW b \in Entry \cup {None},
           NEW l \in Entry \cup {None}, PlannedAction(a, p, b, l, tab[p]), NEW kn,
           version(b) # None => b.hash \in kn[p], version(l) # None => l.hash \in kn[p],
           a.kind = "Conflict" => a.remote.hash \in kn[p], NEW files,
           files[p] # None => l = Live(HashOf[files[p]])
    PROVE  /\ a.kind # "Download" => Met(kn, tab, p)
           /\ a.kind = "Conflict" => KnownConflict(a, kn, tab)
           /\ a.kind \in {"Upload", "DeleteRemote"} => KnownUpload(a, files, kn, tab)
<1>0. tab[p] \in Entry \cup {None} /\ a.path = p /\ a \in Action
  BY DEF Manifests, PlannedAction
<1>1. \A e, f : version(e) # None /\ version(e) = version(f) => version(f) # None /\ e.hash = f.hash
  BY DEF version
<1>2. ASSUME a.kind = "Conflict" PROVE Met(kn, tab, p) /\ KnownConflict(a, kn, tab)
  <2>1. /\ a.local = local_or_tombstone(l, b) /\ a.remote = local_or_tombstone(tab[p], b)
    BY <1>2 DEF PlannedAction
  <2>2. version(tab[p]) # None => a.remote = tab[p]
    BY <1>0, <2>1, SideEntry DEF version
  <2>3. Met(kn, tab, p)
    BY <1>2, <2>2 DEF Met
  <2>4. ~a.local.deleted => version(l) # None /\ a.local = l
    BY <2>1, SentinelAssumption DEF local_or_tombstone, version, Entry
  <2>5. QED
    BY <1>0, <2>3, <2>4 DEF KnownConflict
<1>3. ASSUME a.kind \in {"Upload", "DeleteRemote"}
      PROVE  Met(kn, tab, p) /\ KnownUpload(a, files, kn, tab)
  <2>1. /\ a.local = local_or_tombstone(l, b) /\ version(tab[p]) = version(b)
        /\ a.kind = "Upload" => version(l) # None
    BY <1>3 DEF PlannedAction
  <2>2. Met(kn, tab, p)
    BY <1>1, <2>1 DEF Met
  <2>3. a.kind = "Upload" => a.local = l
    BY <2>1 DEF version, local_or_tombstone
  <2>4. a.kind = "Upload" /\ files[p] # None => HashOf[files[p]] = a.local.hash
    BY <2>3 DEF Live
  <2>5. QED
    BY <1>0, <2>1, <2>2, <2>3, <2>4 DEF KnownUpload
<1>4. ASSUME a.kind \in {"Nothing", "DeleteLocal"} PROVE Met(kn, tab, p)
  <2>1. version(tab[p]) = None \/ version(l) = version(tab[p])
    BY <1>4 DEF PlannedAction
  <2>2. QED
    BY <1>1, <2>1 DEF Met
<1>5. a.kind \in Kinds
  BY <1>0 DEF Action
<1>6. QED
  BY <1>2, <1>3, <1>4, <1>5 DEF Kinds


\* The plan is informed.
LEMMA PlanInformed ==
    ASSUME BaseOK, JobsOK, EtagSound, NEW d \in Devices, FetchAndPlan(d), OnePlan(job[d]),
           Faithful(job[d], disk[d], base[d], ignored[d]), More(known[d], known'[d]),
           \A p \in Paths \ ignored[d] : Met(known[d], base[d], p),
           Informed(job[d], disk[d], known[d], rows, ignored[d])
    PROVE  Informed(job'[d], disk[d], known'[d], rows, ignored[d])
<1>1. /\ job \in [Devices -> JobIn(Paths)] /\ job[d] \in JobIn(Paths) /\ job[d].stage = "walked"
      /\ job[d].working \in Manifests /\ rows \in Manifests /\ job[d].ops = <<>>
      /\ known \in [Devices -> [Paths -> SUBSET (Hashes \cup {NoHash})]]
  BY DEF JobsOK, JobIn, FetchAndPlan, BaseOK, GateTypeOK, OnePlan
<1>2. FetchedManifest(d) = rows
  BY FetchedRows
<1>3. PICK diff : diff = diff_local_and_remote(d, rows)
  OBVIOUS
<1>4. PICK ck, uk : ck = {"Conflict"} /\ uk = {"Upload", "DeleteRemote"}
  OBVIOUS
<1>5. PICK cs, us : cs = ActionsOf(diff, ck) /\ us = ActionsOf(diff, uk)
  OBVIOUS
<1>6. /\ job'[d].stage = "downloading" /\ job'[d].conflicts = cs /\ job'[d].uploads = us
      /\ job'[d].ops = <<>> /\ job'[d].fetches = {p \in Paths : diff[p].kind = "Download"}
  BY <1>1, <1>2, <1>3, <1>4, <1>5 DEF FetchAndPlan, JobIn
<1>7. \A p \in Paths : diff[p].kind = "Conflict" => diff[p].remote.hash \in known'[d][p]
  <2>1. known' = [known EXCEPT ![d] = [p \in Paths |->
                        IF diff[p].kind = "Conflict" THEN @[p] \cup {diff[p].remote.hash}
                        ELSE @[p]]]
    BY <1>2, <1>3 DEF FetchAndPlan
  <2>2. PICK f : f = [p \in Paths |-> IF diff[p].kind = "Conflict"
                                      THEN known[d][p] \cup {diff[p].remote.hash} ELSE known[d][p]]
    OBVIOUS
  <2>3. known' = [known EXCEPT ![d] = f]
    BY <1>1, <2>1, <2>2
  <2>4. known'[d] = f
    BY <1>1, <2>3
  <2>5. QED
    BY <2>2, <2>4
<1>8. PICK k, files, now : k = job'[d] /\ files = disk[d] /\ now = known'[d]
  OBVIOUS
<1>9. ASSUME NEW p \in Paths \ ignored[d]
      PROVE  /\ diff[p].path = p
             /\ diff[p].kind # "Download" => Met(now, rows, p)
             /\ diff[p].kind = "Conflict" => KnownConflict(diff[p], now, rows)
             /\ diff[p].kind \in {"Upload", "DeleteRemote"} => KnownUpload(diff[p], files, now, rows)
  <2>1. PICK b, l : b = base[d][p] /\ l = job[d].working[p]
    OBVIOUS
  <2>2. b \in Entry \cup {None} /\ l \in Entry \cup {None}
    BY <1>1, <2>1 DEF BaseOK, Manifests
  <2>3. diff[p].path = p /\ PlannedAction(diff[p], p, b, l, rows[p])
    BY <1>1, <1>3, <2>1, PlanPath
  <2>4. /\ version(b) # None => b.hash \in now[p]
        /\ version(l) # None => l.hash \in now[p]
    BY <1>1, <1>8, <2>1 DEF Informed, Met, More
  <2>5. files[p] # None => l = Live(HashOf[files[p]])
    BY <1>1, <1>8, <2>1 DEF Faithful
  <2>6. diff[p].kind = "Conflict" => diff[p].remote.hash \in now[p]
    BY <1>7, <1>8
  <2>7. PICK a : a = diff[p]
    OBVIOUS
  <2>8. /\ a.kind # "Download" => Met(now, rows, p)
        /\ a.kind = "Conflict" => KnownConflict(a, now, rows)
        /\ a.kind \in {"Upload", "DeleteRemote"} => KnownUpload(a, files, now, rows)
    BY <1>1, <2>2, <2>3, <2>4, <2>5, <2>6, <2>7, PlanKnown
  <2>9. QED
    BY <2>3, <2>7, <2>8
<1>10. \A p \in Paths : diff[p].kind # "Nothing" => p \notin ignored[d]
  BY <1>1, <1>3, PlanPath
<1>11. \A p \in Paths : diff[p].kind \in ck \cup uk => p \in Paths \ ignored[d] /\ diff[p].path = p
  BY <1>4, <1>9, <1>10
<1>12. \A i \in DOMAIN cs : cs[i].path \in Paths /\ cs[i] = diff[cs[i].path] /\ diff[cs[i].path].kind \in ck
  BY <1>5, <1>11, ListedPaths
<1>13. \A i \in DOMAIN us : us[i].path \in Paths /\ us[i] = diff[us[i].path] /\ diff[us[i].path].kind \in uk
  BY <1>5, <1>11, ListedPaths
<1>14. \A i \in DOMAIN cs : KnownConflict(cs[i], now, rows)
  BY <1>4, <1>9, <1>11, <1>12
<1>15. \A i \in DOMAIN us : KnownUpload(us[i], files, now, rows) /\ us[i].path \notin k.fetches
  BY <1>4, <1>6, <1>8, <1>9, <1>11, <1>13
<1>16. \A p \in Paths \ ignored[d] : Met(now, rows, p) \/ p \in k.fetches
  BY <1>6, <1>8, <1>9
<1>17. /\ k.stage = "downloading" /\ k.conflicts = cs /\ k.uploads = us /\ DOMAIN k.ops = {}
  BY <1>6, <1>8
<1>18. Informed(k, files, now, rows, ignored[d])
  BY <1>14, <1>15, <1>16, <1>17 DEF Informed
<1>19. QED
  BY <1>8, <1>18

\* The server runs an operation of a device: rows that were met stay met, and
\* a row's content has its hash.
LEMMA ServerMet ==
    ASSUME BaseOK, JobsOK, LiveBodies, NEW d \in Devices, ServerApplies(d), NEW patterns,
           Informed(job[d], disk[d], known[d], rows, patterns)
    PROVE  /\ \A p \in Paths : Met(known[d], rows, p) => Met(known[d], rows', p)
           /\ LiveBodies'
           /\ \A p \in Paths : rows'[p] # rows[p] => writer'[p] = d /\ Met(known[d], rows, p)
<1>1. /\ rows \in Manifests /\ body \in [Paths -> Contents \cup {None}]
      /\ writer \in [Paths -> Devices \cup {None}]
  BY DEF BaseOK, GateTypeOK
<1>2. PICK n \in DOMAIN job[d].ops : NextOp(d) = job[d].ops[n] /\ NextOp(d) \in OpIn(Paths)
  BY NextOpIn DEF ServerApplies
<1>3. PICK op \in OpIn(Paths) : op = NextOp(d)
  BY <1>2
<1>4. op.path \in Paths /\ op.hash \in Hashes \cup {NoHash}
  BY DEF OpIn
<1>5. KnownOp(op, known[d], rows)
  BY <1>2, <1>3 DEF Informed
<1>6. PICK row \in Entry \cup {None} : row = rows[op.path]
  BY <1>1, <1>4 DEF Manifests
<1>7. \/ UNCHANGED <<rows, body, writer>>
      \/ /\ op.kind = "Upload" /\ rows' = [rows EXCEPT ![op.path] = Live(op.hash)]
         /\ body' = [body EXCEPT ![op.path] = op.content]
         /\ writer' = [writer EXCEPT ![op.path] = d]
      \/ /\ rows' = [rows EXCEPT ![op.path] = tombstone(row)]
         /\ body' = [body EXCEPT ![op.path] = None]
         /\ writer' = [writer EXCEPT ![op.path] = d]
  BY <1>3, <1>6 DEF ServerApplies, ServerPut, ServerDelete, CommitPut, CommitDelete, Wrote,
                    serverVars, gateVars
<1>8. CASE UNCHANGED <<rows, body, writer>>
  BY <1>8 DEF LiveBodies, Met
<1>9. ASSUME NEW new, NEW c, rows' = [rows EXCEPT ![op.path] = new],
             body' = [body EXCEPT ![op.path] = c], writer' = [writer EXCEPT ![op.path] = d],
             version(new) # None =>
                new.hash \in known[d][op.path] /\ c # None /\ HashOf[c] = new.hash
      PROVE  /\ \A p \in Paths : Met(known[d], rows, p) => Met(known[d], rows', p)
             /\ LiveBodies'
             /\ \A p \in Paths : rows'[p] # rows[p] => writer'[p] = d /\ Met(known[d], rows, p)
  <2>1. \A p \in Paths : /\ rows'[p] = IF p = op.path THEN new ELSE rows[p]
                         /\ body'[p] = IF p = op.path THEN c ELSE body[p]
                         /\ writer'[p] = IF p = op.path THEN d ELSE writer[p]
    BY <1>1, <1>9 DEF Manifests
  <2>2. \A p \in Paths : Met(known[d], rows, p) => Met(known[d], rows', p)
    BY <1>9, <2>1 DEF Met
  <2>3. LiveBodies'
    BY <1>9, <2>1 DEF LiveBodies
  <2>4. \A p \in Paths : rows'[p] # rows[p] => writer'[p] = d /\ Met(known[d], rows, p)
    BY <1>5, <2>1 DEF KnownOp
  <2>5. QED
    BY <2>2, <2>3, <2>4
<1>10. CASE /\ op.kind = "Upload" /\ rows' = [rows EXCEPT ![op.path] = Live(op.hash)]
            /\ body' = [body EXCEPT ![op.path] = op.content]
            /\ writer' = [writer EXCEPT ![op.path] = d]
  <2>1. /\ Live(op.hash).hash = op.hash /\ op.hash \in known[d][op.path]
        /\ op.content # None /\ HashOf[op.content] = op.hash
    BY <1>4, <1>5, <1>10, LiveEntry DEF KnownOp
  <2>2. QED
    BY <1>9, <1>10, <2>1
<1>11. CASE /\ rows' = [rows EXCEPT ![op.path] = tombstone(row)]
            /\ body' = [body EXCEPT ![op.path] = None]
            /\ writer' = [writer EXCEPT ![op.path] = d]
  <2>1. PICK h \in Hashes \cup {NoHash} : tombstone(row) = [hash |-> h, deleted |-> TRUE]
    BY DEF tombstone, Entry
  <2>2. version(tombstone(row)) = None
    BY <2>1, TombEntry
  <2>3. QED
    BY <1>9, <1>11, <2>2
<1>12. QED
  BY <1>7, <1>8, <1>10, <1>11


\* A device's own step, the server's part aside, keeps its job informed.
LEMMA InformedOwn ==
    ASSUME ~EditMidCycle, ~ResumePlans, "KeepBoth" \notin UserChoices, BaseOK, JobsOK, EtagSound,
           LiveBodies, DiskKnown, NEW d \in Devices, OnePlan(job[d]),
           Faithful(job[d], disk[d], base[d], ignored[d]),
           \A p \in Paths \ ignored[d] : Met(known[d], base[d], p),
           Informed(job[d], disk[d], known[d], rows, ignored[d]), ~ServerApplies(d),
           \/ \E p \in Paths : Edit(d, p) \/ Restore(d, p) \/ EditIgnore(d, p)
           \/ Engine(d) \/ ResumePlan(d) \/ Failure(d) \/ Poll(d)
    PROVE  Informed(job'[d], disk'[d], known'[d], rows, ignored'[d])
<1> DEFINE Goal == Informed(job'[d], disk'[d], known'[d], rows, ignored'[d])
<1>0. /\ job \in [Devices -> JobIn(Paths)] /\ job[d] \in JobIn(Paths) /\ JobSide(job[d])
      /\ More(known[d], known'[d])
  BY KnownGrows DEF JobsOK
<1>1. CASE (\E p \in Paths : Edit(d, p) \/ Restore(d, p) \/ EditIgnore(d, p)) \/ Poll(d)
  <2>1. job[d].stage = "idle" /\ job' = job
    BY <1>1 DEF Edit, Restore, EditIgnore, Poll
  <2>2. job'[d] = IdleJob
    BY <1>0, <2>1 DEF JobSide
  <2>3. QED
    BY <2>2, IdleInformed
<1>2. CASE CheckpointSave(d) \/ SkipCheckpoint(d) \/ Abort(d)
  <2>1. job'[d] = IdleJob
    BY <1>0, <1>2 DEF CheckpointSave, SkipCheckpoint, Abort, EndCycle
  <2>2. QED
    BY <2>1, IdleInformed
<1>3. CASE Walk(d)
  <2>1. disk' = disk /\ known' = known /\ ignored' = ignored
    BY <1>3 DEF Walk, ghosts
  <2>2. QED
    BY <1>3, <2>1, WalkInformed
<1>4. CASE FetchAndPlan(d)
  <2>1. disk' = disk /\ ignored' = ignored
    BY <1>4 DEF FetchAndPlan
  <2>2. QED
    BY <1>0, <1>4, <2>1, PlanInformed
<1>5. CASE Dropping(d) \/ ServerFull(d)
  <2>1. ignored' = ignored
    BY <1>5 DEF Dropping, ServerFull, DeleteLocal, FetchOne, DeleteLocalFails, FetchOneFails,
                DownloadsDone, BatchAnswered, BatchResend, BatchFails, CheckpointFetch
  <2>2. QED
    BY <1>0, <1>5, <2>1, DroppingInformed
<1>6. CASE PrepareBatch(d)
  <2>1. disk' = disk /\ known' = known /\ ignored' = ignored
    BY <1>6 DEF PrepareBatch, ghosts
  <2>2. QED
    BY <1>6, <2>1, PrepareInformed
<1>7. ASSUME NEW choice \in UserChoices, Resolve(d, choice) PROVE Goal
  <2>1. ignored' = ignored
    BY <1>7 DEF Resolve
  <2>2. QED
    BY <1>0, <1>7, <2>1, ResolveInformed
<1>8. ~ResumePlan(d)
  BY DEF ResumePlan
<1> HIDE DEF Goal
<1>9. Goal
  <2> USE DEF Goal
  <2>1. QED
    BY <1>1, <1>2, <1>3, <1>4, <1>5, <1>6, <1>7, <1>8 DEF Engine, Failure, Dropping
<1>10. QED
  BY <1>9 DEF Goal

\* An answer changes nothing a job has to be informed of.
LEMMA AnswerInformed ==
    ASSUME JobsOK, NEW d \in Devices, ServerApplies(d), NEW files, NEW kn, NEW tab, NEW patterns,
           Informed(job[d], files, kn, tab, patterns)
    PROVE  Informed(job'[d], files, kn, tab, patterns) /\ job'[d].stage = "sending"
<1>0. job \in [Devices -> JobIn(Paths)] /\ job[d] \in JobIn(Paths)
  BY DEF JobsOK
<1>1. job[d].stage = "sending" /\ \E rs : job' = [job EXCEPT ![d].results = rs]
  <2>1. \E status, current : Answer(d, status, current)
    BY DEF ServerApplies, ServerPut, ServerDelete
  <2>2. QED
    BY <2>1 DEF ServerApplies, Answer
<1>2. PICK j, k : j = job[d] /\ k = job'[d]
  OBVIOUS
<1>3. /\ k.stage = j.stage /\ k.conflicts = j.conflicts /\ k.uploads = j.uploads /\ k.ops = j.ops
      /\ k.fetches = j.fetches /\ k.hold_back = j.hold_back /\ k.fatal = j.fatal
      /\ k.working = j.working
  BY <1>0, <1>1, <1>2 DEF JobIn
<1>4. Informed(j, files, kn, tab, patterns)
  BY <1>2
<1>5. Informed(k, files, kn, tab, patterns)
  BY <1>3, <1>4 DEF Informed
<1>6. QED
  BY <1>1, <1>2, <1>3, <1>5

\* Only one device is in a cycle.
Solo == \A d, e \in Devices : job[d].stage # "idle" /\ job[e].stage # "idle" => d = e

\* With one cycle at a time, a device starts when all are idle.
LEMMA StartAlone ==
    ASSUME MaxActive <= 1, NEW d \in Devices, MayStart(d)
    PROVE  \A e \in Devices : job[e].stage = "idle"
<1>1. PICK S : S = {e \in Devices : job[e].stage # "idle"}
  OBVIOUS
<1>2. IsFiniteSet(S)
  BY <1>1, EngineAssumption, FS_Subset
<1>3. Cardinality(S) \in Nat
  BY <1>2, FS_CardinalityType
<1>4. Cardinality(S) < MaxActive /\ MaxActive \in Nat
  BY <1>1, EngineAssumption DEF MayStart
<1>5. Cardinality(S) = 0
  BY <1>3, <1>4
<1>6. S = {}
  BY <1>2, <1>5, FS_EmptySet
<1>7. QED
  BY <1>1, <1>6

\* An idle device takes no step of a cycle but its first.
LEMMA StartsOnly ==
    ASSUME NEW d \in Devices, job[d].stage = "idle",
           \/ \E p \in Paths : Edit(d, p) \/ Restore(d, p) \/ EditIgnore(d, p)
           \/ Engine(d) \/ ResumePlan(d) \/ Failure(d) \/ Poll(d)
    PROVE  MayStart(d) \/ job' = job
<1>1. CASE (\E p \in Paths : Edit(d, p) \/ Restore(d, p) \/ EditIgnore(d, p)) \/ Poll(d)
  BY <1>1 DEF Edit, Restore, EditIgnore, Poll
<1>2. CASE Walk(d) \/ ResumePlan(d)
  BY <1>2 DEF Walk, ResumePlan
<1>3. ~Failure(d)
  BY DEF Failure, DeleteLocalFails, FetchOneFails, ServerFull, BatchResend, BatchFails, Abort
<1>4. ~(FetchAndPlan(d) \/ DownloadsDone(d) \/ PrepareBatch(d) \/ ServerApplies(d)
        \/ BatchAnswered(d) \/ CheckpointFetch(d) \/ CheckpointSave(d) \/ SkipCheckpoint(d))
  BY DEF FetchAndPlan, DownloadsDone, PrepareBatch, ServerApplies, BatchAnswered, CheckpointFetch,
         CheckpointSave, SkipCheckpoint
<1>5. ~((\E p \in Paths : DeleteLocal(d, p) \/ FetchOne(d, p)) \/ \E choice \in UserChoices : Resolve(d, choice))
  BY DEF DeleteLocal, FetchOne, Resolve
<1>6. QED
  BY <1>1, <1>2, <1>3, <1>4, <1>5 DEF Engine

LEMMA SoloStep ==
    ASSUME MaxActive <= 1, BaseOK, JobsOK, Solo, NEW d \in Devices,
           \/ \E p \in Paths : Edit(d, p) \/ Restore(d, p) \/ EditIgnore(d, p)
           \/ Engine(d) \/ ResumePlan(d) \/ Failure(d) \/ Poll(d)
    PROVE  Solo'
<1>1. \A e \in Devices \ {d} : job'[e] = job[e]
  BY OthersKept
<1>2. ASSUME NEW e \in Devices \ {d}, job'[d].stage # "idle", job[e].stage # "idle" PROVE FALSE
  <2>1. job[d].stage = "idle"
    BY <1>2 DEF Solo
  <2>2. ~MayStart(d)
    BY <1>2, StartAlone
  <2>3. QED
    BY <1>2, <2>1, <2>2, StartsOnly
<1>3. QED
  BY <1>1, <1>2 DEF Solo


\* A cycle comes to its last stage only by fetching the manifest again.
LEMMA ToSaving ==
    ASSUME ~ResumePlans, "KeepBoth" \notin UserChoices, JobsOK, NEW d \in Devices,
           \/ \E p \in Paths : Edit(d, p) \/ Restore(d, p) \/ EditIgnore(d, p)
           \/ Engine(d) \/ ResumePlan(d) \/ Failure(d) \/ Poll(d),
           job'[d].stage = "saving"
    PROVE  CheckpointFetch(d) \/ job' = job
<1>0. job \in [Devices -> JobIn(Paths)] /\ job[d] \in JobIn(Paths)
  BY DEF JobsOK
<1>1. CASE (\E p \in Paths : Edit(d, p) \/ Restore(d, p) \/ EditIgnore(d, p)) \/ Poll(d)
  BY <1>1 DEF Edit, Restore, EditIgnore, Poll
<1>2. ~(CheckpointSave(d) \/ SkipCheckpoint(d) \/ Abort(d))
  <2>1. CheckpointSave(d) \/ SkipCheckpoint(d) \/ Abort(d) => job'[d] = IdleJob
    BY <1>0 DEF CheckpointSave, SkipCheckpoint, Abort, EndCycle
  <2>2. QED
    BY <2>1 DEF IdleJob
<1>3. ~Walk(d)
  <2>1. Walk(d) => job'[d].stage = "walked"
    BY <1>0 DEF Walk, JobIn
  <2>2. QED
    BY <2>1
<1>4. ASSUME FetchAndPlan(d) PROVE FALSE
  <2>1. PICK diff : diff = diff_local_and_remote(d, FetchedManifest(d))
    OBVIOUS
  <2>2. job' = [job EXCEPT ![d].stage = "downloading",
                     ![d].deletes = {p \in Paths : diff[p].kind = "DeleteLocal"},
                     ![d].fetches = {p \in Paths : diff[p].kind = "Download"},
                     ![d].conflicts = ActionsOf(diff, {"Conflict"}),
                     ![d].uploads = ActionsOf(diff, {"Upload", "DeleteRemote"})]
    BY <1>4, <2>1 DEF FetchAndPlan
  <2>3. \E s, de, fe, cs, us : /\ s = "downloading"
           /\ job' = [job EXCEPT ![d].stage = s, ![d].deletes = de, ![d].fetches = fe,
                              ![d].conflicts = cs, ![d].uploads = us]
    BY <2>2, Zenon
  <2>4. job'[d].stage = "downloading"
    BY <1>0, <2>3 DEF JobIn
  <2>5. QED
    BY <2>4
<1>5. ~PrepareBatch(d)
  <2>1. PrepareBatch(d) => \E n, at : Cut(d, job[d], job'[d], n, at)
    BY PrepareCut
  <2>2. QED
    BY <2>1 DEF Cut
<1>6. ASSUME NEW choice \in UserChoices, Resolve(d, choice) PROVE FALSE
  <2>1. PICK c : c = Head(job[d].conflicts)
    OBVIOUS
  <2>2. effective_choice(choice, c) # "KeepBoth"
    BY DEF effective_choice
  <2>3. job' = [job EXCEPT ![d] = IdleJob] \/ \E us, de : job' = Resolved(d, us, de)
    BY <1>6, <2>1, <2>2 DEF Resolve, KeepRemote
  <2>4. CASE job' = [job EXCEPT ![d] = IdleJob]
    <3>1. job'[d] = IdleJob
      BY <1>0, <2>4
    <3>2. QED
      BY <3>1 DEF IdleJob
  <2>5. ASSUME NEW us, NEW de, job' = Resolved(d, us, de) PROVE FALSE
    <3>1. PICK s \in {"uploading", "resolving"} : s = AfterDownloads(Tail(job[d].conflicts))
      BY DEF AfterDownloads
    <3>2. job'[d].stage = s
      BY <1>0, <2>5, <3>1 DEF Resolved, JobIn
    <3>3. QED
      BY <3>2
  <2>6. QED
    BY <2>3, <2>4, <2>5
<1>7. ~((\E p \in Paths : DeleteLocal(d, p) \/ DeleteLocalFails(d, p) \/ FetchOne(d, p) \/ FetchOneFails(d, p))
        \/ DownloadsDone(d))
  <2>1. ASSUME NEW p \in Paths, DeleteLocal(d, p) \/ DeleteLocalFails(d, p) PROVE FALSE
    <3>1. job'[d].stage = "downloading"
      BY <1>0, <2>1 DEF DeleteLocal, DeleteLocalFails, JobIn
    <3>2. QED
      BY <3>1
  <2>2. ASSUME NEW p \in Paths, FetchOne(d, p) PROVE FALSE
    <3>1. /\ job[d].stage = "downloading"
          /\ \/ job' = [job EXCEPT ![d].fetches = @ \ {p}]
             \/ job' = [job EXCEPT ![d].fetches = @ \ {p}, ![d].hold_back = @ \cup {p}]
      BY <2>2 DEF FetchOne
    <3>2. job'[d].stage = "downloading"
      BY <1>0, <3>1 DEF JobIn
    <3>3. QED
      BY <3>2
  <2>3. ASSUME NEW p \in Paths, FetchOneFails(d, p) PROVE FALSE
    <3>1. job'[d].stage = "downloading"
      BY <1>0, <2>3 DEF FetchOneFails, JobIn
    <3>2. QED
      BY <3>1
  <2>4. ASSUME DownloadsDone(d) PROVE FALSE
    <3>1. job'[d].stage \in {"uploading", "resolving"}
      BY <1>0, <2>4 DEF DownloadsDone, AfterDownloads, JobIn
    <3>2. QED
      BY <3>1
  <2>5. QED
    BY <2>1, <2>2, <2>3, <2>4
<1>8. ~(ServerApplies(d) \/ ServerFull(d) \/ BatchResend(d))
  <2>1. ASSUME ServerApplies(d) \/ ServerFull(d) PROVE FALSE
    <3>1. job[d].stage = "sending" /\ \E status, current : Answer(d, status, current)
      BY <2>1 DEF ServerApplies, ServerFull, ServerPut, ServerDelete
    <3>2. job'[d].stage = "sending"
      BY <1>0, <3>1 DEF Answer, JobIn
    <3>3. QED
      BY <3>2
  <2>2. ASSUME BatchResend(d) PROVE FALSE
    <3>1. job'[d].stage = "sending"
      BY <1>0, <2>2 DEF BatchResend, JobIn
    <3>2. QED
      BY <3>1
  <2>3. QED
    BY <2>1, <2>2
<1>9. ~(BatchAnswered(d) \/ BatchFails(d))
  <2>1. ASSUME BatchAnswered(d) PROVE FALSE
    <3>1. PICK fatal, hb, l :
           job' = [job EXCEPT ![d].stage = "uploading", ![d].hold_back = @ \cup hb,
              ![d].fatal = @ \/ fatal, ![d].uploads = IF fatal THEN <<>> ELSE @,
              ![d].left = @ \o l,
              ![d].ops = <<>>, ![d].results = <<>>, ![d].attempt = 0, ![d].landed = {}]
      BY <2>1 DEF BatchAnswered
    <3>2. job'[d].stage = "uploading"
      BY <1>0, <3>1 DEF JobIn
    <3>3. QED
      BY <3>2
  <2>2. ASSUME BatchFails(d) PROVE FALSE
    <3>1. PICK held : held = {job[d].ops[i].path : i \in DOMAIN job[d].ops}
      OBVIOUS
    <3>2. PICK fatal \in BOOLEAN :
           job' = [job EXCEPT ![d].stage = "uploading", ![d].hold_back = @ \cup held,
              ![d].fatal = @ \/ fatal, ![d].uploads = IF fatal THEN <<>> ELSE @,
              ![d].ops = <<>>, ![d].results = <<>>, ![d].attempt = 0, ![d].landed = {}]
      BY <2>2, <3>1 DEF BatchFails
    <3>3. job'[d].stage = "uploading"
      BY <1>0, <3>2 DEF JobIn
    <3>4. QED
      BY <3>3
  <2>3. QED
    BY <2>1, <2>2
<1>10. ~ResumePlan(d)
  BY DEF ResumePlan
<1>11. QED
  BY <1>1, <1>2, <1>3, <1>4, <1>5, <1>6, <1>7, <1>8, <1>9, <1>10 DEF Engine, Failure

\* A device that saves a checkpoint saves the server's rows.
SavesRows == \A d \in Devices :
    job[d].stage = "saving" => cache[d].manifest = rows /\ ~job[d].fatal

LEMMA SavesStep ==
    ASSUME ~EditMidCycle, ~ResumePlans, "KeepBoth" \notin UserChoices, BaseOK, JobsOK, EtagSound,
           Solo, SavesRows, NEW d \in Devices,
           \/ \E p \in Paths : Edit(d, p) \/ Restore(d, p) \/ EditIgnore(d, p)
           \/ Engine(d) \/ ResumePlan(d) \/ Failure(d) \/ Poll(d)
    PROVE  SavesRows'
<1>0. /\ cache \in [Devices -> Cache \cup {None}] /\ job \in [Devices -> JobIn(Paths)]
      /\ \A e \in Devices \ {d} : job'[e] = job[e]
  BY OthersKept DEF BaseOK, JobsOK
<1>1. ASSUME NEW e \in Devices \ {d}, job[e].stage = "saving"
      PROVE  cache'[e].manifest = rows' /\ ~job'[e].fatal
  <2>1. ~ServerApplies(d)
    BY <1>1 DEF ServerApplies, Solo
  <2>2. rows' = rows /\ (cache' = cache \/ RefreshCache(d))
    BY <2>1, ServerOrCache DEF serverVars, gateVars
  <2>3. cache'[e] = cache[e]
    BY <1>0, <2>2 DEF RefreshCache
  <2>4. QED
    BY <1>0, <1>1, <2>2, <2>3 DEF SavesRows
<1>2. ASSUME job'[d].stage = "saving" PROVE cache'[d].manifest = rows' /\ ~job'[d].fatal
  <2>1. CASE CheckpointFetch(d)
    <3>1. /\ cache' = [cache EXCEPT ![d] = [etag |-> rev, manifest |-> rows]] /\ rows' = rows
          /\ ~job[d].fatal /\ job' = [job EXCEPT ![d].stage = "saving"]
      BY <2>1, FetchedRows DEF CheckpointFetch, RefreshCache, serverVars, gateVars
    <3>2. cache'[d].manifest = rows /\ job'[d].fatal = job[d].fatal
      BY <1>0, <3>1 DEF JobIn
    <3>3. QED
      BY <3>1, <3>2
  <2>2. CASE job' = job
    <3>1. job[d].stage = "saving" /\ job'[d].stage # "sending"
      BY <1>2, <2>2
    <3>2. ~ServerApplies(d) /\ ~Poll(d) /\ ~FetchAndPlan(d)
      BY <3>1 DEF ServerApplies, Poll, FetchAndPlan
    <3>3. rows' = rows /\ (cache' = cache \/ RefreshCache(d))
      BY <3>2, ServerOrCache DEF serverVars, gateVars
    <3>4. cache' = cache \/ cache' = [cache EXCEPT ![d] = [etag |-> rev, manifest |-> rows]]
      BY <3>3, FetchedRows DEF RefreshCache
    <3>5. cache'[d].manifest = rows
      BY <1>0, <3>1, <3>4 DEF SavesRows
    <3>6. QED
      BY <2>2, <3>1, <3>3, <3>5 DEF SavesRows
  <2>3. QED
    BY <1>2, <2>1, <2>2, ToSaving
<1>3. QED
  BY <1>0, <1>1, <1>2 DEF SavesRows

\* Every device knows the versions of its checkpoint, ignored paths aside.
BaseKnown == \A d \in Devices : \A p \in Paths \ ignored[d] : Met(known[d], base[d], p)

InformedInv == \A d \in Devices : Informed(job[d], disk[d], known[d], rows, ignored[d])

\* The patterns of the devices only grow.
IgnoringMore == \A d \in Devices : ignored[d] \subseteq ignored'[d]

LEMMA BaseKnownStep ==
    ASSUME BaseOK, JobsOK, SavesRows, BaseKnown, InformedInv, IgnoringMore, NEW d \in Devices,
           \/ \E p \in Paths : Edit(d, p) \/ Restore(d, p) \/ EditIgnore(d, p)
           \/ Engine(d) \/ ResumePlan(d) \/ Failure(d) \/ Poll(d)
    PROVE  BaseKnown'
<1>0. base \in [Devices -> Manifests] /\ \A e \in Devices : More(known[e], known'[e])
  BY KnownGrows DEF BaseOK
<1>1. ASSUME NEW e \in Devices, base'[e] = base[e], NEW p \in Paths \ ignored'[e]
      PROVE  Met(known'[e], base'[e], p)
  <2>1. p \in Paths \ ignored[e]
    BY DEF IgnoringMore
  <2>2. Met(known[e], base[e], p)
    BY <2>1 DEF BaseKnown
  <2>3. QED
    BY <1>0, <1>1, <2>2 DEF Met, More
<1>2. CASE CheckpointSave(d)
  <2>1. /\ job[d].stage = "saving" /\ ignored' = ignored
        /\ base' = [base EXCEPT ![d] = checkpoint_manifest(base[d], rows, job[d].hold_back)]
    BY <1>2 DEF CheckpointSave, SavesRows
  <2>2. ASSUME NEW p \in Paths \ ignored[d] PROVE Met(known'[d], base'[d], p)
    <3>1. base'[d][p] = IF p \in job[d].hold_back THEN base[d][p] ELSE rows[p]
      BY <1>0, <2>1 DEF checkpoint_manifest
    <3>2. Met(known[d], base[d], p) /\ (p \in job[d].hold_back \/ Met(known[d], rows, p))
      <4>1. Informed(job[d], disk[d], known[d], rows, ignored[d]) /\ ~job[d].fatal
        BY <2>1 DEF InformedInv, SavesRows
      <4>2. job[d].fetches = {}
        BY <2>1, <4>1 DEF Informed, Planning
      <4>3. QED
        BY <2>1, <2>2, <4>1, <4>2 DEF Informed, Planning, BaseKnown
    <3>3. QED
      BY <1>0, <3>1, <3>2 DEF Met, More
  <2>3. ASSUME NEW e \in Devices, e # d, NEW p \in Paths \ ignored'[e]
        PROVE  Met(known'[e], base'[e], p)
    BY <1>0, <1>1, <2>1, <2>3
  <2>4. QED
    BY <2>1, <2>2, <2>3 DEF BaseKnown
<1>3. CASE ~CheckpointSave(d)
  <2>1. base' = base
    <3>1. CASE \/ \E p \in Paths : \/ Edit(d, p) \/ Restore(d, p) \/ DeleteLocal(d, p) \/ FetchOne(d, p)
               \/ \E choice \in UserChoices : Resolve(d, choice)
      BY <3>1, DiskStep
    <3>2. CASE Inner(d)
      BY <3>2, InnerStep
    <3>3. CASE (\E p \in Paths : EditIgnore(d, p)) \/ ServerApplies(d) \/ FetchAndPlan(d)
               \/ CheckpointFetch(d) \/ Poll(d) \/ BatchAnswered(d)
      BY <3>3 DEF EditIgnore, ServerApplies, FetchAndPlan, CheckpointFetch, Poll, BatchAnswered
    <3>4. QED
      BY <1>3, <3>1, <3>2, <3>3, StepKinds
  <2>2. QED
    BY <1>1, <2>1 DEF BaseKnown
<1>4. QED
  BY <1>2, <1>3


\* Why a device writes over no version that it has not met: one cycle at a
\* time, the content of every live row is there, and a device knows its files,
\* its checkpoint, its plan and, when it saves, the rows that it saves.
ClobberInv == Solo /\ LiveBodies /\ DiskKnown /\ BaseKnown /\ InformedInv /\ SavesRows

\* It holds at the start: the devices in sync have the content of every row,
\* those that join have no checkpoint.
LEMMA ClobberInit == Init => ClobberInv
<1> SUFFICES ASSUME Init PROVE ClobberInv
  OBVIOUS
<1>1. PICK files \in [Paths -> InitialFiles] :
        /\ rows = [p \in Paths |-> IF files[p] = None THEN None ELSE Live(HashOf[files[p]])]
        /\ body = files
        /\ disk = [d \in Devices |-> IF d \in Joining THEN [p \in Paths |-> None] ELSE files]
        /\ base = [d \in Devices |-> IF d \in Joining THEN EmptyManifest ELSE rows]
        /\ job = [d \in Devices |-> IdleJob]
        /\ known = [d \in Devices |->
                      [p \in Paths |-> {HashOf[c] : c \in {disk[d][p]} \ {None}}]]
  BY DEF Init
<1>2. files \in [Paths -> Contents \cup {None}]
  BY EngineAssumption
<1>3. IdleJob.stage = "idle" /\ \A d \in Devices : job[d] = IdleJob
  BY <1>1 DEF IdleJob
<1>4. ASSUME NEW p \in Paths, version(rows[p]) # None
      PROVE  body[p] # None /\ HashOf[body[p]] = rows[p].hash
  <2>1. CASE files[p] = None
    <3>1. version(rows[p]) = None
      BY <1>1, <2>1, SentinelAssumption DEF version
    <3>2. QED
      BY <1>4, <3>1
  <2>2. CASE files[p] # None
    <3>1. HashOf[files[p]] \in Hashes
      BY <1>2, <2>2, EngineAssumption
    <3>2. Live(HashOf[files[p]]).hash = HashOf[files[p]]
      BY DEF Live
    <3>3. QED
      BY <1>1, <2>2, <3>2
  <2>3. QED
    BY <2>1, <2>2
<1>5. DiskKnown
  BY <1>1 DEF DiskKnown
<1>6. ASSUME NEW d \in Devices, NEW p \in Paths PROVE Met(known[d], base[d], p)
  <2>1. CASE d \in Joining
    <3>1. version(base[d][p]) = None
      BY <1>1, <2>1, SentinelAssumption DEF EmptyManifest, version
    <3>2. QED
      BY <3>1 DEF Met
  <2>2. CASE d \notin Joining
    <3>1. base[d] = rows /\ disk[d] = files
      BY <1>1, <2>2
    <3>2. version(rows[p]) # None => disk[d][p] # None /\ HashOf[disk[d][p]] = rows[p].hash
      BY <1>1, <1>4, <3>1
    <3>3. disk[d][p] # None => HashOf[disk[d][p]] \in known[d][p]
      BY <1>5 DEF DiskKnown
    <3>4. QED
      BY <3>1, <3>2, <3>3 DEF Met
  <2>3. QED
    BY <2>1, <2>2
<1>7. InformedInv
  BY <1>3, IdleInformed DEF InformedInv
<1>8. QED
  BY <1>3, <1>4, <1>5, <1>6, <1>7 DEF ClobberInv, Solo, LiveBodies, BaseKnown, SavesRows

\* Every device stays informed: the one that the server answers wrote over a
\* row that it had met, and the others are in no cycle then.
LEMMA InformedStep ==
    ASSUME ~EditMidCycle, ~ResumePlans, "KeepBoth" \notin UserChoices, BaseOK, JobsOK, EtagSound,
           FaithfulInv, AimedInv, ClobberInv, NEW d \in Devices,
           \/ \E p \in Paths : Edit(d, p) \/ Restore(d, p) \/ EditIgnore(d, p)
           \/ Engine(d) \/ ResumePlan(d) \/ Failure(d) \/ Poll(d)
    PROVE  InformedInv' /\ LiveBodies'
<1>0. /\ \A e \in Devices : More(known[e], known'[e])
      /\ \A e \in Devices : job[e] \in JobIn(Paths) /\ JobSide(job[e])
      /\ \A e \in Devices : Informed(job[e], disk[e], known[e], rows, ignored[e])
      /\ Solo /\ LiveBodies /\ DiskKnown
  BY KnownGrows DEF JobsOK, ClobberInv, InformedInv
<1>1. CASE ServerApplies(d)
  <2>1. /\ \A p \in Paths : Met(known[d], rows, p) => Met(known[d], rows', p)
        /\ LiveBodies'
    BY <1>0, <1>1, ServerMet
  <2>2. disk' = disk /\ known' = known /\ ignored' = ignored /\ job[d].stage = "sending"
    BY <1>1 DEF ServerApplies, ServerPut, ServerDelete, Wrote
  <2>3. Informed(job'[d], disk'[d], known'[d], rows', ignored'[d])
    <3>1. PICK j, files, kn, tab, new, patterns :
             /\ j = job[d] /\ files = disk[d] /\ kn = known[d] /\ tab = rows /\ new = rows'
             /\ patterns = ignored[d] /\ j \in JobIn(Paths)
      BY <1>0
    <3>2. Informed(j, files, kn, tab, patterns) /\ More(kn, kn)
      BY <1>0, <3>1 DEF More
    <3>3. \A p \in Paths : Met(kn, tab, p) => Met(kn, new, p)
      BY <2>1, <3>1
    <3>4. Informed(j, files, kn, new, patterns)
      BY <3>1, <3>2, <3>3, InformedMore
    <3>5. Informed(job'[d], files, kn, new, patterns)
      BY <1>1, <3>1, <3>4, AnswerInformed
    <3>6. QED
      BY <2>2, <3>1, <3>5
  <2>4. ASSUME NEW e \in Devices, e # d
        PROVE  Informed(job'[e], disk'[e], known'[e], rows', ignored'[e])
    <3>1. job[e].stage = "idle"
      BY <1>0, <2>2, <2>4 DEF Solo
    <3>2. job[e] = IdleJob /\ job'[e] = job[e]
      BY <1>0, <2>4, <3>1, OthersKept DEF JobSide
    <3>3. QED
      BY <3>2, IdleInformed
  <2>5. QED
    BY <2>1, <2>3, <2>4 DEF InformedInv
<1>2. CASE ~ServerApplies(d)
  <2>1. rows' = rows /\ body' = body
    BY <1>2, ServerOrCache DEF serverVars, gateVars
  <2>2. LiveBodies'
    BY <1>0, <2>1 DEF LiveBodies
  <2>3. Informed(job'[d], disk'[d], known'[d], rows', ignored'[d])
    <3>1. OnePlan(job[d]) /\ Faithful(job[d], disk[d], base[d], ignored[d])
      BY DEF AimedInv, AimedJob, FaithfulInv
    <3>2. \A p \in Paths \ ignored[d] : Met(known[d], base[d], p)
      BY DEF ClobberInv, BaseKnown
    <3>3. Informed(job'[d], disk'[d], known'[d], rows, ignored'[d])
      BY <1>0, <1>2, <3>1, <3>2, InformedOwn
    <3>4. QED
      BY <2>1, <3>3
  <2>4. ASSUME NEW e \in Devices, e # d
        PROVE  Informed(job'[e], disk'[e], known'[e], rows', ignored'[e])
    <3>1. job'[e] = job[e] /\ disk'[e] = disk[e] /\ ignored'[e] = ignored[e]
      BY <2>4, OthersKept
    <3>2. PICK j, files, kn, now, patterns :
             /\ j = job[e] /\ files = disk[e] /\ kn = known[e] /\ now = known'[e]
             /\ patterns = ignored[e] /\ j \in JobIn(Paths)
      BY <1>0
    <3>3. Informed(j, files, kn, rows, patterns) /\ More(kn, now)
      BY <1>0, <3>2
    <3>4. \A p \in Paths : Met(kn, rows, p) => Met(now, rows, p)
      BY <3>3 DEF Met, More
    <3>5. Informed(j, files, now, rows, patterns)
      BY <3>2, <3>3, <3>4, InformedMore
    <3>6. QED
      BY <2>1, <3>1, <3>2, <3>5
  <2>5. QED
    BY <2>2, <2>3, <2>4 DEF InformedInv
<1>3. QED
  BY <1>1, <1>2

\* Every step keeps the invariant, as long as no pattern is lifted.
LEMMA ClobberStep ==
    ASSUME MaxActive <= 1, ~EditMidCycle, ~ResumePlans, "KeepBoth" \notin UserChoices
    PROVE  TypesInv /\ EtagSound /\ FaithfulInv /\ AimedInv /\ ClobberInv /\ [Next]_vars
             /\ [IgnoringMore]_vars => ClobberInv'
<1> SUFFICES ASSUME TypesInv, EtagSound, FaithfulInv, AimedInv, ClobberInv, [Next]_vars,
                    [IgnoringMore]_vars
             PROVE  ClobberInv'
  OBVIOUS
<1>1. CASE UNCHANGED vars
  BY <1>1 DEF vars, local, ghosts, serverVars, gateVars, ClobberInv, Solo, LiveBodies, DiskKnown,
              BaseKnown, InformedInv, SavesRows, Met
<1>2. CASE ~UNCHANGED vars
  <2>1. PICK d \in Devices :
           \/ \E p \in Paths : Edit(d, p) \/ Restore(d, p) \/ EditIgnore(d, p)
           \/ Engine(d) \/ ResumePlan(d) \/ Failure(d) \/ Poll(d)
    BY <1>2 DEF Next
  <2>2. BaseOK /\ JobsOK /\ IgnoringMore
    BY <1>2 DEF TypesInv
  <2>3. Solo /\ DiskKnown /\ BaseKnown /\ InformedInv /\ SavesRows
    BY DEF ClobberInv
  <2>4. Solo'
    BY <2>1, <2>2, <2>3, SoloStep
  <2>5. DiskKnown'
    BY <2>1, <2>2, <2>3, DiskKnownStep
  <2>6. BaseKnown'
    BY <2>1, <2>2, <2>3, BaseKnownStep
  <2>7. SavesRows'
    BY <2>1, <2>2, <2>3, SavesStep
  <2>8. InformedInv' /\ LiveBodies'
    BY <2>1, <2>2, InformedStep
  <2>9. QED
    BY <2>4, <2>5, <2>6, <2>7, <2>8 DEF ClobberInv
<1>3. QED
  BY <1>1, <1>2

\* A row changes only to a write of a device that had met it.
LEMMA ClobberAction ==
    TypesInv /\ ClobberInv /\ [Next]_vars =>
        [\A p \in Paths : rows'[p] # rows[p] /\ version(rows[p]) # None =>
          known[writer'[p]][p] \cap {rows[p].hash, HashOf[body[p]]} # {}]_vars
<1> SUFFICES ASSUME TypesInv, ClobberInv, Next, NEW p \in Paths, rows'[p] # rows[p],
                    version(rows[p]) # None
             PROVE  known[writer'[p]][p] \cap {rows[p].hash, HashOf[body[p]]} # {}
  BY DEF vars, serverVars, gateVars
<1>1. PICK d \in Devices :
         \/ \E q \in Paths : Edit(d, q) \/ Restore(d, q) \/ EditIgnore(d, q)
         \/ Engine(d) \/ ResumePlan(d) \/ Failure(d) \/ Poll(d)
  BY DEF Next
<1>2. BaseOK /\ JobsOK /\ LiveBodies /\ Informed(job[d], disk[d], known[d], rows, ignored[d])
  BY DEF TypesInv, ClobberInv, InformedInv
<1>3. ServerApplies(d)
  BY <1>1, <1>2, ServerOrCache DEF serverVars, gateVars
<1>4. writer'[p] = d /\ Met(known[d], rows, p)
  BY <1>2, <1>3, ServerMet
<1>5. QED
  BY <1>4 DEF Met

\* No silent clobber: a device replaces or deletes a live server version only
\* if it has had that version on disk or has shown it to its user (the parent
\* of an upload, write_file's gate; the late conflicts of run_uploads; the
\* checkpoint's held-back paths; downloads that fail or find no blob; batches
\* sent again).  The hypotheses are what the engine needs from outside: cycles
\* do not overlap (the manifest that a checkpoint is made of has then no row
\* that the plan did not see), the user edits between cycles (the hash of an
\* upload is then that of the bytes sent), answers conflicts in the cycle that
\* found them, and lifts no ignore pattern (the checkpoint has rows of ignored
\* paths that the device never fetched); the property fails without any one of
\* these.  That no conflict copy is asked for is what the argument through
\* FaithfulInv and AimedInv needs, which do not cover the copy's file.
THEOREM ClobberFree ==
    ASSUME MaxActive <= 1, ~EditMidCycle, ~ResumePlans, "KeepBoth" \notin UserChoices
    PROVE  Spec /\ [][IgnoringMore]_vars => NoSilentClobber
<1>1. Spec => []FaithfulInv
  BY FaithfulAlways
<1>2. Spec => []AimedInv
  BY AimedAlways
<1>3. TypesInv /\ EtagSound /\ FaithfulInv /\ AimedInv /\ ClobberInv /\ [Next]_vars
        /\ [IgnoringMore]_vars => ClobberInv'
  BY ClobberStep
<1>4. QED
  BY <1>1, <1>2, <1>3, ClobberInit, ClobberAction, TypesAlways, EtagKept, PTL
     DEF Spec, NoSilentClobber

-----------------------------------------------------------------------------
(* Planned conflicts                                                       *)

\* A list has the path p at most once, or not at all.
Once(s, p) == \A i, k \in DOMAIN s : s[i].path = p /\ s[k].path = p => i = k

Free(s, p) == \A i \in DOMAIN s : s[i].path # p

\* A cycle has nothing to do for p.
Spared(j, p) == Free(j.conflicts, p) /\ Free(j.uploads, p) /\ Free(j.ops, p)

\* A cycle has one plan for p.  It has none for a path that it holds back or has
\* still to fetch, and it holds back what it leaves to the user.
Single(j, p) ==
    /\ Once(j.conflicts, p) /\ Once(j.uploads, p) /\ Once(j.ops, p) /\ Once(j.left, p)
    /\ ~Free(j.conflicts, p) => Free(j.uploads, p) /\ Free(j.ops, p)
    /\ ~Free(j.uploads, p) => Free(j.ops, p)
    /\ p \in j.hold_back \cup j.fetches => Spared(j, p)
    /\ ~Free(j.left, p) => p \in j.hold_back
    /\ j.stage = "walked" => j.ops = <<>> /\ j.hold_back = {} /\ j.left = <<>>

\* A cycle that has written p and will move its checkpoint past it.
Underway(j, p) ==
    /\ j.stage \in {"uploading", "sending", "saving"} /\ p \notin j.hold_back
    /\ Free(j.conflicts, p) /\ Free(j.uploads, p)
    /\ \A i \in DOMAIN j.ops : j.ops[i].path = p =>
          i \in DOMAIN j.results /\ j.results[i].status = "200"

\* A row that d wrote last is in its checkpoint b, or will be when the cycle j
\* ends; the manifest that the checkpoint will be made of has it.
Owned(d, j, b, held, tab, wr, p) ==
    wr[p] = d => /\ b[p] = tab[p] \/ Underway(j, p)
                 /\ j.stage = "saving" => held.manifest[p] = tab[p]

Unfailed(j) == ~j.fatal /\ \A i \in DOMAIN j.results : j.results[i].status # "507"

\* Conflict copies aside, every device has one plan for a path, in its cycle and
\* in what it keeps, and the rows it wrote last in its checkpoint.
OwnInv == \A d \in Devices :
    /\ Unfailed(job[d])
    /\ \A p \in Paths \ Copies :
          /\ Single(job[d], p) /\ Once(pending[d], p)
          /\ Owned(d, job[d], base[d], cache[d], rows, writer, p)

LEMMA EmptyFree == ASSUME NEW p PROVE Once(<<>>, p) /\ Free(<<>>, p)
BY DEF Once, Free

\* Two lists, one after the other.
LEMMA ConcatFree ==
    ASSUME NEW A, NEW s \in Seq(A), NEW t \in Seq(A), NEW p
    PROVE  /\ Free(s \o t, p) <=> Free(s, p) /\ Free(t, p)
           /\ Once(s, p) /\ Free(t, p) => Once(s \o t, p)
           /\ Free(s, p) /\ Once(t, p) => Once(s \o t, p)
<1>1. PICK m, n, u : m = Len(s) /\ n = Len(t) /\ u = s \o t
  OBVIOUS
<1>2. /\ m \in Nat /\ n \in Nat /\ DOMAIN s = 1..m /\ DOMAIN t = 1..n /\ DOMAIN u = 1..(m + n)
      /\ \A i \in 1..(m + n) : u[i] = IF i <= m THEN s[i] ELSE t[i - m]
  BY <1>1, ConcatProperties, LenProperties
<1>3. /\ \A i \in DOMAIN s : i \in DOMAIN u /\ u[i] = s[i]
      /\ \A i \in DOMAIN t : i + m \in DOMAIN u /\ u[i + m] = t[i]
      /\ \A i \in DOMAIN u : \/ i \in DOMAIN s /\ u[i] = s[i]
                             \/ i - m \in DOMAIN t /\ u[i] = t[i - m]
  BY <1>2
<1>4. Free(u, p) <=> Free(s, p) /\ Free(t, p)
  BY <1>3 DEF Free
<1>5. Once(s, p) /\ Free(t, p) => Once(u, p)
  BY <1>3 DEF Free, Once
<1>6. Free(s, p) /\ Once(t, p) => Once(u, p)
  <2> SUFFICES ASSUME Free(s, p), Once(t, p), NEW i \in DOMAIN u, NEW k \in DOMAIN u,
                      u[i].path = p, u[k].path = p
               PROVE  i = k
    BY DEF Once
  <2>1. /\ i - m \in DOMAIN t /\ k - m \in DOMAIN t
        /\ t[i - m].path = p /\ t[k - m].path = p
    BY <1>3 DEF Free
  <2>2. i - m = k - m
    BY <2>1 DEF Once
  <2>3. QED
    BY <1>2, <2>2
<1>7. QED
  BY <1>1, <1>4, <1>5, <1>6

\* A list without its first element.
LEMMA TailFree ==
    ASSUME NEW A, NEW s \in Seq(A), s # <<>>, NEW p
    PROVE  /\ Once(s, p) => Once(Tail(s), p)
           /\ Free(s, p) => Free(Tail(s), p) /\ Head(s).path # p
           /\ Once(s, p) /\ Head(s).path = p => Free(Tail(s), p)
<1>1. PICK m, t : m = Len(s) /\ t = Tail(s)
  OBVIOUS
<1>2. /\ m \in Nat /\ m > 0 /\ DOMAIN s = 1..m /\ DOMAIN t = 1..(m - 1)
      /\ \A i \in 1..(m - 1) : t[i] = s[i + 1]
      /\ Head(s) = s[1]
  BY <1>1
<1>3. 1 \in DOMAIN s /\ \A i \in DOMAIN t : i + 1 \in DOMAIN s /\ t[i] = s[i + 1] /\ i + 1 # 1
  BY <1>2
<1>4. Free(s, p) => Free(t, p) /\ Head(s).path # p
  BY <1>2, <1>3 DEF Free
<1>5. Once(s, p) /\ Head(s).path = p => Free(t, p)
  <2> SUFFICES ASSUME Once(s, p), s[1].path = p, NEW i \in DOMAIN t, t[i].path = p
               PROVE  FALSE
    BY <1>2 DEF Free
  <2>1. i + 1 = 1
    BY <1>3 DEF Once
  <2>2. QED
    BY <1>3, <2>1
<1>6. Once(s, p) => Once(t, p)
  <2> SUFFICES ASSUME Once(s, p), NEW i \in DOMAIN t, NEW k \in DOMAIN t,
                      t[i].path = p, t[k].path = p
               PROVE  i = k
    BY DEF Once
  <2>1. i + 1 = k + 1
    BY <1>3 DEF Once
  <2>2. QED
    BY <1>2, <2>1
<1>7. QED
  BY <1>1, <1>4, <1>5, <1>6

\* No plan, one plan.
LEMMA SingleIdle == ASSUME NEW p PROVE Single(IdleJob, p)
<1>1. /\ IdleJob.conflicts = <<>> /\ IdleJob.uploads = <<>> /\ IdleJob.ops = <<>>
      /\ IdleJob.left = <<>> /\ IdleJob.hold_back = {} /\ IdleJob.fetches = {}
  BY DEF IdleJob
<1>2. QED
  BY <1>1, EmptyFree DEF Single

\* The same lists, with a path held back that was to be fetched.
LEMMA SingleSame ==
    ASSUME NEW j, NEW k, NEW p, Single(j, p), k.stage # "walked",
           k.conflicts = j.conflicts, k.uploads = j.uploads, k.ops = j.ops, k.left = j.left,
           k.fetches \subseteq j.fetches, j.hold_back \subseteq k.hold_back,
           k.hold_back \subseteq j.hold_back \cup j.fetches
    PROVE  Single(k, p)
BY DEF Single, Spared

\* A batch is cut.
LEMMA SingleCut ==
    ASSUME NEW d, NEW j \in JobIn(Paths), NEW k, NEW n, NEW at, Cut(d, j, k, n, at),
           NEW p, Single(j, p)
    PROVE  Single(k, p)
<1>1. PICK us, os, m : us = j.uploads /\ os = k.ops /\ m = Len(us)
  OBVIOUS
<1>2. us \in Seq(WriteIn(Paths)) /\ m \in Nat /\ DOMAIN us = 1..m /\ n \in Nat /\ n <= m
  BY <1>1, JobLists, LenProperties DEF Cut
<1>3. PICK rest : rest = SubSeq(us, n + 1, m)
  OBVIOUS
<1>4. /\ \A i \in DOMAIN rest : i + n \in DOMAIN us /\ rest[i] = us[i + n] /\ i + n > n
      /\ \A i \in 1..n : i \in DOMAIN us /\ i <= n
  BY <1>2, <1>3
<1>a. \A u : prepare_batch_op(d, u).path = u.path
  BY DEF prepare_batch_op
<1>b. /\ at \in [DOMAIN os -> 1..n] /\ \A l, i \in DOMAIN os : l # i => at[l] # at[i]
      /\ \A i \in DOMAIN os : /\ os[i] = prepare_batch_op(d, us[at[i]])
                              /\ us[at[i]].kind = "Upload" => disk[d][us[at[i]].path] # None
  BY <1>1 DEF Cut
<1>5. /\ at \in [DOMAIN os -> 1..n] /\ \A l, i \in DOMAIN os : l # i => at[l] # at[i]
      /\ \A i \in DOMAIN os : /\ os[i].path = us[at[i]].path
                              /\ us[at[i]].kind = "Upload" => disk[d][us[at[i]].path] # None
  BY <1>a, <1>b
<1>6. /\ k.conflicts = j.conflicts /\ k.fetches = j.fetches /\ k.left = j.left
      /\ k.uploads = rest /\ j.hold_back \subseteq k.hold_back /\ k.stage # "walked"
      /\ \A q \in k.hold_back \ j.hold_back : \E i \in 1..n :
            us[i].path = q /\ us[i].kind = "Upload" /\ disk[d][q] = None
  BY <1>1, <1>3 DEF Cut
<1>7. Once(us, p)
  BY <1>1 DEF Single
<1>8. Once(rest, p)
  <2> SUFFICES ASSUME NEW i \in DOMAIN rest, NEW l \in DOMAIN rest,
                      rest[i].path = p, rest[l].path = p
               PROVE  i = l
    BY DEF Once
  <2>1. i + n = l + n /\ i \in Int /\ l \in Int
    BY <1>2, <1>3, <1>4, <1>7 DEF Once
  <2>2. QED
    BY <1>2, <2>1
<1>9. Once(os, p)
  <2> SUFFICES ASSUME NEW i \in DOMAIN os, NEW l \in DOMAIN os, os[i].path = p, os[l].path = p
               PROVE  i = l
    BY DEF Once
  <2>1. at[i] \in DOMAIN us /\ at[l] \in DOMAIN us
    BY <1>4, <1>5
  <2>2. QED
    BY <1>5, <1>7, <2>1 DEF Once
<1>10. Free(us, p) => Free(rest, p) /\ Free(os, p)
  BY <1>4, <1>5 DEF Free
<1>11. ~Free(rest, p) => Free(os, p)
  <2> SUFFICES ASSUME NEW i \in DOMAIN rest, rest[i].path = p, NEW l \in DOMAIN os, os[l].path = p
               PROVE  FALSE
    BY DEF Free
  <2>1. at[l] \in DOMAIN us /\ at[l] <= n /\ i + n \in DOMAIN us /\ i + n > n
    BY <1>4, <1>5
  <2>2. at[l] = i + n
    BY <1>4, <1>5, <1>7, <2>1 DEF Once
  <2>3. QED
    BY <1>2, <2>1, <2>2
<1>12. ASSUME p \in k.hold_back \ j.hold_back
       PROVE  ~Free(us, p) /\ Free(rest, p) /\ Free(os, p)
  <2>1. PICK i \in 1..n : us[i].path = p /\ us[i].kind = "Upload" /\ disk[d][p] = None
    BY <1>6, <1>12
  <2>2. ~Free(us, p)
    BY <1>4, <2>1 DEF Free
  <2>3. Free(rest, p)
    <3> SUFFICES ASSUME NEW l \in DOMAIN rest, rest[l].path = p PROVE FALSE
      BY DEF Free
    <3>1. l + n = i /\ i <= n /\ l + n > n
      BY <1>4, <1>7, <2>1 DEF Once
    <3>2. QED
      BY <1>2, <3>1
  <2>4. Free(os, p)
    <3> SUFFICES ASSUME NEW l \in DOMAIN os, os[l].path = p PROVE FALSE
      BY DEF Free
    <3>1. at[l] = i
      BY <1>4, <1>5, <1>7, <2>1 DEF Once
    <3>2. QED
      BY <1>5, <2>1, <3>1
  <2>5. QED
    BY <2>2, <2>3, <2>4
<1>13. QED
  BY <1>1, <1>6, <1>8, <1>9, <1>10, <1>11, <1>12 DEF Single, Spared

\* The first conflict of a cycle is decided: it becomes a write, perhaps with
\* one of a conflict copy, is left to the user, or is gone.
Decides(j, k, us, de) ==
    /\ j.conflicts # <<>> /\ k.conflicts = Tail(j.conflicts)
    /\ us \in Seq(WriteIn(Paths)) /\ de \in Seq(ConflictIn(Paths))
    /\ k.uploads = j.uploads \o us /\ k.left = j.left \o de
    /\ k.hold_back = j.hold_back \cup {de[i].path : i \in DOMAIN de}
    /\ k.ops = j.ops /\ k.results = j.results /\ k.fatal = j.fatal /\ k.fetches = j.fetches
    /\ k.stage \in {"uploading", "resolving"}
    /\ \/ us = <<>> /\ de = <<>>
       \/ us = <<>> /\ de = <<Head(j.conflicts)>>
       \/ us = <<conflict_to_upload(Head(j.conflicts))>> /\ de = <<>>
       \/ de = <<>> /\ \E c : c.path \in Copies /\ us = <<conflict_to_upload(Head(j.conflicts)), c>>

\* A choice does, or ends the cycle with an error.
LEMMA ResolveDecides ==
    ASSUME BaseOK, JobsOK, NEW d \in Devices, NEW choice \in UserChoices, Resolve(d, choice)
    PROVE  job'[d] = IdleJob \/ \E us, de : Decides(job[d], job'[d], us, de)
<1>1. PICK j : j = job[d]
  OBVIOUS
<1>2. /\ job \in [Devices -> JobIn(Paths)] /\ j \in JobIn(Paths) /\ j.stage = "resolving"
      /\ j.conflicts # <<>> /\ j.conflicts \in Seq(ConflictIn(Paths))
  BY <1>1 DEF JobsOK, JobSide, JobIn, Resolve
<1>3. PICK c \in ConflictIn(Paths) : c = Head(j.conflicts)
  BY <1>2, HeadTailProperties
<1>4. PICK u \in WriteIn(Paths) : u = conflict_to_upload(c)
  BY ConflictWrites
<1>5. /\ <<>> \in Seq(WriteIn(Paths)) /\ <<>> \in Seq(ConflictIn(Paths))
      /\ <<u>> \in Seq(WriteIn(Paths)) /\ <<c>> \in Seq(ConflictIn(Paths))
  OBVIOUS
<1>6. \/ job' = Resolved(d, <<>>, <<c>>)
      \/ job' = Resolved(d, <<u>>, <<>>)
      \/ KeepRemote(d, c)
      \/ KeepBoth(d, c) /\ c.path \in DOMAIN CopyOf
  BY <1>1, <1>3, <1>4 DEF Resolve, effective_choice
<1>7. ASSUME NEW us \in Seq(WriteIn(Paths)), NEW de \in Seq(ConflictIn(Paths)),
             job' = Resolved(d, us, de),
             \/ us = <<>> /\ de = <<>>
             \/ us = <<>> /\ de = <<c>>
             \/ us = <<u>> /\ de = <<>>
             \/ de = <<>> /\ \E v : v.path \in Copies /\ us = <<u, v>>
      PROVE  Decides(job[d], job'[d], us, de)
  <2>1. PICK k : k = job'[d]
    OBVIOUS
  <2>2. /\ k.conflicts = Tail(j.conflicts) /\ k.uploads = j.uploads \o us /\ k.left = j.left \o de
        /\ k.hold_back = j.hold_back \cup {de[i].path : i \in DOMAIN de}
        /\ k.ops = j.ops /\ k.results = j.results /\ k.fatal = j.fatal /\ k.fetches = j.fetches
        /\ k.stage = AfterDownloads(Tail(j.conflicts))
    BY <1>1, <1>2, <1>7, <2>1 DEF Resolved, JobIn
  <2>3. k.stage \in {"uploading", "resolving"}
    BY <2>2 DEF AfterDownloads
  <2>4. Decides(j, k, us, de)
    BY <1>2, <1>3, <1>4, <1>7, <2>2, <2>3 DEF Decides
  <2>5. QED
    BY <1>1, <2>1, <2>4
<1>8. CASE job' = Resolved(d, <<>>, <<c>>) \/ job' = Resolved(d, <<u>>, <<>>)
  BY <1>5, <1>7, <1>8
<1>9. CASE KeepRemote(d, c)
  <2>1. job' = Resolved(d, <<>>, <<>>) \/ job' = [job EXCEPT ![d] = IdleJob]
    BY <1>9 DEF KeepRemote
  <2>2. QED
    BY <1>2, <1>5, <1>7, <2>1
<1>10. CASE KeepBoth(d, c) /\ c.path \in DOMAIN CopyOf
  <2>1. CASE get_file(c.path) = None
    BY <1>2, <1>10, <2>1 DEF KeepBoth
  <2>2. CASE get_file(c.path) # None
    <3>1. PICK v : v = action(CopyOf[c.path], "Upload", Live(HashOf[get_file(c.path)]), None)
      OBVIOUS
    <3>2. v \in WriteIn(Paths) /\ v.path \in Copies
      <4>1. Copies \subseteq Paths /\ CopyOf[c.path] \in Copies
        BY <1>10, EngineAssumption DEF Copies
      <4>2. QED
        BY <1>10, <2>2, <3>1, <4>1, ConflictWrites DEF action
    <3>3. job' = Resolved(d, <<u, v>>, <<>>)
      BY <1>4, <1>10, <2>2, <3>1 DEF KeepBoth
    <3>4. <<u, v>> \in Seq(WriteIn(Paths))
      BY <3>2
    <3>5. PICK us : us = <<u, v>>
      OBVIOUS
    <3>6. Decides(job[d], job'[d], us, <<>>)
      BY <1>5, <1>7, <3>2, <3>3, <3>4, <3>5
    <3>7. QED
      BY <3>6
  <2>3. QED
    BY <2>1, <2>2
<1>11. QED
  BY <1>6, <1>8, <1>9, <1>10

LEMMA SingleDecides ==
    ASSUME NEW j \in JobIn(Paths), NEW k, NEW us, NEW de, Decides(j, k, us, de),
           NEW p, p \notin Copies, Single(j, p)
    PROVE  Single(k, p)
<1>1. PICK cs, ts, c : cs = j.conflicts /\ ts = Tail(cs) /\ c = Head(cs)
  OBVIOUS
<1>2. /\ cs # <<>> /\ cs \in Seq(ConflictIn(Paths)) /\ j.uploads \in Seq(WriteIn(Paths))
      /\ j.left \in Seq(ConflictIn(Paths))
      /\ us \in Seq(WriteIn(Paths)) /\ de \in Seq(ConflictIn(Paths))
  BY <1>1 DEF Decides, JobIn
<1>3. /\ Once(cs, p) => Once(ts, p)
      /\ Free(cs, p) => Free(ts, p) /\ c.path # p
      /\ Once(cs, p) /\ c.path = p => Free(ts, p)
  BY <1>1, <1>2, TailFree
<1>4. /\ Free(k.uploads, p) <=> Free(j.uploads, p) /\ Free(us, p)
      /\ Once(j.uploads, p) /\ Free(us, p) => Once(k.uploads, p)
      /\ Free(j.uploads, p) /\ Once(us, p) => Once(k.uploads, p)
  BY <1>2, ConcatFree DEF Decides
<1>5. /\ Free(k.left, p) <=> Free(j.left, p) /\ Free(de, p)
      /\ Once(j.left, p) /\ Free(de, p) => Once(k.left, p)
      /\ Free(j.left, p) /\ Once(de, p) => Once(k.left, p)
  BY <1>2, ConcatFree DEF Decides
<1>a. conflict_to_upload(c).path = c.path
  BY DEF conflict_to_upload, action
<1>6. PICK u : u = conflict_to_upload(c) /\ u.path = c.path
  BY <1>a
<1>7. /\ k.conflicts = ts /\ k.ops = j.ops /\ k.fetches = j.fetches /\ k.stage # "walked"
      /\ k.hold_back = j.hold_back \cup {de[i].path : i \in DOMAIN de}
  BY <1>1 DEF Decides
<1>8. \/ us = <<>> /\ de = <<>>
      \/ us = <<>> /\ de = <<c>>
      \/ us = <<u>> /\ de = <<>>
      \/ de = <<>> /\ \E v : v.path \in Copies /\ us = <<u, v>>
  BY <1>1, <1>6 DEF Decides
<1> DEFINE Goal ==
               /\ Once(us, p) /\ Once(de, p) /\ (c.path # p => Free(us, p) /\ Free(de, p))
               /\ (Free(us, p) \/ Free(de, p))
               /\ (~Free(us, p) => p \notin {de[i].path : i \in DOMAIN de})
               /\ (~Free(de, p) => p \in {de[i].path : i \in DOMAIN de})
               /\ (p \in {de[i].path : i \in DOMAIN de} => c.path = p /\ Free(us, p))
<1>9. Goal
  <2>1. CASE us = <<>> /\ de = <<>>
    BY <2>1 DEF Once, Free
  <2>2. CASE us = <<>> /\ de = <<c>>
    BY <2>2 DEF Once, Free
  <2>3. CASE us = <<u>> /\ de = <<>>
    BY <1>6, <2>3 DEF Once, Free
  <2>4. ASSUME NEW v, v.path \in Copies, us = <<u, v>>, de = <<>> PROVE Goal
    BY <1>6, <2>4 DEF Once, Free
  <2>5. QED
    BY <1>8, <2>1, <2>2, <2>3, <2>4
<1>10. CASE c.path # p
  BY <1>1, <1>3, <1>4, <1>5, <1>7, <1>9, <1>10 DEF Single, Spared
<1>11. CASE c.path = p
  <2>1. /\ Free(ts, p) /\ Free(j.uploads, p) /\ Free(j.ops, p) /\ Free(j.left, p)
        /\ p \notin j.hold_back /\ p \notin j.fetches /\ Once(j.ops, p)
    BY <1>1, <1>3, <1>11 DEF Single, Spared
  <2>2. Once(ts, p)
    BY <2>1 DEF Once, Free
  <2>3. QED
    BY <1>4, <1>5, <1>7, <1>9, <2>1, <2>2 DEF Single, Spared
<1>12. QED
  BY <1>10, <1>11

\* The late conflicts of a batch are of operations that were answered 409.
LEMMA LatePaths ==
    ASSUME JobsOK, NEW d \in Devices, NEW p, Once(job[d].ops, p)
    PROVE  /\ Once(LateConflicts(d), p)
           /\ \A n \in DOMAIN LateConflicts(d) : LateConflicts(d)[n].path \in Answered(d, {"409"})
<1> DEFINE j == job[d]
           S == {i \in DOMAIN j.results : j.results[i].status = "409"}
           hits == Ascending(S)
           conflict(i) == action(j.ops[i].path, "Conflict",
                              [hash |-> j.ops[i].hash, deleted |-> j.ops[i].kind = "DeleteRemote"],
                              j.results[i].current)
           late == LateConflicts(d)
<1>1. PICK n \in Nat : DOMAIN j.results = 1..n /\ DOMAIN j.results \subseteq DOMAIN j.ops
  <2>1. /\ j.results \in Seq(Verdict) /\ j.ops \in Seq(OpIn(Paths)) /\ Len(j.results) <= Len(j.ops)
        /\ Len(j.results) \in Nat /\ Len(j.ops) \in Nat
    BY DEF JobsOK, JobIn, JobSide
  <2>2. QED
    BY <2>1
<1>2. S \in SUBSET (1..n)
  BY <1>1
<1>3. IsFiniteSet(1..n) /\ 1..n \subseteq Nat
  BY FS_Interval
<1>4. late = [i \in DOMAIN hits |-> conflict(hits[i])]
  BY DEF LateConflicts
<1>5. \A i \in S : i \in DOMAIN j.ops /\ j.ops[i].path \in Answered(d, {"409"})
  BY <1>1 DEF Answered
<1>6. \A i : conflict(i).path = j.ops[i].path
  BY DEF action
<1> HIDE DEF S, conflict, late
<1>7. S \in SUBSET Nat /\ IsFiniteSet(S)
  BY <1>2, <1>3, FS_Subset
<1>8. /\ hits \in Seq(S) /\ DOMAIN hits = 1..Cardinality(S) /\ Cardinality(S) \in Nat
      /\ \A i, k \in DOMAIN hits : i # k => hits[i] # hits[k]
  BY <1>7, AscendingList
<1> HIDE DEF hits
<1>9. \A i \in DOMAIN hits : hits[i] \in S
  BY <1>8
<1>10. DOMAIN late = DOMAIN hits /\ \A i \in DOMAIN hits : late[i].path = j.ops[hits[i]].path
  BY <1>4, <1>6
<1>11. \A i \in DOMAIN late : late[i].path \in Answered(d, {"409"})
  BY <1>5, <1>9, <1>10
<1>12. Once(late, p)
  <2> SUFFICES ASSUME NEW i \in DOMAIN late, NEW k \in DOMAIN late, late[i].path = p, late[k].path = p
               PROVE  i = k
    BY DEF Once
  <2>1. hits[i] \in DOMAIN j.ops /\ hits[k] \in DOMAIN j.ops
    BY <1>5, <1>9, <1>10
  <2>2. hits[i] = hits[k]
    BY <1>10, <2>1 DEF Once
  <2>3. QED
    BY <1>8, <1>10, <2>2
<1>13. QED
  BY <1>11, <1>12 DEF late

\* The answer of a batch without a fatal result.
LEMMA BatchReturns ==
    ASSUME JobsOK, NEW d \in Devices, BatchAnswered(d), Unfailed(job[d])
    PROVE  /\ job'[d].stage = "uploading" /\ job'[d].conflicts = job[d].conflicts
           /\ job'[d].uploads = job[d].uploads /\ job'[d].fetches = job[d].fetches
           /\ job'[d].ops = <<>> /\ job'[d].results = <<>> /\ ~job'[d].fatal
           /\ job'[d].left = job[d].left \o LateConflicts(d)
           /\ job'[d].hold_back = job[d].hold_back \cup Answered(d, {"409", "413", "507"})
<1>1. job \in [Devices -> JobIn(Paths)] /\ job[d] \in JobIn(Paths)
  BY DEF JobsOK
<1>2. Answered(d, {"507"}) = {}
  BY DEF Answered, Unfailed
<1>3. PICK held, late : held = Answered(d, {"409", "413", "507"}) /\ late = LateConflicts(d)
  OBVIOUS
<1>4. job' = [job EXCEPT ![d].stage = "uploading", ![d].hold_back = @ \cup held,
              ![d].fatal = @ \/ FALSE, ![d].uploads = @, ![d].left = @ \o late,
              ![d].ops = <<>>, ![d].results = <<>>, ![d].attempt = 0, ![d].landed = {}]
  BY <1>2, <1>3 DEF BatchAnswered
<1>5. PICK f : f = (job[d].fatal \/ FALSE) /\ ~f
  BY DEF Unfailed
<1>6. job' = [job EXCEPT ![d].stage = "uploading", ![d].hold_back = @ \cup held,
              ![d].fatal = f, ![d].uploads = @, ![d].left = @ \o late,
              ![d].ops = <<>>, ![d].results = <<>>, ![d].attempt = 0, ![d].landed = {}]
  BY <1>4, <1>5
<1>7. /\ job'[d].stage = "uploading" /\ job'[d].conflicts = job[d].conflicts
      /\ job'[d].uploads = job[d].uploads /\ job'[d].fetches = job[d].fetches
      /\ job'[d].ops = <<>> /\ job'[d].results = <<>> /\ job'[d].fatal = f
      /\ job'[d].left = job[d].left \o late /\ job'[d].hold_back = job[d].hold_back \cup held
  BY <1>1, <1>6 DEF JobIn
<1>8. QED
  BY <1>3, <1>5, <1>7

LEMMA SingleAnswered ==
    ASSUME JobsOK, NEW d \in Devices, BatchAnswered(d), Unfailed(job[d]), NEW p, Single(job[d], p)
    PROVE  Single(job'[d], p)
<1>1. PICK j, k, late, held :
         /\ j = job[d] /\ k = job'[d] /\ late = LateConflicts(d)
         /\ held = Answered(d, {"409", "413", "507"})
  OBVIOUS
<1>2. /\ k.stage = "uploading" /\ k.conflicts = j.conflicts /\ k.uploads = j.uploads
      /\ k.fetches = j.fetches /\ k.ops = <<>> /\ k.left = j.left \o late
      /\ k.hold_back = j.hold_back \cup held
  BY <1>1, BatchReturns
<1>3. Once(late, p) /\ \A n \in DOMAIN late : late[n].path \in held
  <2>1. Once(late, p) /\ \A n \in DOMAIN late : late[n].path \in Answered(d, {"409"})
    BY <1>1, LatePaths DEF Single
  <2>2. Answered(d, {"409"}) \subseteq held
    BY <1>1 DEF Answered
  <2>3. QED
    BY <2>1, <2>2
<1>4. p \in held => ~Free(j.ops, p)
  <2>1. DOMAIN j.results \subseteq DOMAIN j.ops
    <3>1. /\ j.results \in Seq(Verdict) /\ j.ops \in Seq(OpIn(Paths)) /\ Len(j.results) <= Len(j.ops)
          /\ Len(j.results) \in Nat /\ Len(j.ops) \in Nat
      BY <1>1 DEF JobsOK, JobIn, JobSide
    <3>2. QED
      BY <3>1
  <2>2. QED
    BY <1>1, <2>1 DEF Answered, Free
<1>5. j.left \in Seq(ConflictIn(Paths)) /\ late \in Seq(ConflictIn(Paths))
  <2>1. InJob(d, Paths)
    BY EngineAssumption DEF InJob, JobsOK, Copies
  <2>2. QED
    BY <1>1, <2>1, LateTypes DEF JobsOK, JobIn
<1>6. /\ Free(k.left, p) <=> Free(j.left, p) /\ Free(late, p)
      /\ Once(j.left, p) /\ Free(late, p) => Once(k.left, p)
      /\ Free(j.left, p) /\ Once(late, p) => Once(k.left, p)
  BY <1>2, <1>5, ConcatFree
<1>7. ~Free(late, p) => p \in held
  BY <1>3 DEF Free
<1>8. Once(k.ops, p) /\ Free(k.ops, p)
  BY <1>2, EmptyFree
<1>9. Single(j, p)
  BY <1>1
<1>10. Single(k, p)
  BY <1>2, <1>3, <1>4, <1>6, <1>7, <1>8, <1>9 DEF Single, Spared
<1>11. QED
  BY <1>1, <1>10

\* A fresh plan: a list of conflicts, a list of writes and a set of fetches, for
\* different paths; a conflict is about a row that is not the checkpoint's.
LEMMA PlanLists ==
    ASSUME BaseOK, JobsOK, EtagSound, NEW d \in Devices, FetchAndPlan(d)
    PROVE  /\ job'[d].stage = "downloading" /\ job'[d].ops = job[d].ops
           /\ job'[d].left = job[d].left /\ job'[d].hold_back = job[d].hold_back
           /\ job'[d].results = job[d].results /\ job'[d].fatal = job[d].fatal
           /\ Distinct(job'[d].conflicts) /\ Distinct(job'[d].uploads)
           /\ Apart(job'[d].conflicts, job'[d].uploads)
           /\ \A i \in DOMAIN job'[d].conflicts :
                 /\ job'[d].conflicts[i].path \notin job'[d].fetches
                 /\ rows[job'[d].conflicts[i].path] # base[d][job'[d].conflicts[i].path]
           /\ \A i \in DOMAIN job'[d].uploads : job'[d].uploads[i].path \notin job'[d].fetches
<1>1. /\ job \in [Devices -> JobIn(Paths)] /\ job[d] \in JobIn(Paths)
      /\ job[d].working \in Manifests /\ rows \in Manifests
  BY DEF JobsOK, JobIn, BaseOK, GateTypeOK
<1>2. FetchedManifest(d) = rows
  BY FetchedRows
<1>3. PICK diff : diff = diff_local_and_remote(d, rows)
  OBVIOUS
<1>4. PICK ck, uk : ck = {"Conflict"} /\ uk = {"Upload", "DeleteRemote"}
  OBVIOUS
<1>5. PICK cs, us, fe, de :
         /\ cs = ActionsOf(diff, ck) /\ us = ActionsOf(diff, uk)
         /\ fe = {p \in Paths : diff[p].kind = "Download"}
         /\ de = {p \in Paths : diff[p].kind = "DeleteLocal"}
  OBVIOUS
<1>a. job' = [job EXCEPT ![d].stage = "downloading", ![d].deletes = de, ![d].fetches = fe,
                         ![d].conflicts = cs, ![d].uploads = us]
  BY <1>2, <1>3, <1>4, <1>5 DEF FetchAndPlan
<1>6. /\ job'[d].stage = "downloading" /\ job'[d].conflicts = cs /\ job'[d].uploads = us
      /\ job'[d].fetches = fe /\ job'[d].ops = job[d].ops /\ job'[d].left = job[d].left
      /\ job'[d].hold_back = job[d].hold_back
      /\ job'[d].results = job[d].results /\ job'[d].fatal = job[d].fatal
  BY <1>1, <1>a DEF JobIn
<1>7. ASSUME NEW p \in Paths, diff[p].kind \in ck \cup uk
      PROVE  /\ diff[p].path = p
             /\ PlannedAction(diff[p], p, base[d][p], job[d].working[p], rows[p])
  <2>1. diff[p].kind # "Nothing"
    BY <1>4, <1>7
  <2>2. QED
    BY <1>1, <1>3, <2>1, PlanPath
<1>8. \A p \in Paths : diff[p].kind \in ck => rows[p] # base[d][p]
  BY <1>4, <1>7 DEF PlannedAction
<1>9. /\ Distinct(cs)
      /\ \A i \in DOMAIN cs : cs[i].path \in Paths /\ diff[cs[i].path].kind \in ck
  BY <1>5, <1>7, ListedPaths
<1>10. /\ Distinct(us)
       /\ \A i \in DOMAIN us : us[i].path \in Paths /\ diff[us[i].path].kind \in uk
  BY <1>5, <1>7, ListedPaths
<1>11. ck \cap uk = {} /\ "Download" \notin ck \cup uk
  BY <1>4
<1>12. Apart(cs, us)
  BY <1>9, <1>10, <1>11 DEF Apart
<1>13. \A i \in DOMAIN cs : cs[i].path \notin fe /\ rows[cs[i].path] # base[d][cs[i].path]
  BY <1>5, <1>8, <1>9, <1>11
<1>14. \A i \in DOMAIN us : us[i].path \notin fe
  BY <1>5, <1>10, <1>11
<1>15. QED
  BY <1>6, <1>9, <1>10, <1>12, <1>13, <1>14

LEMMA SinglePlan ==
    ASSUME BaseOK, JobsOK, EtagSound, NEW d \in Devices, FetchAndPlan(d), NEW p, Single(job[d], p)
    PROVE  Single(job'[d], p)
<1>1. PICK j, k : j = job[d] /\ k = job'[d]
  OBVIOUS
<1>2. j.stage = "walked"
  BY <1>1 DEF FetchAndPlan
<1>3. /\ k.stage # "walked" /\ k.ops = <<>> /\ k.left = <<>> /\ k.hold_back = {}
      /\ Distinct(k.conflicts) /\ Distinct(k.uploads) /\ Apart(k.conflicts, k.uploads)
      /\ \A i \in DOMAIN k.conflicts : k.conflicts[i].path \notin k.fetches
      /\ \A i \in DOMAIN k.uploads : k.uploads[i].path \notin k.fetches
  BY <1>1, <1>2, PlanLists DEF Single
<1>4. Once(k.conflicts, p) /\ Once(k.uploads, p)
  BY <1>3 DEF Distinct, Once
<1>5. ~Free(k.conflicts, p) => Free(k.uploads, p)
  BY <1>3 DEF Apart, Free
<1>6. p \in k.fetches => Free(k.conflicts, p) /\ Free(k.uploads, p)
  BY <1>3 DEF Free
<1>7. Single(k, p)
  BY <1>3, <1>4, <1>5, <1>6, EmptyFree DEF Single, Spared
<1>8. QED
  BY <1>1, <1>7

\* Without a budget for failures there are none.
LEMMA NoFailure ==
    ASSUME MaxFaults = 0, BaseOK, NEW d \in Devices
    PROVE  ~Failure(d)
<1>1. ~Fault
  BY DEF BaseOK, Fault
<1>2. QED
  BY <1>1 DEF Failure, DeleteLocalFails, FetchOneFails, ServerFull, BatchResend, BatchFails, Abort

\* The steps of the downloads and the fetch of the checkpoint.
Passes(d) ==
    \/ \E p \in Paths : DeleteLocal(d, p) \/ FetchOne(d, p)
    \/ DownloadsDone(d) \/ CheckpointFetch(d)

LEMMA PassesSame ==
    ASSUME JobsOK, NEW d \in Devices, Passes(d), NEW j, NEW k, j = job[d], k = job'[d]
    PROVE  /\ k.conflicts = j.conflicts /\ k.uploads = j.uploads /\ k.ops = j.ops /\ k.left = j.left
           /\ k.results = j.results /\ k.fatal = j.fatal
           /\ k.fetches \subseteq j.fetches /\ j.hold_back \subseteq k.hold_back
           /\ k.hold_back \subseteq j.hold_back \cup j.fetches /\ k.stage # "walked"
           /\ \/ CheckpointFetch(d) /\ k.hold_back = j.hold_back
              \/ j.stage = "downloading"
           /\ k.stage = "saving" => CheckpointFetch(d)
<1> DEFINE Goal ==
           /\ k.conflicts = j.conflicts /\ k.uploads = j.uploads /\ k.ops = j.ops /\ k.left = j.left
           /\ k.results = j.results /\ k.fatal = j.fatal
           /\ k.fetches \subseteq j.fetches /\ j.hold_back \subseteq k.hold_back
           /\ k.hold_back \subseteq j.hold_back \cup j.fetches /\ k.stage # "walked"
           /\ \/ CheckpointFetch(d) /\ k.hold_back = j.hold_back
              \/ j.stage = "downloading"
           /\ k.stage = "saving" => CheckpointFetch(d)
<1>0. job \in [Devices -> JobIn(Paths)] /\ j \in JobIn(Paths)
  BY DEF JobsOK
<1>1. ASSUME NEW p \in Paths, DeleteLocal(d, p) PROVE Goal
  <2>1. j.stage = "downloading" /\ job' = [job EXCEPT ![d].deletes = @ \ {p}]
    BY <1>1 DEF DeleteLocal
  <2>2. QED
    BY <1>0, <2>1 DEF JobIn
<1>2. ASSUME NEW p \in Paths, FetchOne(d, p) PROVE Goal
  <2>1. /\ j.stage = "downloading" /\ p \in j.fetches
        /\ \/ job' = [job EXCEPT ![d].fetches = @ \ {p}]
           \/ job' = [job EXCEPT ![d].fetches = @ \ {p}, ![d].hold_back = @ \cup {p}]
    BY <1>2 DEF FetchOne
  <2>2. CASE job' = [job EXCEPT ![d].fetches = @ \ {p}]
    BY <1>0, <2>1, <2>2 DEF JobIn
  <2>3. CASE job' = [job EXCEPT ![d].fetches = @ \ {p}, ![d].hold_back = @ \cup {p}]
    BY <1>0, <2>1, <2>3 DEF JobIn
  <2>4. QED
    BY <2>1, <2>2, <2>3
<1>3. CASE DownloadsDone(d)
  <2>1. PICK s \in {"uploading", "resolving"} :
           j.stage = "downloading" /\ job' = [job EXCEPT ![d].stage = s, ![d].fetches = {}]
    BY <1>3 DEF DownloadsDone, AfterDownloads
  <2>2. QED
    BY <1>0, <2>1 DEF JobIn
<1>4. CASE CheckpointFetch(d)
  <2>1. job' = [job EXCEPT ![d].stage = "saving"]
    BY <1>4 DEF CheckpointFetch
  <2>2. QED
    BY <1>0, <1>4, <2>1 DEF JobIn
<1> HIDE DEF Goal
<1>5. Goal
  BY <1>1, <1>2, <1>3, <1>4 DEF Passes, Goal
<1>6. QED
  BY <1>5 DEF Goal

\* An answer of the server is the next result; a write is answered 200, and it
\* changes the row of the operation's path only.
Applies(d, j, k, n, res, q) ==
    /\ n \in DOMAIN j.ops /\ q = j.ops[n].path /\ q \in Paths
    /\ k.results = Append(j.results, res) /\ n = Len(j.results) + 1
    /\ res.status # "507"
    /\ k.stage = "sending" /\ k.conflicts = j.conflicts /\ k.uploads = j.uploads
    /\ k.ops = j.ops /\ k.left = j.left /\ k.fatal = j.fatal
    /\ k.fetches = j.fetches /\ k.hold_back = j.hold_back
    /\ \/ rows' = rows /\ writer' = writer
       \/ /\ res.status = "200" /\ writer'[q] = d
          /\ \A p \in Paths \ {q} : rows'[p] = rows[p] /\ writer'[p] = writer[p]

LEMMA Applied ==
    ASSUME BaseOK, JobsOK, NEW d \in Devices, ServerApplies(d), NEW j, NEW k, j = job[d], k = job'[d]
    PROVE  \E n, res, q : Applies(d, j, k, n, res, q)
<1>1. /\ job \in [Devices -> JobIn(Paths)] /\ j \in JobIn(Paths) /\ j.stage = "sending"
      /\ j.results \in Seq(Verdict) /\ j.ops \in Seq(OpIn(Paths)) /\ Len(j.results) < Len(j.ops)
      /\ rows \in Manifests /\ writer \in [Paths -> Devices \cup {None}]
  BY DEF JobsOK, JobIn, ServerApplies, BaseOK, GateTypeOK
<1>2. PICK n : n = Len(j.results) + 1
  OBVIOUS
<1>3. n \in DOMAIN j.ops /\ NextOp(d) = j.ops[n]
  BY <1>1, <1>2 DEF NextOp
<1>4. PICK op \in OpIn(Paths) : op = j.ops[n]
  BY <1>1, <1>3, JobLists
<1>5. PICK q \in Paths : q = op.path
  BY DEF OpIn
<1>6. PICK status, current :
         /\ Answer(d, status, current) /\ status # "507"
         /\ \/ rows' = rows /\ writer' = writer
            \/ /\ status = "200" /\ writer' = [writer EXCEPT ![q] = d]
               /\ \E e : rows' = [rows EXCEPT ![q] = e]
  <2>1. CASE ServerPut(d)
    BY <1>3, <1>4, <1>5, <2>1 DEF ServerPut, CommitPut, Wrote, serverVars, gateVars
  <2>2. CASE ServerDelete(d)
    BY <1>3, <1>4, <1>5, <2>2 DEF ServerDelete, CommitDelete, Wrote, serverVars, gateVars
  <2>3. QED
    BY <2>1, <2>2 DEF ServerApplies
<1>7. PICK res : res = [status |-> status, current |-> current]
  OBVIOUS
<1>8. res.status = status
  BY <1>7
<1>9. job' = [job EXCEPT ![d].results = Append(@, res)]
  BY <1>6, <1>7 DEF Answer
<1>10. /\ k.results = Append(j.results, res)
       /\ k.stage = "sending" /\ k.conflicts = j.conflicts /\ k.uploads = j.uploads
       /\ k.ops = j.ops /\ k.left = j.left /\ k.fatal = j.fatal
       /\ k.fetches = j.fetches /\ k.hold_back = j.hold_back
  BY <1>1, <1>9 DEF JobIn
<1>11. \/ rows' = rows /\ writer' = writer
       \/ /\ status = "200" /\ writer'[q] = d
          /\ \A p \in Paths \ {q} : rows'[p] = rows[p] /\ writer'[p] = writer[p]
  BY <1>1, <1>6 DEF Manifests
<1>12. n \in DOMAIN j.ops /\ q = j.ops[n].path /\ q \in Paths /\ res.status # "507"
  BY <1>3, <1>4, <1>5, <1>6, <1>8
<1>13. \/ rows' = rows /\ writer' = writer
       \/ /\ res.status = "200" /\ writer'[q] = d
          /\ \A p \in Paths \ {q} : rows'[p] = rows[p] /\ writer'[p] = writer[p]
  BY <1>8, <1>11
<1>14. Applies(d, j, k, n, res, q)
  BY <1>2, <1>10, <1>12, <1>13 DEF Applies
<1>15. QED
  BY <1>14

\* A cycle that starts on a walk or a kept plan, and one that ends.
LEMMA SingleStarts ==
    ASSUME JobsOK, NEW d \in Devices, NEW p, Once(pending[d], p),
           Walk(d) \/ ResumePlan(d) \/ CheckpointSave(d) \/ SkipCheckpoint(d)
    PROVE  Single(job'[d], p)
<1>0. job \in [Devices -> JobIn(Paths)] /\ job[d] \in JobIn(Paths) /\ JobSide(job[d])
  BY DEF JobsOK
<1>1. /\ IdleJob.conflicts = <<>> /\ IdleJob.uploads = <<>> /\ IdleJob.ops = <<>>
      /\ IdleJob.left = <<>> /\ IdleJob.hold_back = {} /\ IdleJob.fetches = {}
  BY DEF IdleJob
<1>2. CASE CheckpointSave(d) \/ SkipCheckpoint(d)
  <2>1. job'[d] = IdleJob
    BY <1>0, <1>2 DEF CheckpointSave, SkipCheckpoint, EndCycle
  <2>2. QED
    BY <2>1, SingleIdle
<1>3. CASE Walk(d)
  <2>1. PICK m : m = build_working_manifest(walked(d), base[d])
    OBVIOUS
  <2>2. job' = [job EXCEPT ![d].stage = "walked", ![d].working = m] /\ job[d] = IdleJob
    BY <1>0, <1>3, <2>1 DEF Walk, MayStart, JobSide
  <2>3. /\ job'[d].conflicts = <<>> /\ job'[d].uploads = <<>> /\ job'[d].ops = <<>>
        /\ job'[d].left = <<>> /\ job'[d].hold_back = {} /\ job'[d].fetches = {}
    BY <1>0, <1>1, <2>2 DEF JobIn
  <2>4. QED
    BY <2>3, EmptyFree DEF Single
<1>4. CASE ResumePlan(d)
  <2>1. /\ job' = [job EXCEPT ![d].stage = "resolving", ![d].conflicts = pending[d]]
        /\ job[d] = IdleJob
    BY <1>0, <1>4 DEF ResumePlan, MayStart, JobSide
  <2>2. /\ job'[d].conflicts = pending[d] /\ job'[d].uploads = <<>> /\ job'[d].ops = <<>>
        /\ job'[d].left = <<>> /\ job'[d].hold_back = {} /\ job'[d].fetches = {}
        /\ job'[d].stage # "walked"
    BY <1>0, <1>1, <2>1 DEF JobIn
  <2>3. QED
    BY <2>2, EmptyFree DEF Single
<1>5. QED
  BY <1>2, <1>3, <1>4

\* A device's own step keeps the one plan.
LEMMA SingleOwn ==
    ASSUME MaxFaults = 0, BaseOK, JobsOK, EtagSound, NEW d \in Devices, NEW p, p \notin Copies,
           Unfailed(job[d]), Single(job[d], p), Once(pending[d], p),
           \/ \E q \in Paths : Edit(d, q) \/ Restore(d, q) \/ EditIgnore(d, q)
           \/ Engine(d) \/ ResumePlan(d) \/ Failure(d) \/ Poll(d)
    PROVE  Single(job'[d], p)
<1>0. /\ job \in [Devices -> JobIn(Paths)] /\ job[d] \in JobIn(Paths) /\ JobSide(job[d])
      /\ ~Failure(d)
  BY NoFailure DEF JobsOK
<1>1. CASE (\E q \in Paths : Edit(d, q) \/ Restore(d, q) \/ EditIgnore(d, q)) \/ Poll(d)
  BY <1>1 DEF Edit, Restore, EditIgnore, Poll
<1>2. CASE Walk(d) \/ ResumePlan(d) \/ CheckpointSave(d) \/ SkipCheckpoint(d)
  BY <1>2, SingleStarts
<1>3. CASE FetchAndPlan(d)
  BY <1>3, SinglePlan
<1>4. PICK j, k : j = job[d] /\ k = job'[d]
  OBVIOUS
<1>5. Single(j, p) /\ j \in JobIn(Paths)
  BY <1>0, <1>4
<1>6. CASE Passes(d)
  <2>1. Single(k, p)
    BY <1>4, <1>5, <1>6, PassesSame, SingleSame
  <2>2. QED
    BY <1>4, <2>1
<1>7. CASE ServerApplies(d)
  <2>1. /\ k.stage = "sending" /\ k.conflicts = j.conflicts /\ k.uploads = j.uploads
        /\ k.ops = j.ops /\ k.left = j.left
        /\ k.fetches = j.fetches /\ k.hold_back = j.hold_back
    BY <1>4, <1>7, Applied DEF Applies
  <2>2. Single(k, p)
    BY <1>5, <2>1, SingleSame
  <2>3. QED
    BY <1>4, <2>2
<1>8. ASSUME NEW choice \in UserChoices, Resolve(d, choice) PROVE Single(job'[d], p)
  <2>1. CASE k = IdleJob
    BY <1>4, <2>1, SingleIdle
  <2>2. CASE k # IdleJob
    <3>1. PICK us, de : Decides(j, k, us, de)
      BY <1>4, <1>8, <2>2, ResolveDecides
    <3>2. Single(k, p)
      BY <1>5, <3>1, SingleDecides
    <3>3. QED
      BY <1>4, <3>2
  <2>3. QED
    BY <2>1, <2>2
<1>9. CASE PrepareBatch(d)
  <2>1. PICK n, at : Cut(d, j, k, n, at)
    BY <1>4, <1>9, PrepareCut
  <2>2. Single(k, p)
    BY <1>5, <2>1, SingleCut
  <2>3. QED
    BY <1>4, <2>2
<1>10. CASE BatchAnswered(d)
  BY <1>10, SingleAnswered
<1>11. QED
  BY <1>0, <1>1, <1>2, <1>3, <1>6, <1>7, <1>8, <1>9, <1>10 DEF Engine, Passes

\* A result more.
LEMMA Appended ==
    ASSUME NEW s \in Seq(Verdict), NEW res, NEW t, t = Append(s, res)
    PROVE  /\ \A i \in DOMAIN s : i \in DOMAIN t /\ t[i] = s[i]
           /\ Len(s) + 1 \in DOMAIN t /\ t[Len(s) + 1] = res
           /\ \A i \in DOMAIN t : (i \in DOMAIN s /\ t[i] = s[i]) \/ t[i] = res
<1>1. PICK n : n = Len(s)
  OBVIOUS
<1>2. /\ n \in Nat /\ DOMAIN s = 1..n /\ DOMAIN t = 1..(n + 1)
      /\ \A i \in 1..n : t[i] = s[i]
      /\ t[n + 1] = res
  BY <1>1
<1>3. QED
  BY <1>1, <1>2

\* Without failures a cycle goes on after every step.
LEMMA UnfailedOwn ==
    ASSUME MaxFaults = 0, BaseOK, JobsOK, EtagSound, NEW d \in Devices, Unfailed(job[d]),
           \/ \E q \in Paths : Edit(d, q) \/ Restore(d, q) \/ EditIgnore(d, q)
           \/ Engine(d) \/ ResumePlan(d) \/ Failure(d) \/ Poll(d)
    PROVE  Unfailed(job'[d])
<1>0. /\ job \in [Devices -> JobIn(Paths)] /\ job[d] \in JobIn(Paths) /\ JobSide(job[d])
      /\ ~Failure(d)
  BY NoFailure DEF JobsOK
<1>1. CASE (\E q \in Paths : Edit(d, q) \/ Restore(d, q) \/ EditIgnore(d, q)) \/ Poll(d)
  BY <1>1 DEF Edit, Restore, EditIgnore, Poll
<1>2. Unfailed(IdleJob)
  BY DEF Unfailed, IdleJob
<1>3. CASE CheckpointSave(d) \/ SkipCheckpoint(d)
  <2>1. job'[d] = IdleJob
    BY <1>0, <1>3 DEF CheckpointSave, SkipCheckpoint, EndCycle
  <2>2. QED
    BY <1>2, <2>1
<1>4. PICK j, k : j = job[d] /\ k = job'[d]
  OBVIOUS
<1>5. Unfailed(j) /\ j \in JobIn(Paths)
  BY <1>0, <1>4
<1>6. CASE k.results = j.results /\ k.fatal = j.fatal
  BY <1>4, <1>5, <1>6 DEF Unfailed
<1>7. CASE Walk(d)
  <2>1. PICK m : m = build_working_manifest(walked(d), base[d])
    OBVIOUS
  <2>2. job' = [job EXCEPT ![d].stage = "walked", ![d].working = m]
    BY <1>7, <2>1 DEF Walk
  <2>3. QED
    BY <1>0, <1>4, <1>6, <2>2 DEF JobIn
<1>8. CASE ResumePlan(d)
  <2>1. job' = [job EXCEPT ![d].stage = "resolving", ![d].conflicts = pending[d]]
    BY <1>8 DEF ResumePlan
  <2>2. QED
    BY <1>0, <1>4, <1>6, <2>1 DEF JobIn
<1>9. CASE FetchAndPlan(d)
  BY <1>4, <1>6, <1>9, PlanLists
<1>10. CASE Passes(d)
  BY <1>4, <1>6, <1>10, PassesSame
<1>11. CASE ServerApplies(d)
  <2>1. PICK n, res, q : Applies(d, j, k, n, res, q)
    BY <1>4, <1>11, Applied
  <2>2. j.results \in Seq(Verdict)
    BY <1>5 DEF JobIn
  <2>3. /\ \A i \in DOMAIN k.results :
              (i \in DOMAIN j.results /\ k.results[i] = j.results[i]) \/ k.results[i] = res
        /\ res.status # "507" /\ k.fatal = j.fatal
    BY <2>1, <2>2, Appended DEF Applies
  <2>4. QED
    BY <1>4, <1>5, <2>3 DEF Unfailed
<1>12. ASSUME NEW choice \in UserChoices, Resolve(d, choice) PROVE Unfailed(job'[d])
  <2>1. CASE k = IdleJob
    BY <1>2, <1>4, <2>1
  <2>2. CASE k # IdleJob
    <3>1. PICK us, de : Decides(j, k, us, de)
      BY <1>4, <1>12, <2>2, ResolveDecides
    <3>2. QED
      BY <1>6, <3>1 DEF Decides
  <2>3. QED
    BY <2>1, <2>2
<1>13. CASE PrepareBatch(d)
  <2>1. PICK n, at : Cut(d, j, k, n, at)
    BY <1>4, <1>13, PrepareCut
  <2>2. k.results = <<>> /\ k.fatal = j.fatal
    BY <2>1 DEF Cut
  <2>3. QED
    BY <1>4, <1>5, <2>2 DEF Unfailed
<1>14. CASE BatchAnswered(d)
  <2>1. k.results = <<>> /\ ~k.fatal
    BY <1>4, <1>14, BatchReturns
  <2>2. QED
    BY <1>4, <2>1 DEF Unfailed
<1>15. QED
  BY <1>0, <1>1, <1>3, <1>7, <1>8, <1>9, <1>10, <1>11, <1>12, <1>13, <1>14 DEF Engine, Passes

\* A cycle that has written p keeps its checkpoint in view until it saves it.
LEMMA UnderwayOwn ==
    ASSUME MaxFaults = 0, BaseOK, JobsOK, NEW d \in Devices, NEW p,
           Unfailed(job[d]), Underway(job[d], p), ~CheckpointSave(d),
           \/ \E q \in Paths : Edit(d, q) \/ Restore(d, q) \/ EditIgnore(d, q)
           \/ Engine(d) \/ ResumePlan(d) \/ Failure(d) \/ Poll(d)
    PROVE  Underway(job'[d], p)
<1>0. /\ job \in [Devices -> JobIn(Paths)] /\ job[d] \in JobIn(Paths) /\ JobSide(job[d])
      /\ ~Failure(d)
  BY NoFailure DEF JobsOK
<1>1. CASE (\E q \in Paths : Edit(d, q) \/ Restore(d, q) \/ EditIgnore(d, q)) \/ Poll(d)
  BY <1>1 DEF Edit, Restore, EditIgnore, Poll
<1>2. PICK j, k : j = job[d] /\ k = job'[d]
  OBVIOUS
<1>3. /\ Underway(j, p) /\ ~j.fatal /\ j \in JobIn(Paths)
      /\ j.stage \in {"uploading", "sending", "saving"}
  BY <1>0, <1>2 DEF Underway, Unfailed
<1>4. /\ ~Walk(d) /\ ~FetchAndPlan(d) /\ ~ResumePlan(d) /\ ~SkipCheckpoint(d)
      /\ \A choice \in UserChoices : ~Resolve(d, choice)
  BY <1>2, <1>3 DEF Walk, FetchAndPlan, ResumePlan, MayStart, SkipCheckpoint, Resolve
<1>5. CASE Passes(d)
  <2>1. /\ k.conflicts = j.conflicts /\ k.uploads = j.uploads /\ k.ops = j.ops
        /\ k.results = j.results /\ CheckpointFetch(d) /\ k.hold_back = j.hold_back
    BY <1>2, <1>3, <1>5, PassesSame
  <2>2. k.stage = "saving"
    BY <1>0, <1>2, <2>1 DEF CheckpointFetch, JobIn
  <2>3. QED
    BY <1>2, <1>3, <2>1, <2>2 DEF Underway
<1>6. CASE PrepareBatch(d)
  <2>1. PICK n, at : Cut(d, j, k, n, at)
    BY <1>2, <1>6, PrepareCut
  <2>2. PICK us, os, m : us = j.uploads /\ os = k.ops /\ m = Len(us)
    OBVIOUS
  <2>3. /\ us \in Seq(WriteIn(Paths)) /\ m \in Nat /\ DOMAIN us = 1..m /\ n \in Nat /\ n <= m
        /\ Free(us, p)
    BY <1>3, <2>1, <2>2, JobLists, LenProperties DEF Cut, Underway
  <2>4. PICK rest : rest = SubSeq(us, n + 1, m)
    OBVIOUS
  <2>5. /\ \A i \in DOMAIN rest : i + n \in DOMAIN us /\ rest[i] = us[i + n]
        /\ \A i \in 1..n : i \in DOMAIN us
    BY <2>3, <2>4
  <2>6. \A u : prepare_batch_op(d, u).path = u.path
    BY DEF prepare_batch_op
  <2>7. /\ at \in [DOMAIN os -> 1..n]
        /\ \A i \in DOMAIN os : os[i] = prepare_batch_op(d, us[at[i]])
    BY <2>1, <2>2 DEF Cut
  <2>8. \A i \in DOMAIN os : os[i].path # p
    BY <2>3, <2>5, <2>6, <2>7 DEF Free
  <2>9. Free(rest, p)
    BY <2>3, <2>5 DEF Free
  <2>10. /\ k.conflicts = j.conflicts /\ k.uploads = rest /\ k.stage \in {"uploading", "sending"}
         /\ \A q \in k.hold_back \ j.hold_back : \E i \in 1..n : us[i].path = q
    BY <2>1, <2>2, <2>4 DEF Cut
  <2>11. p \notin k.hold_back
    BY <1>3, <2>3, <2>5, <2>10 DEF Underway, Free
  <2>12. Underway(k, p)
    BY <1>3, <2>2, <2>8, <2>9, <2>10, <2>11 DEF Underway
  <2>13. QED
    BY <1>2, <2>12
<1>7. CASE ServerApplies(d)
  <2>1. PICK n, res, q : Applies(d, j, k, n, res, q)
    BY <1>2, <1>7, Applied
  <2>2. j.results \in Seq(Verdict)
    BY <1>3 DEF JobIn
  <2>3. \A i \in DOMAIN j.results : i \in DOMAIN k.results /\ k.results[i] = j.results[i]
    BY <2>1, <2>2, Appended DEF Applies
  <2>4. Underway(k, p)
    BY <1>3, <2>1, <2>3 DEF Underway, Applies
  <2>5. QED
    BY <1>2, <2>4
<1>8. CASE BatchAnswered(d)
  <2>1. /\ k.stage = "uploading" /\ k.conflicts = j.conflicts /\ k.uploads = j.uploads
        /\ k.ops = <<>> /\ k.hold_back = j.hold_back \cup Answered(d, {"409", "413", "507"})
    BY <1>2, <1>8, BatchReturns
  <2>2. p \notin Answered(d, {"409", "413", "507"})
    <3>1. DOMAIN j.results \subseteq DOMAIN j.ops
      <4>1. /\ j.results \in Seq(Verdict) /\ j.ops \in Seq(OpIn(Paths))
            /\ Len(j.results) <= Len(j.ops) /\ Len(j.results) \in Nat /\ Len(j.ops) \in Nat
        BY <1>0, <1>2 DEF JobIn, JobSide
      <4>2. QED
        BY <4>1
    <3>2. QED
      BY <1>2, <1>3, <3>1 DEF Answered, Underway
  <2>3. Underway(k, p)
    BY <1>3, <2>1, <2>2 DEF Underway
  <2>4. QED
    BY <1>2, <2>3
<1>9. QED
  BY <1>0, <1>1, <1>4, <1>5, <1>6, <1>7, <1>8 DEF Engine, Passes

\* Which steps change the checkpoint, and which lead to the saving of one.
LEMMA SavingOwn ==
    ASSUME MaxFaults = 0, BaseOK, JobsOK, EtagSound, NEW d \in Devices,
           \/ \E q \in Paths : Edit(d, q) \/ Restore(d, q) \/ EditIgnore(d, q)
           \/ Engine(d) \/ ResumePlan(d) \/ Failure(d) \/ Poll(d)
    PROVE  \/ CheckpointSave(d)
           \/ CheckpointFetch(d) /\ base' = base
           \/ base' = base /\ job' = job /\ (job[d].stage = "idle" \/ cache' = cache)
           \/ base' = base /\ job'[d].stage # "saving"
<1>0. /\ job \in [Devices -> JobIn(Paths)] /\ job[d] \in JobIn(Paths) /\ JobSide(job[d])
      /\ ~Failure(d)
  BY NoFailure DEF JobsOK
<1>1. CASE (\E q \in Paths : Edit(d, q) \/ Restore(d, q) \/ EditIgnore(d, q)) \/ Poll(d)
  BY <1>1 DEF Edit, Restore, EditIgnore, Poll
<1>2. PICK j, k : j = job[d] /\ k = job'[d]
  OBVIOUS
<1>3. IdleJob.stage = "idle"
  BY DEF IdleJob
<1>4. CASE SkipCheckpoint(d)
  BY <1>0, <1>3, <1>4 DEF SkipCheckpoint, EndCycle
<1>5. CASE Walk(d)
  <2>1. PICK m : m = build_working_manifest(walked(d), base[d])
    OBVIOUS
  <2>2. job' = [job EXCEPT ![d].stage = "walked", ![d].working = m] /\ base' = base
    BY <1>5, <2>1 DEF Walk
  <2>3. QED
    BY <1>0, <2>2 DEF JobIn
<1>6. CASE ResumePlan(d)
  BY <1>0, <1>6 DEF ResumePlan, JobIn
<1>7. CASE FetchAndPlan(d)
  <2>1. job'[d].stage = "downloading"
    BY <1>7, PlanLists
  <2>2. QED
    BY <1>7, <2>1 DEF FetchAndPlan
<1>8. CASE Passes(d)
  <2>1. base' = base
    BY <1>8 DEF Passes, DeleteLocal, FetchOne, DownloadsDone, CheckpointFetch
  <2>2. k.stage = "saving" => CheckpointFetch(d)
    BY <1>2, <1>8, PassesSame
  <2>3. QED
    BY <1>2, <2>1, <2>2
<1>9. CASE ServerApplies(d)
  <2>1. k.stage = "sending"
    BY <1>2, <1>9, Applied DEF Applies
  <2>2. QED
    BY <1>2, <1>9, <2>1 DEF ServerApplies
<1>10. ASSUME NEW choice \in UserChoices, Resolve(d, choice)
       PROVE  base' = base /\ job'[d].stage # "saving"
  <2>1. base' = base
    BY <1>10 DEF Resolve
  <2>2. k = IdleJob \/ \E us, de : Decides(j, k, us, de)
    BY <1>2, <1>10, ResolveDecides
  <2>3. k.stage # "saving"
    BY <1>3, <2>2 DEF Decides
  <2>4. QED
    BY <1>2, <2>1, <2>3
<1>11. CASE PrepareBatch(d)
  <2>1. PICK n, at : Cut(d, j, k, n, at)
    BY <1>2, <1>11, PrepareCut
  <2>2. k.stage # "saving"
    BY <2>1 DEF Cut
  <2>3. QED
    BY <1>2, <1>11, <2>2 DEF PrepareBatch
<1>12. CASE BatchAnswered(d)
  <2>1. PICK held, late, f, us :
           job' = [job EXCEPT ![d].stage = "uploading", ![d].hold_back = held, ![d].fatal = f,
              ![d].uploads = us, ![d].left = late,
              ![d].ops = <<>>, ![d].results = <<>>, ![d].attempt = 0, ![d].landed = {}]
    BY <1>12 DEF BatchAnswered
  <2>2. job'[d].stage = "uploading"
    BY <1>0, <2>1 DEF JobIn
  <2>3. QED
    BY <1>12, <2>2 DEF BatchAnswered
<1>13. QED
  BY <1>0, <1>1, <1>4, <1>5, <1>6, <1>7, <1>8, <1>9, <1>10, <1>11, <1>12 DEF Engine, Passes

\* A write of p by the server is under way to the checkpoint.
LEMMA WriteUnderway ==
    ASSUME NEW d, NEW j \in JobIn(Paths), NEW k, NEW n, NEW res, NEW p, Applies(d, j, k, n, res, p),
           Single(j, p), res.status = "200"
    PROVE  Underway(k, p)
<1>1. /\ n \in DOMAIN j.ops /\ j.ops[n].path = p /\ n = Len(j.results) + 1
      /\ k.results = Append(j.results, res) /\ k.ops = j.ops /\ k.stage = "sending"
      /\ k.conflicts = j.conflicts /\ k.uploads = j.uploads /\ k.hold_back = j.hold_back
  BY DEF Applies
<1>2. ~Free(j.ops, p) /\ Once(j.ops, p)
  BY <1>1 DEF Free, Single
<1>3. Free(j.conflicts, p) /\ Free(j.uploads, p) /\ p \notin j.hold_back
  BY <1>2 DEF Single, Spared
<1>4. j.results \in Seq(Verdict)
  BY DEF JobIn
<1>5. n \in DOMAIN k.results /\ k.results[n] = res
  BY <1>1, <1>4, Appended
<1>6. \A i \in DOMAIN j.ops : j.ops[i].path = p => i = n
  BY <1>1, <1>2 DEF Once
<1>7. QED
  BY <1>1, <1>3, <1>5, <1>6 DEF Underway

\* A device's own step keeps its rows in its checkpoint or under way to it.
LEMMA OwnedOwn ==
    ASSUME MaxFaults = 0, BaseOK, JobsOK, EtagSound, NEW d \in Devices, NEW p \in Paths,
           Unfailed(job[d]), Single(job[d], p),
           Owned(d, job[d], base[d], cache[d], rows, writer, p),
           \/ \E q \in Paths : Edit(d, q) \/ Restore(d, q) \/ EditIgnore(d, q)
           \/ Engine(d) \/ ResumePlan(d) \/ Failure(d) \/ Poll(d)
    PROVE  Owned(d, job'[d], base'[d], cache'[d], rows', writer', p)
<1>0. SUFFICES ASSUME writer'[p] = d
               PROVE  /\ base'[d][p] = rows'[p] \/ Underway(job'[d], p)
                      /\ job'[d].stage = "saving" => cache'[d].manifest[p] = rows'[p]
  BY DEF Owned
<1>1. PICK j, k : j = job[d] /\ k = job'[d]
  OBVIOUS
<1>2. /\ job \in [Devices -> JobIn(Paths)] /\ j \in JobIn(Paths) /\ JobSide(j)
      /\ base \in [Devices -> Manifests] /\ rows \in Manifests
      /\ cache \in [Devices -> Cache \cup {None}]
  BY <1>1 DEF JobsOK, BaseOK, GateTypeOK
<1>3. CASE ServerApplies(d)
  <2>1. base' = base
    BY <1>3 DEF ServerApplies
  <2>2. PICK n, res, q : Applies(d, j, k, n, res, q)
    BY <1>1, <1>3, Applied
  <2>3. k.stage = "sending"
    BY <2>2 DEF Applies
  <2>4. CASE rows'[p] = rows[p] /\ writer'[p] = writer[p]
    <3>1. base[d][p] = rows[p] \/ Underway(j, p)
      BY <1>0, <1>1, <2>4 DEF Owned
    <3>2. Underway(j, p) => Underway(job'[d], p)
      <4>1. ~CheckpointSave(d)
        BY <1>3 DEF CheckpointSave, ServerApplies
      <4>2. QED
        BY <1>1, <4>1, UnderwayOwn
    <3>3. QED
      BY <1>1, <2>1, <2>3, <2>4, <3>1, <3>2
  <2>5. CASE ~(rows'[p] = rows[p] /\ writer'[p] = writer[p])
    <3>1. q = p /\ res.status = "200"
      BY <2>2, <2>5 DEF Applies
    <3>2. Underway(k, p)
      BY <1>1, <1>2, <2>2, <3>1, WriteUnderway
    <3>3. QED
      BY <1>1, <2>3, <3>2
  <2>6. QED
    BY <2>4, <2>5
<1>4. CASE ~ServerApplies(d)
  <2>1. rows' = rows /\ writer' = writer
    BY <1>4, ServerOrCache DEF serverVars, gateVars
  <2>2. /\ base[d][p] = rows[p] \/ Underway(j, p)
        /\ j.stage = "saving" => cache[d].manifest[p] = rows[p]
    BY <1>0, <1>1, <2>1 DEF Owned
  <2>3. CASE CheckpointSave(d)
    <3>1. /\ base'[d] = checkpoint_manifest(base[d], cache[d].manifest, j.hold_back)
          /\ k = IdleJob /\ j.stage = "saving"
      BY <1>1, <1>2, <2>3 DEF CheckpointSave, EndCycle
    <3>2. base'[d][p] = IF p \in j.hold_back THEN base[d][p] ELSE cache[d].manifest[p]
      BY <3>1 DEF checkpoint_manifest
    <3>3. p \in j.hold_back => base[d][p] = rows[p]
      BY <2>2 DEF Underway
    <3>4. k.stage = "idle"
      BY <3>1 DEF IdleJob
    <3>5. QED
      BY <1>1, <2>1, <2>2, <3>1, <3>2, <3>3, <3>4
  <2>4. CASE ~CheckpointSave(d)
    <3>1. Underway(j, p) => Underway(job'[d], p)
      BY <1>1, <2>4, UnderwayOwn
    <3>2. base' = base
      BY <2>4, SavingOwn
    <3>3. CASE CheckpointFetch(d)
      <4>1. cache' = [cache EXCEPT ![d] = [etag |-> rev, manifest |-> rows]]
        BY <3>3, FetchedRows DEF CheckpointFetch, RefreshCache
      <4>2. cache'[d].manifest = rows
        BY <1>2, <4>1
      <4>3. QED
        BY <2>1, <2>2, <3>1, <3>2, <4>2
    <3>4. CASE job' = job /\ (job[d].stage = "idle" \/ cache' = cache)
      BY <1>1, <2>1, <2>2, <3>1, <3>2, <3>4
    <3>5. CASE job'[d].stage # "saving"
      BY <2>1, <2>2, <3>1, <3>2, <3>5
    <3>6. QED
      BY <2>4, <3>3, <3>4, <3>5, SavingOwn
  <2>5. QED
    BY <2>3, <2>4
<1>5. QED
  BY <1>3, <1>4

\* Every step keeps every device's rows in its checkpoint or under way to it: a
\* write of another device makes the row its own.
LEMMA OwnStep ==
    ASSUME MaxFaults = 0
    PROVE  TypesInv /\ EtagSound /\ OwnInv /\ [Next]_vars => OwnInv'
<1>0. SUFFICES ASSUME TypesInv, EtagSound, OwnInv, [Next]_vars, NEW e \in Devices
               PROVE  /\ Unfailed(job'[e])
                      /\ \A p \in Paths \ Copies :
                            /\ Single(job'[e], p) /\ Once(pending'[e], p)
                            /\ Owned(e, job'[e], base'[e], cache'[e], rows', writer', p)
  BY DEF OwnInv
<1>1. /\ BaseOK /\ JobsOK /\ Unfailed(job[e])
      /\ pending \in [Devices -> Seq(ConflictIn(Paths))]
      /\ cache \in [Devices -> Cache \cup {None}]
      /\ \A p \in Paths \ Copies :
            /\ Single(job[e], p) /\ Once(pending[e], p)
            /\ Owned(e, job[e], base[e], cache[e], rows, writer, p)
  BY <1>0 DEF TypesInv, OwnInv, JobsOK, BaseOK
<1>2. CASE UNCHANGED vars
  BY <1>1, <1>2 DEF vars, local, ghosts
<1>3. CASE Next
  <2>1. PICK d \in Devices :
           \/ \E q \in Paths : Edit(d, q) \/ Restore(d, q) \/ EditIgnore(d, q)
           \/ Engine(d) \/ ResumePlan(d) \/ Failure(d) \/ Poll(d)
    BY <1>3 DEF Next
  <2>2. \/ pending' = pending
        \/ pending' = [pending EXCEPT ![d] = <<>>]
        \/ pending' = [pending EXCEPT ![d] = job[d].left]
    BY <1>1, <2>1, PlanKept
  <2>3. CASE e = d
    <3>1. Unfailed(job'[e])
      BY <1>0, <1>1, <2>1, <2>3, UnfailedOwn
    <3>2. ASSUME NEW p \in Paths \ Copies
          PROVE  /\ Single(job'[e], p)
                 /\ Owned(e, job'[e], base'[e], cache'[e], rows', writer', p)
      BY <1>0, <1>1, <2>1, <2>3, SingleOwn, OwnedOwn
    <3>3. ASSUME NEW p \in Paths \ Copies PROVE Once(pending'[e], p)
      <4>1. Once(pending[e], p) /\ Once(job[e].left, p) /\ Once(<<>>, p)
        BY <1>1, EmptyFree DEF Single
      <4>2. pending'[e] \in {pending[e], <<>>, job[e].left}
        BY <1>1, <2>2, <2>3
      <4>3. QED
        BY <4>1, <4>2
    <3>4. QED
      BY <3>1, <3>2, <3>3
  <2>4. CASE e # d
    <3>1. job'[e] = job[e] /\ base'[e] = base[e] /\ pending'[e] = pending[e]
      BY <1>1, <2>1, <2>2, <2>4, OthersKept
    <3>2. ASSUME NEW p \in Paths, writer'[p] = e
          PROVE  rows'[p] = rows[p] /\ writer'[p] = writer[p] /\ cache'[e] = cache[e]
      <4>1. CASE ServerApplies(d)
        <5>1. cache' = cache
          BY <4>1 DEF ServerApplies
        <5>2. PICK j, k : j = job[d] /\ k = job'[d]
          OBVIOUS
        <5>3. PICK n, res, q : Applies(d, j, k, n, res, q)
          BY <1>1, <4>1, <5>2, Applied
        <5>4. QED
          BY <2>4, <3>2, <5>1, <5>3 DEF Applies
      <4>2. CASE UNCHANGED <<serverVars, writer, cache>>
        BY <4>2 DEF serverVars, gateVars
      <4>3. CASE RefreshCache(d) /\ UNCHANGED <<serverVars, writer>>
        BY <1>1, <2>4, <4>3 DEF RefreshCache, serverVars, gateVars
      <4>4. QED
        BY <1>1, <2>1, <4>1, <4>2, <4>3, ServerOrCache
    <3>3. ASSUME NEW p \in Paths \ Copies
          PROVE  Owned(e, job'[e], base'[e], cache'[e], rows', writer', p)
      BY <1>1, <3>1, <3>2 DEF Owned
    <3>4. QED
      BY <1>1, <3>1, <3>3
  <2>5. QED
    BY <2>3, <2>4
<1>4. QED
  BY <1>0, <1>2, <1>3

LEMMA OwnInit == Init => OwnInv
<1>0. SUFFICES ASSUME Init, NEW d \in Devices
               PROVE  /\ Unfailed(job[d])
                      /\ \A p \in Paths \ Copies :
                            /\ Single(job[d], p) /\ Once(pending[d], p)
                            /\ Owned(d, job[d], base[d], cache[d], rows, writer, p)
  BY DEF OwnInv
<1>1. job[d] = IdleJob /\ pending[d] = <<>> /\ \A p \in Paths : writer[p] = None
  BY <1>0 DEF Init
<1>2. Unfailed(IdleJob)
  BY DEF Unfailed, IdleJob
<1>3. \A p : Single(IdleJob, p) /\ Once(<<>>, p)
  BY SingleIdle, EmptyFree
<1>4. None \notin Devices
  BY EngineAssumption
<1>5. QED
  BY <1>0, <1>1, <1>2, <1>3, <1>4 DEF Owned

\* A plan puts a device in conflict with rows of others only: what it wrote
\* itself is in the checkpoint when a cycle plans.
LEMMA PlannedStep ==
    ASSUME MaxFaults = 0, TypesInv, EtagSound, OwnInv, [Next]_vars, NEW d \in Devices,
           job[d].stage = "walked", job'[d].stage = "downloading",
           NEW i \in DOMAIN job'[d].conflicts
    PROVE  \/ writer[job'[d].conflicts[i].path] # d
           \/ job'[d].conflicts[i].path \in {CopyOf[q] : q \in DOMAIN CopyOf}
<1>1. BaseOK /\ JobsOK /\ job \in [Devices -> JobIn(Paths)] /\ job[d] \in JobIn(Paths)
  BY DEF TypesInv, JobsOK
<1>2. PICK e \in Devices :
         \/ \E q \in Paths : Edit(e, q) \/ Restore(e, q) \/ EditIgnore(e, q)
         \/ Engine(e) \/ ResumePlan(e) \/ Failure(e) \/ Poll(e)
  BY DEF Next, vars, local
<1>3. e = d
  BY <1>1, <1>2, OthersKept
<1>4. FetchAndPlan(d)
  <2>1. job' # job /\ ~Failure(d)
    BY <1>1, NoFailure
  <2>2. ~(\E q \in Paths : Edit(d, q) \/ Restore(d, q) \/ EditIgnore(d, q)) /\ ~Poll(d)
    BY <2>1 DEF Edit, Restore, EditIgnore, Poll
  <2>3. ~Walk(d) /\ ~ResumePlan(d)
    BY DEF Walk, ResumePlan, MayStart
  <2>4. ~(\E q \in Paths : DeleteLocal(d, q) \/ FetchOne(d, q)) /\ ~DownloadsDone(d)
    BY DEF DeleteLocal, FetchOne, DownloadsDone
  <2>5. ~(\E choice \in UserChoices : Resolve(d, choice))
    BY DEF Resolve
  <2>6. ~PrepareBatch(d) /\ ~ServerApplies(d) /\ ~BatchAnswered(d)
    BY DEF PrepareBatch, ServerApplies, BatchAnswered
  <2>7. ~CheckpointFetch(d) /\ ~CheckpointSave(d) /\ ~SkipCheckpoint(d)
    BY DEF CheckpointFetch, CheckpointSave, SkipCheckpoint
  <2>8. QED
    BY <1>2, <1>3, <2>1, <2>2, <2>3, <2>4, <2>5, <2>6, <2>7 DEF Engine
<1>5. JobsOK'
  BY <1>1, <1>2, JobsStep
<1>6. PICK q : q = job'[d].conflicts[i].path
  OBVIOUS
<1>7. q \in Paths
  BY <1>5, <1>6, JobLists DEF JobsOK
<1>8. rows[q] # base[d][q]
  BY <1>1, <1>4, <1>6, PlanLists
<1>9. ~Underway(job[d], q)
  BY DEF Underway
<1>10. q \in Copies \/ Owned(d, job[d], base[d], cache[d], rows, writer, q)
  BY <1>7 DEF OwnInv
<1>11. QED
  BY <1>6, <1>8, <1>9, <1>10 DEF Owned, Copies

\* Without failures a plan never puts a device in conflict with its own write:
\* checkpoint_manifest moves past every row that run_uploads landed, whatever
\* the other devices write, the user edits or decides (apply_resolutions) and
\* the plans a host keeps; only what is held back (hold_back) stays behind, and
\* the device has not written that.  Conflict copies are the exception.
THEOREM PlannedForeign ==
    ASSUME MaxFaults = 0
    PROVE  Spec => PlannedConflictIsForeign
<1>1. Spec => []OwnInv
  BY OwnInit, OwnStep, TypesAlways, EtagKept, PTL DEF Spec
<1>2. TypesInv /\ EtagSound /\ OwnInv /\ [Next]_vars =>
        [\A d \in Devices :
          job[d].stage = "walked" /\ job'[d].stage = "downloading" =>
              \A i \in DOMAIN job'[d].conflicts :
                  \/ writer[job'[d].conflicts[i].path] # d
                  \/ job'[d].conflicts[i].path \in {CopyOf[q] : q \in DOMAIN CopyOf}]_vars
  BY PlannedStep
<1>3. QED
  BY <1>1, <1>2, TypesAlways, EtagKept, PTL DEF Spec, PlannedConflictIsForeign
=============================================================================
