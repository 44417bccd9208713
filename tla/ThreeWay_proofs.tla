--------------------------- MODULE ThreeWay_proofs ---------------------------
(***************************************************************************)
(* Proofs about one cycle on one path, for every set of paths and hashes.  *)
(***************************************************************************)
EXTENDS ThreeWay, TLAPS

\* A live entry's version is its hash; a live entry is an entry.
LEMMA LiveVersion ==
    ASSUME NEW h \in Hashes
    PROVE  Live(h) \in Entry /\ Live(h) # None /\ version(Live(h)) = h
<1>1. Live(h) \in Entry
  BY DEF Live, Entry
<1>2. Live(h) # None
  BY <1>1, SentinelAssumption
<1> QED
  BY <1>1, <1>2 DEF version, Live

\* A tombstone is an entry whose version is Gone.
LEMMA TombVersion ==
    ASSUME NEW h \in Hashes \cup {NoHash}
    PROVE  /\ [hash |-> h, deleted |-> TRUE] \in Entry
           /\ [hash |-> h, deleted |-> TRUE] # None
           /\ version([hash |-> h, deleted |-> TRUE]) = None
<1>1. [hash |-> h, deleted |-> TRUE] \in Entry
  BY DEF Entry
<1>2. [hash |-> h, deleted |-> TRUE] # None
  BY <1>1, SentinelAssumption
<1> QED
  BY <1>1, <1>2 DEF version

\* The working entry stands for what is on disk.
LEMMA WorkingVersion ==
    ASSUME TypeOK
    PROVE  /\ working \in Entry \cup {None}
           /\ version(working) = file
           /\ file # None => working = Live(file)
<1>1. working = IF file # None THEN Live(file)
                ELSE IF version(base) # None THEN [hash |-> base.hash, deleted |-> TRUE]
                ELSE None
  BY PathAssumption DEF working, build_working_manifest
<1>2. CASE file # None
  BY <1>1, <1>2, LiveVersion DEF TypeOK
<1>3. CASE file = None /\ version(base) # None
  <2>1. base.hash \in Hashes \cup {NoHash}
    BY <1>3 DEF TypeOK, version, Entry
  <2> QED
    BY <1>1, <1>3, <2>1, TombVersion
<1>4. CASE file = None /\ version(base) = None
  BY <1>1, <1>4 DEF version
<1> QED
  BY <1>2, <1>3, <1>4

\* A side's entry, or the tombstone made for it, has the side's version.
LEMMA SideVersion ==
    ASSUME NEW e \in Entry \cup {None}, NEW b \in Entry \cup {None}
    PROVE  /\ local_or_tombstone(e, b) \in Entry
           /\ version(local_or_tombstone(e, b)) = version(e)
           /\ e # None => local_or_tombstone(e, b) = e
<1>1. CASE e # None
  BY <1>1 DEF local_or_tombstone
<1>2. CASE e = None
  <2> DEFINE h == IF b # None THEN b.hash ELSE NoHash
  <2>1. h \in Hashes \cup {NoHash}
    BY DEF Entry
  <2>2. local_or_tombstone(e, b) = [hash |-> h, deleted |-> TRUE]
    BY <1>2 DEF local_or_tombstone
  <2> HIDE DEF h
  <2> QED
    BY <1>2, <2>1, <2>2, TombVersion DEF version
<1> QED
  BY <1>1, <1>2

\* The plan as a row of the outcome table.
LEMMA PlanTable ==
    ASSUME TypeOK
    PROVE  \/ /\ file # version(base) /\ version(remote) = version(base)
              /\ plan = action(Path, IF file # None THEN "Upload" ELSE "DeleteRemote",
                               local_or_tombstone(working, base), remote)
           \/ /\ file = version(base) /\ version(remote) # version(base)
              /\ plan = action(Path, IF version(remote) # None THEN "Download" ELSE "DeleteLocal",
                               working, local_or_tombstone(remote, base))
           \/ /\ file # version(base) /\ version(remote) # version(base)
              /\ file # version(remote)
              /\ plan = action(Path, "Conflict", local_or_tombstone(working, base),
                               local_or_tombstone(remote, base))
           \/ /\ file = version(remote)
              /\ plan = action(Path, "Nothing", working, remote)
<1> DEFINE bv == version(base)
           rv == version(remote)
<1>1. version(working) = file
  BY WorkingVersion
<1>2. CASE file # bv /\ rv = bv
  BY <1>1, <1>2 DEF plan, diff_path
<1>3. CASE file = bv /\ rv # bv
  BY <1>1, <1>3 DEF plan, diff_path
<1>4. CASE file # bv /\ rv # bv /\ file # rv
  BY <1>1, <1>4 DEF plan, diff_path
<1>5. CASE (file # bv /\ rv # bv /\ file = rv) \/ (file = bv /\ rv = bv)
  BY <1>1, <1>5 DEF plan, diff_path
<1> QED
  BY <1>2, <1>3, <1>4, <1>5

-----------------------------------------------------------------------------
\* A carried-out upload leaves a row with the planned local version.
LEMMA UploadedVersion ==
    ASSUME TypeOK,
           NEW act, act.kind \in {"Upload", "DeleteRemote"},
           act.local \in Entry,
           act.kind = "Upload" <=> version(act.local) # None,
           version(act.local) = file
    PROVE  /\ Uploaded(act) \in Entry
           /\ version(Uploaded(act)) = file
<1>1. CASE act.kind = "Upload"
  <2>1. act.local.hash = file /\ file # None
    BY <1>1 DEF version
  <2> QED
    BY <1>1, <2>1, LiveVersion DEF Uploaded, TypeOK
<1>2. CASE act.kind = "DeleteRemote"
  <2> DEFINE h == IF remote # None THEN remote.hash ELSE NoHash
  <2>1. h \in Hashes \cup {NoHash}
    BY DEF TypeOK, Entry
  <2>2. Uploaded(act) = [hash |-> h, deleted |-> TRUE]
    BY <1>2 DEF Uploaded
  <2>3. file = None
    BY <1>2
  <2> HIDE DEF h
  <2> QED
    BY <2>1, <2>2, <2>3, TombVersion
<1> QED
  BY <1>1, <1>2

\* What a cycle does to the two sides.
LEMMA CycleEffect ==
    ASSUME TypeOK, Cycle
    PROVE  /\ TypeOK'
           /\ base' = remote' /\ file' = version(remote')
           /\ file' # file => file = version(base)
           /\ version(remote') # version(remote) => version(remote) = version(base)
<1> DEFINE up == file # version(base) /\ version(remote) = version(base)
           down == file = version(base) /\ version(remote) # version(base)
<1>1. working \in Entry \cup {None} /\ version(working) = file
  BY WorkingVersion
<1>2. CASE up /\ plan = action(Path, IF file # None THEN "Upload" ELSE "DeleteRemote",
                               local_or_tombstone(working, base), remote)
  <2>1. /\ plan.local \in Entry
        /\ version(plan.local) = file
        /\ plan.kind = IF file # None THEN "Upload" ELSE "DeleteRemote"
    BY <1>1, <1>2, SideVersion DEF TypeOK, action
  <2>2. Uploaded(plan) \in Entry /\ version(Uploaded(plan)) = file
    BY <2>1, UploadedVersion
  <2>3. file' = file /\ remote' = Uploaded(plan) /\ base' = remote'
    BY <2>1 DEF Cycle, Carry
  <2> QED
    BY <1>2, <2>2, <2>3 DEF TypeOK
<1>3. CASE down /\ plan = action(Path, IF version(remote) # None THEN "Download" ELSE "DeleteLocal",
                                 working, local_or_tombstone(remote, base))
  <2>1. /\ version(plan.remote) = version(remote)
        /\ plan.kind = IF version(remote) # None THEN "Download" ELSE "DeleteLocal"
    BY <1>3, SideVersion DEF TypeOK, action
  <2>2. file' = version(remote) /\ remote' = remote /\ base' = remote'
    BY <2>1 DEF Cycle, Carry
  <2> QED
    BY <1>3, <2>2 DEF TypeOK
<1>4. CASE file = version(remote) /\ plan = action(Path, "Nothing", working, remote)
  <2>1. plan.kind = "Nothing"
    BY <1>4 DEF action
  <2>2. file' = file /\ remote' = remote /\ base' = remote'
    BY <2>1 DEF Cycle, Carry
  <2> QED
    BY <1>4, <2>2 DEF TypeOK
<1>5. plan.kind # "Conflict"
  BY DEF Cycle
<1> QED
  BY <1>2, <1>3, <1>4, <1>5, PlanTable DEF action

\* What deciding a conflict does to the two sides.
LEMMA DecideEffect ==
    ASSUME TypeOK, NEW choice \in {"KeepLocal", "KeepRemote"}, Decide(choice)
    PROVE  /\ TypeOK'
           /\ base' = remote' /\ file' = version(remote')
<1>1. working \in Entry \cup {None} /\ version(working) = file
  BY WorkingVersion
<1>2. plan = action(Path, "Conflict", local_or_tombstone(working, base),
                    local_or_tombstone(remote, base))
  BY PlanTable DEF Decide, action
<1>3. /\ plan.local \in Entry /\ version(plan.local) = file
      /\ version(plan.remote) = version(remote)
      /\ plan.remote \in Entry
  BY <1>1, <1>2, SideVersion DEF TypeOK, action
<1>4. CASE choice = "KeepLocal"
  <2> DEFINE act == conflict_to_upload(plan)
  <2>1. /\ act.kind = IF plan.local.deleted THEN "DeleteRemote" ELSE "Upload"
        /\ act.local = plan.local
    BY DEF conflict_to_upload, action
  <2>2. plan.local.deleted <=> version(plan.local) = None
    <3>1. plan.local # None /\ plan.local.hash # None /\ plan.local.deleted \in BOOLEAN
      BY <1>3, SentinelAssumption DEF Entry
    <3> QED
      BY <3>1 DEF version
  <2>3. Uploaded(act) \in Entry /\ version(Uploaded(act)) = file
    <3> HIDE DEF act
    <3> QED
      BY <1>3, <2>1, <2>2, UploadedVersion
  <2>4. Carry(act)
    BY <1>4 DEF Decide
  <2>5. file' = file /\ remote' = Uploaded(act) /\ base' = remote'
    BY <2>1, <2>4 DEF Carry
  <2> QED
    BY <2>3, <2>5 DEF TypeOK
<1>5. CASE choice = "KeepRemote"
  <2> DEFINE act == [plan EXCEPT !.kind = IF plan.remote.deleted THEN "DeleteLocal" ELSE "Download"]
  <2>1. act.kind \in {"Download", "DeleteLocal"} /\ act.remote = plan.remote
    BY <1>2 DEF action
  <2>2. Carry(act)
    BY <1>5 DEF Decide
  <2>3. file' = version(remote) /\ remote' = remote /\ base' = remote'
    BY <1>3, <2>1, <2>2 DEF Carry
  <2> QED
    BY <2>3 DEF TypeOK
<1> QED
  BY <1>4, <1>5

-----------------------------------------------------------------------------
\* Edits on either side keep the types.
LEMMA EditsTyped ==
    ASSUME TypeOK, LocalEdit \/ RemoteEdit
    PROVE  TypeOK'
<1>1. CASE LocalEdit
  BY <1>1 DEF LocalEdit, TypeOK
<1>2. CASE RemoteEdit
  <2>1. CASE \E h \in Hashes : remote' = Live(h)
    BY <1>2, <2>1, LiveVersion DEF RemoteEdit, TypeOK
  <2>2. CASE remote # None /\ remote' = [hash |-> remote.hash, deleted |-> TRUE]
    <3>1. remote.hash \in Hashes \cup {NoHash}
      BY <2>2 DEF TypeOK, Entry
    <3> QED
      BY <1>2, <2>2, <3>1, TombVersion DEF RemoteEdit, TypeOK
  <2> QED
    BY <1>2, <2>1, <2>2 DEF RemoteEdit
<1> QED
  BY <1>1, <1>2

LEMMA InitTyped == Init => TypeOK
  BY DEF Init, TypeOK, version

LEMMA NextTyped == TypeOK /\ [Next]_vars => TypeOK'
<1> SUFFICES ASSUME TypeOK, [Next]_vars PROVE TypeOK'
  OBVIOUS
<1>1. CASE LocalEdit \/ RemoteEdit
  BY <1>1, EditsTyped
<1>2. CASE Cycle
  BY <1>2, CycleEffect
<1>3. ASSUME NEW choice \in {"KeepLocal", "KeepRemote"}, Decide(choice)
      PROVE  TypeOK'
  BY <1>3, DecideEffect
<1>4. CASE UNCHANGED vars
  BY <1>4 DEF vars, TypeOK, version
<1> QED
  BY <1>1, <1>2, <1>3, <1>4 DEF Next

\* The three sides stay entries, and a live one always has a content hash.
THEOREM TypeCorrect == Spec => []TypeOK
  BY InitTyped, NextTyped, PTL DEF Spec

\* For every set of hashes: a cycle without a conflict replaces, on either
\* side, only the version of the last checkpoint.
THEOREM ChangeSurvives == Spec => ChangeSurvivesCycle
<1>1. TypeOK /\ [Next]_vars =>
        [Cycle => /\ file' # file => file = version(base)
                  /\ version(remote') # version(remote) => version(remote) = version(base)]_vars
  BY CycleEffect
<1> QED
  BY <1>1, TypeCorrect, PTL DEF Spec, ChangeSurvivesCycle

\* For every set of hashes: after a cycle, decided by itself or by the user,
\* disk, server and checkpoint are at one version.
THEOREM Settles == Spec => CycleSettles
<1>1. TypeOK /\ [Next]_vars =>
        [(Cycle \/ \E choice \in {"KeepLocal", "KeepRemote"} : Decide(choice)) =>
            /\ file' = version(remote')
            /\ version(base') = version(remote')]_vars
  <2> SUFFICES ASSUME TypeOK,
                      Cycle \/ \E choice \in {"KeepLocal", "KeepRemote"} : Decide(choice)
               PROVE  file' = version(remote') /\ version(base') = version(remote')
    OBVIOUS
  <2>1. base' = remote' /\ file' = version(remote')
    BY CycleEffect, DecideEffect
  <2> QED
    BY <2>1
<1> QED
  BY <1>1, TypeCorrect, PTL DEF Spec, CycleSettles

\* For every set of hashes: a planned write presents the row's own hash.
THEOREM ParentPresented == Spec => []ParentIsCurrent
<1>1. TypeOK => ParentIsCurrent
  <2> SUFFICES ASSUME TypeOK, remote # None PROVE
        /\ plan.kind \in {"Upload", "DeleteRemote"} => parent_hash(plan) = remote.hash
        /\ plan.kind = "Conflict" => parent_hash(conflict_to_upload(plan)) = remote.hash
    BY DEF ParentIsCurrent
  <2>1. local_or_tombstone(remote, base) = remote
    BY SideVersion DEF TypeOK
  <2>2. plan.kind \in {"Upload", "DeleteRemote", "Conflict"} => plan.remote = remote
    BY <2>1, PlanTable DEF action
  <2>3. conflict_to_upload(plan).remote = plan.remote
    BY DEF conflict_to_upload, action
  <2> QED
    BY <2>2, <2>3 DEF parent_hash
<1> QED
  BY <1>1, TypeCorrect, PTL
=============================================================================
