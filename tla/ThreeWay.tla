------------------------------ MODULE ThreeWay ------------------------------
(***************************************************************************)
(* What one sync cycle promises for one path when nothing happens during   *)
(* it: the three-way diff of core/src/manifest.rs decides, the decision is *)
(* carried out on both sides, the checkpoint follows (prepare_sync and     *)
(* complete_sync of core/src/sync_engine.rs as one step).  SyncEngine has  *)
(* the same cycle in its real steps, with everything that gets in between. *)
(***************************************************************************)
EXTENDS SyncRules

CONSTANT Path

ASSUME PathAssumption == Path \in Paths

VARIABLES
    base,      \* the checkpoint's entry, or None
    file,      \* the hash of the file on disk, or None
    remote     \* the server's row, or None

vars == <<base, file, remote>>

\* The sides hold entries, and a live entry has the hash of a content.
TypeOK ==
    /\ base \in Entry \cup {None} /\ version(base) \in Hashes \cup {None}
    /\ file \in Hashes \cup {None}
    /\ remote \in Entry \cup {None} /\ version(remote) \in Hashes \cup {None}

Init == base = None /\ file = None /\ remote = None

\* The working manifest's entry for the path (build_working_manifest).
working ==
    build_working_manifest([p \in Paths |-> file], [p \in Paths |-> base])[Path]

plan == diff_path(Path, base, working, remote)

-----------------------------------------------------------------------------
\* The user writes or deletes the file.
LocalEdit ==
    /\ file' \in (Hashes \cup {None}) \ {file}
    /\ UNCHANGED <<base, remote>>

\* Another device's write is accepted: a new live row, or a tombstone that
\* keeps the hash.
RemoteEdit ==
    /\ remote' \in {Live(h) : h \in Hashes} \cup
                   {[hash |-> e.hash, deleted |-> TRUE] : e \in {remote} \ {None}}
    /\ remote' # remote
    /\ UNCHANGED <<base, file>>

\* Slip: the row stores the parent's hash instead of the content's.
Uploaded_Parent(act) ==
    IF act.kind = "Upload" THEN Live(parent_hash(act))
    ELSE [hash |-> parent_hash(act), deleted |-> TRUE]

\* What an accepted upload or delete leaves in the row.
Uploaded(act) ==
    IF act.kind = "Upload" THEN Live(act.local.hash)
    ELSE [hash |-> IF remote # None THEN remote.hash ELSE NoHash, deleted |-> TRUE]

\* The sides after an action is carried out, with the base checkpointed to
\* the row.
Carry(act) ==
    /\ file' = IF act.kind \in {"Download", "DeleteLocal"} THEN version(act.remote) ELSE file
    /\ remote' = IF act.kind \in {"Upload", "DeleteRemote"} THEN Uploaded(act) ELSE remote
    /\ base' = remote'

\* A cycle without a conflict.
Cycle ==
    /\ plan.kind # "Conflict"
    /\ Carry(plan)

\* A cycle whose conflict the user decides.
Decide(choice) ==
    /\ plan.kind = "Conflict"
    /\ \/ choice = "KeepLocal" /\ Carry(conflict_to_upload(plan))
       \/ choice = "KeepRemote"
          /\ Carry([plan EXCEPT !.kind = IF plan.remote.deleted THEN "DeleteLocal" ELSE "Download"])

Next ==
    \/ LocalEdit \/ RemoteEdit
    \/ Cycle
    \/ \E choice \in {"KeepLocal", "KeepRemote"} : Decide(choice)

Spec == Init /\ [][Next]_vars

-----------------------------------------------------------------------------
\* A cycle that decides by itself drops nobody's change: the version it
\* replaces, on either side, is the one of the last checkpoint (architecture,
\* "the engine never auto-resolves a conflict").
ChangeSurvivesCycle ==
    [][Cycle => /\ file' # file => file = version(base)
                /\ version(remote') # version(remote) => version(remote) = version(base)]_vars

\* After a cycle, decided by itself or by the user, both sides hold the same
\* version and the next plan has nothing to do.
CycleSettles ==
    [][(Cycle \/ \E choice \in {"KeepLocal", "KeepRemote"} : Decide(choice)) =>
          /\ file' = version(remote')
          /\ version(base') = version(remote')]_vars

\* The parent hash a planned upload presents is the row's, so the server's
\* gate takes it as long as the row stays (sync_rules.rs, parent_hash).
ParentIsCurrent ==
    /\ plan.kind \in {"Upload", "DeleteRemote"} /\ remote # None
          => parent_hash(plan) = remote.hash
    /\ plan.kind = "Conflict" /\ remote # None
          => parent_hash(conflict_to_upload(plan)) = remote.hash
=============================================================================
