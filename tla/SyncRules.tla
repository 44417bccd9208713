------------------------------ MODULE SyncRules ------------------------------
(***************************************************************************)
(* The decisions of a cycle that need no filesystem and no network         *)
(* (core/src/sync_rules.rs).  The native engine and, through core-wasm,    *)
(* the browser run the same code.  Batching models chunk_uploads.          *)
(***************************************************************************)
EXTENDS Manifest

ConflictResolutionChoice == {"KeepLocal", "KeepRemote", "KeepBoth", "Defer"}

\* KeepBoth needs two live versions; with a deletion on one side it is
\* keeping the side that still exists.
effective_choice(choice, conflict) ==
    IF choice = "KeepBoth" /\ conflict.remote.deleted THEN "KeepLocal"
    ELSE IF choice = "KeepBoth" /\ conflict.local.deleted THEN "KeepRemote"
    ELSE choice

\* The write that keeps the local side of a conflict.
conflict_to_upload(conflict) ==
    action(conflict.path, IF conflict.local.deleted THEN "DeleteRemote" ELSE "Upload",
           conflict.local, conflict.remote)

\* Slip: the new hash is sent as the parent.
parent_hash_Local(act) == act.local.hash

\* The hash the server is asked to compare; None and an empty hash both
\* reach it as the empty string.
parent_hash(act) == IF act.remote = None THEN NoHash ELSE act.remote.hash
=============================================================================
