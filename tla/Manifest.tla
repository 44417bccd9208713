------------------------------ MODULE Manifest ------------------------------
(***************************************************************************)
(* The decision core of a sync cycle (core/src/manifest.rs), as pure       *)
(* operators: the three-way diff of the last checkpoint, the working tree  *)
(* and the server manifest, and the checkpoint that a cycle writes.        *)
(*                                                                         *)
(* A Rust `Manifest` is a map from paths to entries.  Here it is a total   *)
(* function on Paths whose value is None where the map has no key, so      *)
(* m[p] is `manifest.get(path)`.  Of an entry only the content hash and    *)
(* the deleted flag are kept: no decision reads `modified` or `enc_path`,  *)
(* and `size` only cuts upload batches (see SyncRules).                    *)
(***************************************************************************)
CONSTANTS
    Paths,    \* vault-relative paths
    Hashes,   \* keyed content hashes
    NoHash,   \* the empty hash of `FileEntry::default()`
    None      \* Rust's Option::None

\* FileEntry
Entry == [hash : Hashes \cup {NoHash}, deleted : BOOLEAN]

Manifests == [Paths -> Entry \cup {None}]

EmptyManifest == [p \in Paths |-> None]

\* The sentinels are distinct from what they stand beside.
ASSUME SentinelAssumption ==
    /\ NoHash \notin Hashes
    /\ None \notin Hashes \cup {NoHash}
    /\ None \notin Entry

Live(h) == [hash |-> h, deleted |-> FALSE]

\* A tombstone and a missing key are the same version: Gone, written None.
version(entry) ==
    IF entry # None /\ ~entry.deleted THEN entry.hash ELSE None

\* A side without an entry is a tombstone that borrows the base's hash.
local_or_tombstone(entry, base) ==
    IF entry # None
    THEN entry
    ELSE [hash    |-> IF base # None THEN base.hash ELSE NoHash,
          deleted |-> TRUE]

Kinds == {"Nothing", "Upload", "DeleteRemote", "Download", "DeleteLocal", "Conflict"}

\* SyncAction and Conflict: what one path is planned for, with the entries
\* the plan was made from.
Action == [path : Paths, kind : Kinds,
           local : Entry \cup {None}, remote : Entry \cup {None}]

action(path, kind, local, remote) ==
    [path |-> path, kind |-> kind, local |-> local, remote |-> remote]

-----------------------------------------------------------------------------
\* Slip: the remote side wins where both changed.
diff_path_RemoteWins(p, base, local, remote) ==
    LET lv == version(local)
        rv == version(remote)
    IN  IF rv # version(base)
        THEN action(p, IF rv # None THEN "Download" ELSE "DeleteLocal",
                    local, local_or_tombstone(remote, base))
        ELSE IF lv # version(base)
        THEN action(p, IF lv # None THEN "Upload" ELSE "DeleteRemote",
                    local_or_tombstone(local, base), remote)
        ELSE action(p, "Nothing", local, remote)

(* The row of the outcome table a path falls in.  The three result vectors *)
(* of the code hold at most one action per path; here the diff is the      *)
(* function from paths to that action.                                     *)
diff_path(p, base, local, remote) ==
    LET bv == version(base)
        lv == version(local)
        rv == version(remote)
        local_changed  == lv # bv
        remote_changed == rv # bv
    IN  CASE local_changed /\ ~remote_changed ->
               action(p, IF lv # None THEN "Upload" ELSE "DeleteRemote",
                      local_or_tombstone(local, base), remote)
          [] ~local_changed /\ remote_changed ->
               action(p, IF rv # None THEN "Download" ELSE "DeleteLocal",
                      local, local_or_tombstone(remote, base))
          [] local_changed /\ remote_changed /\ lv # rv ->
               action(p, "Conflict", local_or_tombstone(local, base),
                      local_or_tombstone(remote, base))
          [] OTHER -> action(p, "Nothing", local, remote)

diff_manifests(base, local, remote) ==
    [p \in Paths |-> diff_path(p, base[p], local[p], remote[p])]

\* Slip: held-back paths move on with the rest.
checkpoint_manifest_NoHold(previous_base, refetched, hold_back) == refetched

\* Slip: the checkpoint is computed but the old one is saved.
checkpoint_manifest_Stale(previous_base, refetched, hold_back) == previous_base

\* The next base: what the server holds now, except that a held-back path
\* keeps the entry (or the absence) it had.
checkpoint_manifest(previous_base, refetched, hold_back) ==
    [p \in Paths |-> IF p \in hold_back THEN previous_base[p] ELSE refetched[p]]

\* Slip: a file missing from the walk becomes a live entry.
build_working_manifest_NoTombstone(walked, base) ==
    [p \in Paths |-> IF walked[p] # None \/ version(base[p]) # None
                     THEN Live(walked[p]) ELSE None]

\* build_working_manifest: the hashes of the files on disk (`walked`, None
\* where there is no file), and a tombstone with the base's hash for every
\* live base entry the walk did not find.
build_working_manifest(walked, base) ==
    [p \in Paths |->
        IF walked[p] # None THEN Live(walked[p])
        ELSE IF version(base[p]) # None
             THEN [hash |-> base[p].hash, deleted |-> TRUE]
             ELSE None]
=============================================================================
