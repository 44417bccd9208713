------------------------------ MODULE FileGate ------------------------------
(***************************************************************************)
(* One vault's files as the server's clients see them                      *)
(* (server/src/routes/files.rs): a table of rows and a revision, read as   *)
(* one snapshot and written by conflict-gated puts and deletes.  Here are  *)
(* the state, the gates and the two writes; GateService makes them the     *)
(* service that VaultServer implements, SyncEngine runs devices on them.   *)
(*                                                                         *)
(* body[p] is the content a live row was accepted with.  The server takes  *)
(* the client's word for the hash, so body and rows[p].hash are separate.  *)
(***************************************************************************)
EXTENDS Manifest, Naturals

CONSTANT Contents         \* file contents

ASSUME ContentAssumption == None \notin Contents

VARIABLES
    rows,    \* the vault's rows of table `files`
    body,    \* what GET of a path answers: a content, or None for 404
    rev      \* vaults.revision, the manifest's ETag

gateVars == <<rows, body, rev>>

Verdicts == {"accept", "landed", "conflict"}

\* Slip: the retry exception is missing.
put_gate_NoRetry(current, parent, hash) ==
    IF current = None \/ current.hash = parent THEN "accept" ELSE "conflict"

\* apply_put's gate under the row lock.  A missing parent hash is the empty
\* one; a path without a row has no gate.  A put whose first attempt already
\* landed is answered 200 and writes nothing.
put_gate(current, parent, hash) ==
    IF current = None \/ current.hash = parent THEN "accept"
    ELSE IF ~current.deleted /\ current.hash = hash THEN "landed"
    ELSE "conflict"

\* apply_delete's gate: no exception for a delete that already landed, whose
\* tombstone kept the hash and so still matches.
delete_gate(current, parent) ==
    IF current = None \/ current.hash = parent THEN "accept" ELSE "conflict"

\* The row a delete leaves: the hash survives, and a path that never had a
\* row gets a tombstone with the empty hash.
tombstone(current) ==
    [hash |-> IF current # None THEN current.hash ELSE NoHash, deleted |-> TRUE]

GateTypeOK ==
    /\ rows \in Manifests
    /\ body \in [Paths -> Contents \cup {None}]
    /\ rev \in Nat

GateInit ==
    /\ rows = EmptyManifest
    /\ body = [p \in Paths |-> None]
    /\ rev = 0

\* The write of an accepted put: upsert_entry, bump_revision, commit.
CommitPut(p, hash, content) ==
    /\ rows' = [rows EXCEPT ![p] = Live(hash)]
    /\ body' = [body EXCEPT ![p] = content]
    /\ rev' = rev + 1

\* Slip: the delete forgets to bump the revision.
CommitDelete_NoBump(p) ==
    /\ rows' = [rows EXCEPT ![p] = tombstone(rows[p])]
    /\ body' = [body EXCEPT ![p] = None]
    /\ rev' = rev

\* The write of an accepted delete.
CommitDelete(p) ==
    /\ rows' = [rows EXCEPT ![p] = tombstone(rows[p])]
    /\ body' = [body EXCEPT ![p] = None]
    /\ rev' = rev + 1
=============================================================================
