---------------------------- MODULE VaultServer ----------------------------
(***************************************************************************)
(* One vault on the server, at the grain of its write handlers             *)
(* (server/src/routes/files.rs, blobs.rs, retention.rs): a request opens a *)
(* transaction, waits for the vault row's lock, runs the size, quota and   *)
(* parent-hash checks, moves blob files between the live, versions and     *)
(* trash tiers, and commits the row; the blob files are not part of the    *)
(* transaction.  Commits fail, blob writes fail and the process crashes    *)
(* between any two steps; the retention pass prunes the history tiers      *)
(* without the lock.                                                       *)
(*                                                                         *)
(* Clients are honest about hashes here (HashOf); SyncEngine covers the    *)
(* upload whose bytes changed after they were hashed.                      *)
(***************************************************************************)
EXTENDS Manifest, Integers, FiniteSets, FiniteSetsExt

CONSTANTS
    Contents,           \* file contents
    HashOf,             \* the keyed hash of a content
    Size,               \* the sealed size of a content
    MaxFileSize,        \* vaults.max_file_size
    MaxVaultBytes,      \* config.max_vault_bytes
    MAX_VERSIONS_PER_FILE,
    VERSION_RETENTION_SECS,
    TRASH_RETENTION_SECS,
    Requests,           \* write requests that can be in flight at once
    MaxStarted,         \* bound: write requests in a behaviour
    Faults,             \* which kinds of failure the environment produces
    MaxFaults,          \* bound: failures in a behaviour
    MaxTime,            \* bound: the wall clock, in seconds
    OneWritePerSecond   \* whether two writes of one second are left out

FaultKinds == {"commit", "uncertain", "blob", "disconnect", "crash"}

ASSUME ServerAssumption ==
    /\ Paths # {} /\ Contents # {}
    /\ None \notin Contents
    /\ HashOf \in [Contents -> Hashes]
    /\ Size \in [Contents -> Nat]
    /\ {MaxFileSize, MaxVaultBytes, MAX_VERSIONS_PER_FILE} \subseteq Nat
    /\ {VERSION_RETENTION_SECS, TRASH_RETENTION_SECS} \subseteq Nat
    /\ {MaxStarted, MaxFaults, MaxTime} \subseteq Nat
    /\ Faults \subseteq FaultKinds
    /\ None \notin Requests
    /\ OneWritePerSecond \in BOOLEAN

VARIABLES
    rows,      \* table `files`, committed
    rev,       \* vaults.revision, committed
    live,      \* blobs/live: the content filed under each path, or None
    history,   \* blobs/_versions and blobs/_trash
    lock,      \* the request whose transaction holds the vault row, or None
    req,       \* the requests in flight
    now,       \* the wall clock
    started,   \* how much of MaxStarted is used
    faults     \* the failures so far, by kind

vars == <<rows, rev, live, history, lock, req, now, started, faults>>

Tiers == {"Versions", "Trash"}

\* A history file `<unix>[-n]`: its second, its suffix and what it holds.
HistoryEntry == [ts : Nat, seq : Nat, content : Contents]

Row == [hash : Hashes \cup {NoHash}, deleted : BOOLEAN, size : Nat]

\* A write request.  `cur` is the row it read under the lock, `undo` the
\* history entry (with its tier) that BlobStore::undo would put back.  With
\* `gone` the handler is no more and only its blocking blob task runs.
Stages == {"idle", "begun", "gated", "moved", "placed", "failed", "undone"}

UndoToken == [tier : Tiers, entry : HistoryEntry]

Request == [stage : Stages, op : {"put", "delete"}, path : Paths,
            parent : Hashes \cup {NoHash}, content : Contents, ts : Nat,
            cur : Row \cup {None}, gone : BOOLEAN, undo : UndoToken \cup {None}]

\* A record is never taken for a slot that holds nothing.
ASSUME RecordAssumption ==
    /\ None \notin HistoryEntry /\ None \notin UndoToken /\ None \notin Row
    /\ None \notin [op : {"put", "delete"}, path : Paths, parent : Hashes \cup {NoHash},
                     hash : Hashes, content : Contents]

TypeOK ==
    /\ rows \in [Paths -> Row \cup {None}]
    /\ rev \in Nat
    /\ live \in [Paths -> Contents \cup {None}]
    /\ history \in [Tiers -> [Paths -> SUBSET HistoryEntry]]
    /\ lock \in Requests \cup {None}
    /\ req \in [Requests -> Request]
    /\ {now, started} \subseteq Nat
    /\ faults \in [FaultKinds -> Nat]

\* The value of the slots that hold nothing.
IdleRequest == [stage |-> "idle", op |-> "put", path |-> CHOOSE p \in Paths : TRUE,
                parent |-> NoHash, content |-> CHOOSE c \in Contents : TRUE,
                ts |-> 0, cur |-> None, gone |-> FALSE, undo |-> None]

Init ==
    /\ rows = [p \in Paths |-> None]
    /\ rev = 0
    /\ live = [p \in Paths |-> None]
    /\ history = [t \in Tiers |-> [p \in Paths |-> {}]]
    /\ lock = None
    /\ req = [r \in Requests |-> IdleRequest]
    /\ now = 0
    /\ started = 0
    /\ faults = [k \in FaultKinds |-> 0]

-----------------------------------------------------------------------------
(* Blob files                                                              *)

\* The first free suffix for second `ts`.
FreeSeq(entries, ts) ==
    Min({n \in 0..Cardinality(entries) : \A e \in entries : e.ts = ts => e.seq # n})

\* The entry move_live_returning would write, or None without a live file.
MovedEntry(tier, p, ts) ==
    IF live[p] = None THEN None
    ELSE [ts |-> ts, seq |-> FreeSeq(history[tier][p], ts), content |-> live[p]]

\* Rename the live file into a history tier; nothing happens without one.
move_live(r, tier, p) ==
    LET e == MovedEntry(tier, p, req[r].ts)
    IN  /\ live' = [live EXCEPT ![p] = None]
        /\ history' = IF e = None THEN history
                      ELSE [history EXCEPT ![tier][p] = @ \cup {e}]
        /\ IF tier = "Trash" /\ req[r].gone
           THEN req' = [req EXCEPT ![r] = IdleRequest]
           ELSE req' = [req EXCEPT ![r].stage = IF tier = "Trash" THEN "placed" ELSE "moved",
                                   ![r].undo  = IF e = None THEN None
                                                ELSE [tier |-> tier, entry |-> e]]

-----------------------------------------------------------------------------
(* Handlers: apply_put and apply_delete, shared by the file routes and the *)
(* batch route                                                             *)

\* A write arrives; `now` is read before the lock is asked for.
Begin(r) ==
    /\ req[r].stage = "idle"
    /\ started < MaxStarted
    /\ OneWritePerSecond => \A t \in Tiers, p \in Paths : \A e \in history[t][p] : e.ts # now
    /\ started' = started + 1
    /\ \E op \in {"put", "delete"}, p \in Paths, c \in Contents,
          parent \in Hashes \cup {NoHash} :
           req' = [req EXCEPT ![r] =
                     [stage |-> "begun", op |-> op, path |-> p, parent |-> parent,
                      content |-> c, ts |-> now, cur |-> None, gone |-> FALSE,
                      undo |-> None]]
    /\ UNCHANGED <<rows, rev, live, history, lock, now, faults>>

IsLive(row) == row # None /\ ~row.deleted

\* Bytes of the other live rows.
used(p) == MapThenSumSet(LAMBDA q : rows[q].size, {q \in Paths \ {p} : IsLive(rows[q])})

\* Slip: the parent hash is not compared.
verdict_NoParent(q) ==
    IF q.op = "put" /\ Size[q.content] > MaxFileSize THEN "413"
    ELSE IF q.op = "put" /\ used(q.path) + Size[q.content] > MaxVaultBytes THEN "507"
    ELSE "accept"

\* What the checks under the lock decide about a request.
verdict(q) ==
    LET cur == rows[q.path]
        matches == cur = None \/ cur.hash = q.parent
    IN  IF q.op = "put"
        THEN IF Size[q.content] > MaxFileSize THEN "413"
             ELSE IF used(q.path) + Size[q.content] > MaxVaultBytes THEN "507"
             ELSE IF matches THEN "accept"
             ELSE IF ~cur.deleted /\ cur.hash = HashOf[q.content] THEN "200"
             ELSE "409"
        ELSE IF matches THEN "accept" ELSE "409"

\* Slip: SELECT without FOR UPDATE.
LockAndCheck_NoLock(r) ==
    /\ req[r].stage = "begun"
    /\ IF verdict(req[r]) = "accept"
       THEN req' = [req EXCEPT ![r].stage = "gated", ![r].cur = rows[req[r].path]]
       ELSE req' = [req EXCEPT ![r] = IdleRequest]
    /\ UNCHANGED <<rows, rev, live, history, lock, now, started, faults>>

\* lock_vault, current_entry and the checks: the request keeps the lock and
\* goes on, or is answered and its transaction dropped.
LockAndCheck(r) ==
    /\ req[r].stage = "begun"
    /\ lock = None
    /\ IF verdict(req[r]) = "accept"
       THEN /\ lock' = r
            /\ req' = [req EXCEPT ![r].stage = "gated",
                                  ![r].cur = rows[req[r].path]]
       ELSE /\ lock' = None
            /\ req' = [req EXCEPT ![r] = IdleRequest]
    /\ UNCHANGED <<rows, rev, live, history, now, started, faults>>

\* Slip: the old version is overwritten in place.
ArchiveVersion_None(r) ==
    /\ req[r].stage = "gated"
    /\ req[r].op = "put"
    /\ req' = [req EXCEPT ![r].stage = "moved"]
    /\ UNCHANGED <<rows, rev, live, history, lock, now, started, faults>>

\* replace_live, first half: archive the live file when the row is live.
ArchiveVersion(r) ==
    /\ req[r].stage = "gated"
    /\ req[r].op = "put"
    /\ IF IsLive(req[r].cur)
       THEN move_live(r, "Versions", req[r].path)
       ELSE /\ req' = [req EXCEPT ![r].stage = "moved"]
            /\ UNCHANGED <<live, history>>
    /\ UNCHANGED <<rows, rev, lock, now, started, faults>>

\* replace_live, second half: put_live writes a temporary file and renames.
PutLive(r) ==
    /\ req[r].stage = "moved"
    /\ live' = [live EXCEPT ![req[r].path] = req[r].content]
    /\ req' = [req EXCEPT ![r] = IF @.gone THEN IdleRequest ELSE [@ EXCEPT !.stage = "placed"]]
    /\ UNCHANGED <<rows, rev, history, lock, now, started, faults>>

\* trash_live.
TrashLive(r) ==
    /\ req[r].stage = "gated"
    /\ req[r].op = "delete"
    /\ move_live(r, "Trash", req[r].path)
    /\ UNCHANGED <<rows, rev, lock, now, started, faults>>

\* Slip: no default for the hash of a path that never had a row.
NewRow_NoDefault(q) ==
    IF q.op = "put"
    THEN [hash |-> HashOf[q.content], deleted |-> FALSE, size |-> Size[q.content]]
    ELSE [hash    |-> IF q.cur # None THEN q.cur.hash ELSE None,
          deleted |-> TRUE,
          size    |-> IF q.cur # None THEN q.cur.size ELSE 0]

\* The row an accepted request writes.
NewRow(q) ==
    IF q.op = "put"
    THEN [hash |-> HashOf[q.content], deleted |-> FALSE, size |-> Size[q.content]]
    ELSE [hash    |-> IF q.cur # None THEN q.cur.hash ELSE NoHash,
          deleted |-> TRUE,
          size    |-> IF q.cur # None THEN q.cur.size ELSE 0]

\* upsert_entry and bump_revision.
WriteRow(q) ==
    /\ rows' = [rows EXCEPT ![q.path] = NewRow(q)]
    /\ rev' = rev + 1

\* Slip: the transaction is left open after the answer.
Commit_KeepsLock(r) ==
    /\ req[r].stage = "placed"
    /\ WriteRow(req[r])
    /\ req' = [req EXCEPT ![r] = IdleRequest]
    /\ UNCHANGED <<live, history, lock, now, started, faults>>

\* The transaction commits and the request is answered 200.
Commit(r) ==
    /\ req[r].stage = "placed"
    /\ WriteRow(req[r])
    /\ lock' = None
    /\ req' = [req EXCEPT ![r] = IdleRequest]
    /\ UNCHANGED <<live, history, now, started, faults>>

FaultCount == MapThenSumSet(LAMBDA k : faults[k], FaultKinds)

\* One failure of the environment.
Fault(kind) ==
    /\ kind \in Faults
    /\ FaultCount < MaxFaults
    /\ faults' = [faults EXCEPT ![kind] = @ + 1]

\* A statement or the COMMIT itself answers an error.  When the connection
\* dies after the server applied it, the row is written all the same.
CommitFails(r) ==
    /\ req[r].stage = "placed"
    /\ \/ Fault("commit") /\ UNCHANGED <<rows, rev, lock>>
       \/ Fault("uncertain") /\ WriteRow(req[r]) /\ lock' = None
    /\ req' = [req EXCEPT ![r].stage = "failed"]
    /\ UNCHANGED <<live, history, now, started>>

\* Dropping the transaction queues a ROLLBACK on its connection, which
\* reaches Postgres before or after the handler gets to `undo`.
Rollback(r) ==
    /\ lock = r
    /\ req[r].stage \in {"failed", "undone"}
    /\ lock' = None
    /\ req' = IF req[r].stage = "undone" THEN [req EXCEPT ![r] = IdleRequest] ELSE req
    /\ UNCHANGED <<rows, rev, live, history, now, started, faults>>

\* Slip: the new file is dropped, the archived one is not moved back.
Undo_NoRestore(r) ==
    /\ req[r].stage = "failed"
    /\ live' = [live EXCEPT ![req[r].path] = None]
    /\ req' = [req EXCEPT ![r] = IF lock = r THEN [@ EXCEPT !.stage = "undone"]
                                 ELSE IdleRequest]
    /\ UNCHANGED <<rows, rev, history, lock, now, started, faults>>

\* The history file a request's undo token names, as far as it is there.
UndoFile(q) ==
    IF q.undo = None THEN {}
    ELSE {e \in history[q.undo.tier][q.path] :
             e.ts = q.undo.entry.ts /\ e.seq = q.undo.entry.seq}

\* BlobStore::undo, best effort: drop the live file, move the archived one
\* back if it is still there.
Undo(r) ==
    LET q == req[r]
    IN  /\ q.stage = "failed"
        /\ \/ /\ UndoFile(q) = {}
              /\ live' = [live EXCEPT ![q.path] = None]
              /\ UNCHANGED history
           \/ \E e \in UndoFile(q) :
                 /\ live' = [live EXCEPT ![q.path] = e.content]
                 /\ history' = [history EXCEPT ![q.undo.tier][q.path] = @ \ {e}]
        /\ req' = [req EXCEPT ![r] = IF lock = r THEN [q EXCEPT !.stage = "undone"]
                                     ELSE IdleRequest]
        /\ UNCHANGED <<rows, rev, lock, now, started, faults>>

\* put_live fails after the archive (disk full): the error leaves the
\* handler before an undo token exists, and the transaction is dropped.
PutLiveFails(r) ==
    /\ req[r].stage = "moved"
    /\ Fault("blob")
    /\ lock' = IF lock = r THEN None ELSE lock
    /\ req' = [req EXCEPT ![r] = IdleRequest]
    /\ UNCHANGED <<rows, rev, live, history, now, started>>

\* The client closes the connection: the HTTP stack drops the handler at the
\* await it is in, and the transaction with it.  A blocking blob task that
\* was spawned (and is awaited at "gated" and "moved") runs on.
Disconnect(r) ==
    /\ req[r].stage \in {"begun", "gated", "moved", "placed"}
    /\ ~req[r].gone
    /\ Fault("disconnect")
    /\ lock' = IF lock = r THEN None ELSE lock
    /\ req' = [req EXCEPT ![r] = IF @.stage \in {"gated", "moved"}
                                 THEN [@ EXCEPT !.gone = TRUE] ELSE IdleRequest]
    /\ UNCHANGED <<rows, rev, live, history, now, started>>

\* The server process dies: transactions roll back, blob files stay.
Crash ==
    /\ \E r \in Requests : req[r].stage # "idle"
    /\ Fault("crash")
    /\ lock' = None
    /\ req' = [r \in Requests |-> IdleRequest]
    /\ UNCHANGED <<rows, rev, live, history, now, started>>

-----------------------------------------------------------------------------
(* Retention (retention.rs run_once), one directory at a time, unlocked     *)

\* saturating_sub
Age(e) == IF e.ts > now THEN 0 ELSE now - e.ts

\* Slip: sorted oldest first.
NewestCuts_Oldest(entries, n) ==
    {K \in SUBSET entries :
        /\ Cardinality(K) = IF Cardinality(entries) < n THEN Cardinality(entries) ELSE n
        /\ \A k \in K, e \in entries \ K : k.ts <= e.ts}

\* The first n entries of entries_newest_first, which sorts by second only:
\* entries of the same second come in the order of the directory.
NewestCuts(entries, n) ==
    {K \in SUBSET entries :
        /\ Cardinality(K) = IF Cardinality(entries) < n THEN Cardinality(entries) ELSE n
        /\ \A k \in K, e \in entries \ K : k.ts >= e.ts}

prune_versions(p) ==
    \E kept \in NewestCuts(history["Versions"][p], MAX_VERSIONS_PER_FILE) :
        history' = [history EXCEPT !["Versions"][p] =
                       {e \in kept : Age(e) <= VERSION_RETENTION_SECS}]

prune_trash(p) ==
    history' = [history EXCEPT !["Trash"][p] =
                   {e \in @ : Age(e) <= TRASH_RETENTION_SECS}]

Prune ==
    /\ \E p \in Paths : prune_versions(p) \/ prune_trash(p)
    /\ history' # history
    /\ UNCHANGED <<rows, rev, live, lock, req, now, started, faults>>

\* Requests live for seconds, the history tiers keep their files for days:
\* no request outlives a retention period.
Tick ==
    /\ now < MaxTime
    /\ \A r \in Requests : req[r].stage # "idle" =>
          now < req[r].ts + Min({VERSION_RETENTION_SECS, TRASH_RETENTION_SECS})
    /\ now' = now + 1
    /\ UNCHANGED <<rows, rev, live, history, lock, req, started, faults>>

-----------------------------------------------------------------------------
(* What the history routes serve (routes/history.rs)                       *)

\* Slip: the names are sorted the other way.
newest_First(entries) ==
    CHOOSE e \in entries : \A f \in entries : e.ts < f.ts \/ (e.ts = f.ts /\ e.seq <= f.seq)

\* The first name of list_history: later in a second means a higher suffix.
newest(entries) ==
    CHOOSE e \in entries : \A f \in entries : e.ts > f.ts \/ (e.ts = f.ts /\ e.seq >= f.seq)

list_versions(p) == history["Versions"][p]

get_version(e) == e.content

\* The tombstones of paths that were stored once, whatever the tier holds.
list_trash == {p \in Paths : rows[p] # None /\ rows[p].deleted /\ rows[p].hash # NoHash}

get_trash(p) == IF history["Trash"][p] = {} THEN None ELSE newest(history["Trash"][p]).content

-----------------------------------------------------------------------------
Step(r) ==
    \/ LockAndCheck(r) \/ ArchiveVersion(r) \/ PutLive(r) \/ TrashLive(r)
    \/ Commit(r) \/ Undo(r) \/ Rollback(r)

Next ==
    \/ \E r \in Requests :
          Begin(r) \/ Step(r) \/ CommitFails(r) \/ PutLiveFails(r) \/ Disconnect(r)
    \/ Crash
    \/ Prune
    \/ Tick

Spec == Init /\ [][Next]_vars

\* A handler that started runs on; Postgres queues the waiters of a row lock
\* in order, so a waiter is not passed over for ever.
Fairness == \A r \in Requests : WF_vars(Step(r)) /\ SF_vars(LockAndCheck(r))

FairSpec == Spec /\ Fairness

-----------------------------------------------------------------------------
(* Properties                                                              *)

\* Path p is under a write whose row is not committed yet.
Unsettled(r, p) == req[r].path = p /\ req[r].stage \in {"moved", "placed", "failed"}

\* Nothing has failed but statements of the transaction, which `undo` covers.
OnlyCommitsFailed == \A k \in FaultKinds \ {"commit"} : faults[k] = 0

\* "The row and the file never disagree" (files.rs, apply_put): outside a
\* write in progress, a live row has the blob it was committed with and any
\* other row has none, failed commits included.
RowBlobAgree ==
    OnlyCommitsFailed =>
        \A p \in Paths : (\A r \in Requests : ~Unsettled(r, p)) =>
            IF IsLive(rows[p])
            THEN live[p] # None /\ HashOf[live[p]] = rows[p].hash
            ELSE live[p] = None

\* Whatever fails between the blob and the row, the content of a live row is
\* still in some tier: for ever when nothing failed, else until a retention
\* period has passed or MAX_VERSIONS_PER_FILE writes were cut off.  The
\* exception is the commit that answers an error after it was applied:
\* `undo` then drops the blob of the row that stands.
RowContentKept ==
    (/\ faults["uncertain"] = 0
     /\ \/ FaultCount = 0
        \/ /\ FaultCount < MAX_VERSIONS_PER_FILE
           /\ now <= Min({VERSION_RETENTION_SECS, TRASH_RETENTION_SECS}))
    => \A p \in Paths : IsLive(rows[p]) =>
          \/ live[p] # None /\ HashOf[live[p]] = rows[p].hash
          \/ \E t \in Tiers : \E e \in history[t][p] : HashOf[e.content] = rows[p].hash

\* A commit that replaces or deletes a live row leaves the old content where
\* the history routes find it, as a listed version or as the path's trashed
\* file (spec 4.3, 8.1, 9): restore can bring it back.
HistoryComplete ==
    [][\A p \in Paths : IsLive(rows[p]) /\ rows'[p] # rows[p] =>
          LET restorable(q) == {HashOf[get_version(e)] : e \in list_versions(q)}
                               \cup {HashOf[c] : c \in {get_trash(q)} \ {None}}
          IN  rows[p].hash \in restorable(p)']_vars

\* A file the trash lists opens to the content that was deleted last, also
\* after several deletes of the path and deletes whose commit failed
\* (get_trash takes the newest blob, the listing comes from the rows).
TrashHoldsDeleted ==
    OnlyCommitsFailed /\ now <= TRASH_RETENTION_SECS =>
        \A p \in list_trash : (\A r \in Requests : ~Unsettled(r, p)) =>
            get_trash(p) # None /\ HashOf[get_trash(p)] = rows[p].hash

\* The byte budget is checked under the lock that the commit releases, so
\* two puts to different paths cannot both take the last free bytes.
QuotaHolds ==
    MapThenSumSet(LAMBDA q : rows[q].size, {q \in Paths : IsLive(rows[q])}) <= MaxVaultBytes

\* Every write request is answered: no lock is left behind.
RequestEnds == \A r \in Requests : (req[r].stage # "idle") ~> (req[r].stage = "idle")

-----------------------------------------------------------------------------
(* The handlers implement GateService.  The abstract body of a path under  *)
(* an uncommitted write is the one `undo` would restore.                   *)
AbsRows == [p \in Paths |-> IF rows[p] = None THEN None
                            ELSE [hash |-> rows[p].hash, deleted |-> rows[p].deleted]]

AbsBody ==
    [p \in Paths |->
        IF \E r \in Requests : Unsettled(r, p)
        THEN LET r == CHOOSE r \in Requests : Unsettled(r, p)
             IN  IF req[r].undo = None THEN None ELSE req[r].undo.entry.content
        ELSE live[p]]

\* A request is waiting for its answer until it commits or fails.
AbsCall ==
    [r \in Requests |->
        IF req[r].stage \in {"begun", "gated", "moved", "placed"} /\ ~req[r].gone
        THEN [op |-> req[r].op, path |-> req[r].path, parent |-> req[r].parent,
              hash |-> HashOf[req[r].content], content |-> req[r].content]
        ELSE None]

Service == INSTANCE GateService
    WITH rows <- AbsRows, body <- AbsBody, rev <- rev, call <- AbsCall

\* Two devices racing on one path get exactly one 200 and one 409 (files.rs,
\* module comment): every accepted write takes effect as one gated step on
\* the row and the blob together.
ImplementsService == Service!ServiceSpec
=============================================================================
