----------------------------- MODULE SyncEngine -----------------------------
(***************************************************************************)
(* Devices that sync one vault through the server of FileGate              *)
(* (core/src/sync_engine.rs, prepare_sync and complete_sync, and the       *)
(* requests of core/src/api_client.rs they make).                          *)
(*                                                                         *)
(* A cycle walks the folder, fetches the manifest through the ETag cache,  *)
(* diffs the two against the last checkpoint, applies deletes and          *)
(* downloads, resolves conflicts by the user's choices, uploads in batches *)
(* and writes the next checkpoint.  Each of these awaits the network or    *)
(* the disk, so the user and the other devices act between any two.        *)
(*                                                                         *)
(* A request that only reads is one step at the moment the server answers; *)
(* a batch is applied operation by operation, each in its own transaction. *)
(* Failures of the network, of the server and of a process draw on one     *)
(* finite budget.  What fails to write the two cache files is only logged  *)
(* by the code and is left out, as is the best-effort report of the        *)
(* checkpoint revision, which no later cycle reads.                        *)
(***************************************************************************)
EXTENDS FileGate, SyncRules, Sequences, FiniteSets

CONSTANTS
    Devices,
    HashOf,          \* the keyed hash of a content (hasher.rs)
    PathOrder,       \* Paths in the order of a BTreeMap
    CopyOf,          \* conflict_copy_path, on the paths that may be copied
    Oversize,        \* contents the server refuses with 413
    UserChoices,     \* the choices offered for a conflict
    InitialFiles,    \* what a path may hold at the start
    Joining,         \* devices that have not synced this vault yet
    InitiallyIgnored,\* the paths each device's config ignores at the start
    BATCH_MAX_OPS,
    MAX_ATTEMPTS,    \* sends of one batch
    MaxActive,       \* bound: devices inside a cycle at the same time
    EditMidCycle,    \* whether the user edits a device inside a cycle
    ResumePlans,     \* whether the user answers conflicts an earlier cycle left
    MaxEdits,        \* bound: user edits
    MaxIgnoreEdits,  \* bound: changes of an ignore pattern
    MaxRev,          \* bound: operations sent once this many writes landed
    MaxFaults        \* bound: failures

ASSUME EngineAssumption ==
    /\ IsFiniteSet(Devices) /\ None \notin Devices
    /\ HashOf \in [Contents -> Hashes]
    /\ PathOrder \in Seq(Paths)
    /\ {PathOrder[i] : i \in DOMAIN PathOrder} = Paths
    /\ \A i, j \in DOMAIN PathOrder : i # j => PathOrder[i] # PathOrder[j]
    /\ DOMAIN CopyOf \subseteq Paths
    /\ \A p \in DOMAIN CopyOf : CopyOf[p] \in Paths \ {p}
    /\ Oversize \subseteq Contents
    /\ UserChoices \subseteq ConflictResolutionChoice
    /\ InitialFiles \subseteq Contents \cup {None}
    /\ Joining \subseteq Devices
    /\ InitiallyIgnored \in [Devices -> SUBSET Paths]
    /\ BATCH_MAX_OPS \in Nat \ {0}
    /\ MAX_ATTEMPTS \in Nat \ {0}
    /\ {MaxActive, MaxEdits, MaxIgnoreEdits, MaxRev, MaxFaults} \subseteq Nat
    /\ {EditMidCycle, ResumePlans} \subseteq BOOLEAN

VARIABLES
    disk,      \* the files of each device's folder: a content, or None
    base,      \* .obsink/manifest.json: the last checkpoint
    cache,     \* the remote manifest cache: ETag and manifest, or None
    ignored,   \* the paths each device's config ignores
    job,       \* the cycle each device is in
    pending,   \* the conflicts the last cycle left, kept by the host
    archive,   \* what the server's history tiers hold of each path
    writer,    \* the device whose write each row came from, or None
    known,     \* the hashes each device has had on disk, or has shown its
               \* user as the other side of a conflict, per path
    edits, ignoreEdits, faults   \* how much of the bounds is used

local == <<disk, base, cache, ignored, job, pending>>
serverVars == <<gateVars, archive>>
ghosts == <<writer, known>>
counters == <<edits, ignoreEdits, faults>>
vars == <<rows, body, rev, archive, local, ghosts, counters>>

-----------------------------------------------------------------------------
(* State                                                                   *)

Cache == [etag : Nat, manifest : Manifests]

\* Neither a manifest nor a cache is taken for a missing one.
ASSUME CacheAssumption == None \notin Manifests /\ None \notin Cache

\* A BatchOp as it is sent, with the conflict it may turn into.
Op == [path : Paths, kind : {"Upload", "DeleteRemote"},
       parent : Hashes \cup {NoHash}, hash : Hashes \cup {NoHash},
       content : Contents \cup {None}]

Result == [status : {"200", "409", "413", "507"}, current : Entry \cup {None}]

Stages == {"idle", "walked", "downloading", "resolving", "uploading", "sending", "saving"}

\* The local variables of prepare_sync and complete_sync.
Job == [stage   : Stages,
        working : Manifests,       \* load_local_state
        deletes : SUBSET Paths,    \* plan.download, the DeleteLocal part
        fetches : SUBSET Paths,    \* plan.download, the Download part
        conflicts : Seq(Action),   \* plan.conflicts still to resolve
        uploads : Seq(Action),     \* uploads not yet in a batch
        ops     : Seq(Op),         \* the batch being sent
        results : Seq(Result),     \* its operations the server has run
        attempt : Nat,
        landed  : SUBSET Nat,      \* operations an earlier attempt already ran
        hold_back : SUBSET Paths,
        left    : Seq(Action),     \* conflicts deferred or found late
        fatal   : BOOLEAN]

IdleJob == [stage |-> "idle", working |-> EmptyManifest, deletes |-> {}, fetches |-> {},
            conflicts |-> <<>>, uploads |-> <<>>, ops |-> <<>>, results |-> <<>>,
            attempt |-> 0, landed |-> {}, hold_back |-> {}, left |-> <<>>,
            fatal |-> FALSE]

TypeOK ==
    /\ GateTypeOK
    /\ disk \in [Devices -> [Paths -> Contents \cup {None}]]
    /\ base \in [Devices -> Manifests]
    /\ cache \in [Devices -> Cache \cup {None}]
    /\ ignored \in [Devices -> SUBSET Paths]
    /\ job \in [Devices -> Job]
    /\ pending \in [Devices -> Seq(Action)]
    /\ archive \in [Paths -> SUBSET Contents]
    /\ writer \in [Paths -> Devices \cup {None}]
    /\ known \in [Devices -> [Paths -> SUBSET (Hashes \cup {NoHash})]]
    /\ {edits, ignoreEdits, faults} \subseteq Nat

HashIn(c) == IF c = None THEN None ELSE HashOf[c]

\* The devices that take part have synced the same files and nothing happened
\* since; a joining one has an empty folder, no checkpoint and no cache.
Init ==
    \E files \in [Paths -> InitialFiles] :
        /\ rows = [p \in Paths |-> IF files[p] = None THEN None ELSE Live(HashOf[files[p]])]
        /\ body = files
        /\ archive = [p \in Paths |-> {}]
        /\ rev = 0
        /\ disk = [d \in Devices |-> IF d \in Joining THEN [p \in Paths |-> None] ELSE files]
        /\ base = [d \in Devices |-> IF d \in Joining THEN EmptyManifest ELSE rows]
        /\ cache = [d \in Devices |-> IF d \in Joining THEN None
                                      ELSE [etag |-> 0, manifest |-> rows]]
        /\ ignored = InitiallyIgnored
        /\ job = [d \in Devices |-> IdleJob]
        /\ pending = [d \in Devices |-> <<>>]
        /\ writer = [p \in Paths |-> None]
        /\ known = [d \in Devices |->
                      [p \in Paths |-> {HashOf[c] : c \in {disk[d][p]} \ {None}}]]
        /\ edits = 0
        /\ ignoreEdits = 0
        /\ faults = 0

-----------------------------------------------------------------------------
(* The user                                                                *)

Learn(d, p, hashes) == known' = [known EXCEPT ![d][p] = @ \cup hashes]

\* Write, change or delete a file in the folder.
Edit(d, p) ==
    /\ edits < MaxEdits
    /\ EditMidCycle \/ job[d].stage = "idle"
    /\ \E c \in (Contents \cup {None}) \ {disk[d][p]} :
          /\ disk' = [disk EXCEPT ![d][p] = c]
          /\ Learn(d, p, IF c = None THEN {} ELSE {HashOf[c]})
    /\ edits' = edits + 1
    /\ UNCHANGED <<serverVars, base, cache, ignored, pending, job, writer, ignoreEdits, faults>>

\* The file is there whole or not at all: written beside, then renamed.
write_atomic(d, p, content) == disk' = [disk EXCEPT ![d][p] = content]

\* get_version and get_trash: any file of the history tiers, found again by the
\* server's listing.  The tiers forget nothing here (module VaultServer prunes).
get_history(p) == archive[p]

\* Restore a version or a deleted file: over whatever the folder holds, in or
\* out of a cycle, and without a look at the checkpoint.
write_restored(d, p) ==
    \E c \in get_history(p) \ {disk[d][p]} :
        /\ write_atomic(d, p, c)
        /\ Learn(d, p, {HashOf[c]})

Restore(d, p) ==
    /\ edits < MaxEdits
    /\ EditMidCycle \/ job[d].stage = "idle"
    /\ write_restored(d, p)
    /\ edits' = edits + 1
    /\ UNCHANGED <<serverVars, base, cache, ignored, pending, job, writer, ignoreEdits, faults>>

\* Add or remove a pattern of the vault's `ignore` setting.
EditIgnore(d, p) ==
    /\ ignoreEdits < MaxIgnoreEdits
    /\ job[d].stage = "idle"
    /\ ignored' = [ignored EXCEPT ![d] = IF p \in @ THEN @ \ {p} ELSE @ \cup {p}]
    /\ ignoreEdits' = ignoreEdits + 1
    /\ UNCHANGED <<serverVars, disk, base, cache, job, pending, ghosts, edits, faults>>

-----------------------------------------------------------------------------
(* prepare_sync                                                            *)

\* What the walker finds: the hashes of the files that are not ignored.
walked(d) == [p \in Paths |-> IF p \in ignored[d] THEN None ELSE HashIn(disk[d][p])]

\* A host runs one round at a time; MaxActive bounds how many devices do.
MayStart(d) ==
    /\ job[d].stage = "idle"
    /\ Cardinality({e \in Devices : job[e].stage # "idle"}) < MaxActive

\* load_local_state.
Walk(d) ==
    /\ MayStart(d)
    /\ job' = [job EXCEPT ![d].stage = "walked",
                          ![d].working = build_working_manifest(walked(d), base[d])]
    /\ UNCHANGED <<serverVars, disk, base, cache, ignored, pending, ghosts, counters>>

\* Slip: a cached manifest is never asked about again.
FetchedManifest_Stale(d) == IF cache[d] # None THEN cache[d].manifest ELSE rows

\* The route: a 304 (None) for the current revision, else the rows as one
\* snapshot.
get_manifest(etag) == IF etag = rev THEN None ELSE rows

\* get_manifest_if_changed with the cached ETag: 304 gives back the cached
\* manifest.
FetchedManifest(d) ==
    IF cache[d] = None THEN rows
    ELSE IF get_manifest(cache[d].etag) = None THEN cache[d].manifest
    ELSE get_manifest(cache[d].etag)

\* fetch_remote_manifest's effect on the cache file.
RefreshCache(d) ==
    cache' = [cache EXCEPT ![d] = [etag |-> rev, manifest |-> FetchedManifest(d)]]

\* Slip: the server's entries are not filtered.
diff_local_and_remote_RemoteUnfiltered(d, remote) ==
    LET keep(m) == [p \in Paths |-> IF p \in ignored[d] THEN None ELSE m[p]]
    IN  diff_manifests(keep(base[d]), keep(job[d].working), remote)

\* diff_local_and_remote: ignored paths leave all three manifests first.
diff_local_and_remote(d, remote) ==
    LET keep(m) == [p \in Paths |-> IF p \in ignored[d] THEN None ELSE m[p]]
    IN  diff_manifests(keep(base[d]), keep(job[d].working), keep(remote))

\* The members of a finite set of numbers, from the smallest on.
Ascending(S) ==
    [n \in 1..Cardinality(S) |-> CHOOSE k \in S : Cardinality({j \in S : j <= k}) = n]

\* The actions of some kinds, in path order.
ActionsOf(diff, kinds) ==
    LET at == Ascending({i \in DOMAIN PathOrder : diff[PathOrder[i]].kind \in kinds})
    IN  [n \in DOMAIN at |-> diff[PathOrder[at[n]]]]

FetchAndPlan(d) ==
    LET diff == diff_local_and_remote(d, FetchedManifest(d))
    IN  /\ job[d].stage = "walked"
        /\ RefreshCache(d)
        /\ job' = [job EXCEPT ![d].stage = "downloading",
                     ![d].deletes = {p \in Paths : diff[p].kind = "DeleteLocal"},
                     ![d].fetches = {p \in Paths : diff[p].kind = "Download"},
                     ![d].conflicts = ActionsOf(diff, {"Conflict"}),
                     ![d].uploads = ActionsOf(diff, {"Upload", "DeleteRemote"})]
        /\ known' = [known EXCEPT ![d] = [p \in Paths |->
                        IF diff[p].kind = "Conflict" THEN @[p] \cup {diff[p].remote.hash}
                        ELSE @[p]]]
        /\ UNCHANGED <<serverVars, disk, base, ignored, pending, writer, counters>>

\* One failure of the environment.
Fault ==
    /\ faults < MaxFaults
    /\ faults' = faults + 1

\* The route: the live blob, without the lock; None is a 404.
get_file(p) == body[p]

decrypt_and_write(d, p, content) ==
    /\ write_atomic(d, p, content)
    /\ Learn(d, p, {HashOf[content]})

\* delete_local_file: deletes run before any fetch.
DeleteLocal(d, p) ==
    /\ job[d].stage = "downloading"
    /\ p \in job[d].deletes
    /\ disk' = [disk EXCEPT ![d][p] = None]
    /\ job' = [job EXCEPT ![d].deletes = @ \ {p}]
    /\ UNCHANGED <<serverVars, base, cache, ignored, pending, ghosts, counters>>

\* It answers an error: recorded for this path only.
DeleteLocalFails(d, p) ==
    /\ job[d].stage = "downloading"
    /\ p \in job[d].deletes
    /\ Fault
    /\ job' = [job EXCEPT ![d].deletes = @ \ {p}, ![d].hold_back = @ \cup {p}]
    /\ UNCHANGED <<serverVars, disk, base, cache, ignored, pending, ghosts, edits, ignoreEdits>>

\* fetch_one: GET the live blob, decrypt and write it.  A path the server no
\* longer has is a 404, a failure of this path only.
FetchOne(d, p) ==
    /\ job[d].stage = "downloading"
    /\ job[d].deletes = {}
    /\ p \in job[d].fetches
    /\ \/ /\ get_file(p) # None
          /\ decrypt_and_write(d, p, get_file(p))
          /\ job' = [job EXCEPT ![d].fetches = @ \ {p}]
       \/ /\ get_file(p) = None
          /\ job' = [job EXCEPT ![d].fetches = @ \ {p}, ![d].hold_back = @ \cup {p}]
          /\ UNCHANGED <<disk, known>>
    /\ UNCHANGED <<serverVars, base, cache, ignored, pending, writer, counters>>

\* A failed fetch; a fatal one raises `stop`.
FetchOneFails(d, p) ==
    /\ job[d].stage = "downloading"
    /\ job[d].deletes = {}
    /\ p \in job[d].fetches
    /\ Fault
    /\ \E fatal \in BOOLEAN :
          job' = [job EXCEPT ![d].fetches = @ \ {p}, ![d].hold_back = @ \cup {p},
                             ![d].fatal = @ \/ fatal]
    /\ UNCHANGED <<serverVars, disk, base, cache, ignored, pending, ghosts, edits, ignoreEdits>>

\* The stage that follows once the downloads are done and while conflicts
\* are left.
AfterDownloads(conflicts) == IF conflicts = <<>> THEN "uploading" ELSE "resolving"

\* Every fetch ended, or `stop` is up: the fetches that had started have run
\* (FetchOne may go on until here), the others stay unrecorded.
DownloadsDone(d) ==
    /\ job[d].stage = "downloading"
    /\ job[d].deletes = {}
    /\ job[d].fetches = {} \/ job[d].fatal
    /\ job' = [job EXCEPT ![d].stage = AfterDownloads(job[d].conflicts), ![d].fetches = {}]
    /\ UNCHANGED <<serverVars, disk, base, cache, ignored, pending, ghosts, counters>>

-----------------------------------------------------------------------------
(* complete_sync: apply_resolutions                                        *)

\* The job after its first conflict is dealt with.
Resolved(d, uploads, deferred) ==
    [job EXCEPT ![d].conflicts = Tail(@),
                ![d].stage = AfterDownloads(Tail(job[d].conflicts)),
                ![d].uploads = @ \o uploads,
                ![d].hold_back = @ \cup {deferred[i].path : i \in DOMAIN deferred},
                ![d].left = @ \o deferred]

KeepRemote(d, conflict) ==
    LET p == conflict.path
    IN  \/ /\ conflict.remote.deleted
           /\ disk' = [disk EXCEPT ![d][p] = None]
           /\ job' = Resolved(d, <<>>, <<>>)
           /\ UNCHANGED known
        \/ /\ ~conflict.remote.deleted
           /\ get_file(p) # None
           /\ decrypt_and_write(d, p, get_file(p))
           /\ job' = Resolved(d, <<>>, <<>>)
        \/ /\ ~conflict.remote.deleted      \* 404: complete_sync returns the error
           /\ get_file(p) = None
           /\ job' = [job EXCEPT ![d] = IdleJob]
           /\ UNCHANGED <<disk, known>>

\* write_conflict_copy, then both files are queued; the copy's upload names
\* no parent.
KeepBoth(d, conflict) ==
    LET p == conflict.path
        copied == action(CopyOf[p], "Upload", Live(HashOf[get_file(p)]), None)
    IN  \/ /\ get_file(p) # None
           /\ decrypt_and_write(d, CopyOf[p], get_file(p))
           /\ job' = Resolved(d, <<conflict_to_upload(conflict), copied>>, <<>>)
        \/ /\ get_file(p) = None
           /\ job' = [job EXCEPT ![d] = IdleJob]
           /\ UNCHANGED <<disk, known>>

\* The user's choice for the first conflict left, applied.
Resolve(d, choice) ==
    LET conflict == Head(job[d].conflicts)
        effective == effective_choice(choice, conflict)
    IN  /\ job[d].stage = "resolving"
        /\ choice = "KeepBoth" => conflict.path \in DOMAIN CopyOf
        /\ \/ effective = "Defer" /\ job' = Resolved(d, <<>>, <<conflict>>)
              /\ UNCHANGED <<disk, known>>
           \/ effective = "KeepLocal" /\ job' = Resolved(d, <<conflict_to_upload(conflict)>>, <<>>)
              /\ UNCHANGED <<disk, known>>
           \/ effective = "KeepRemote" /\ KeepRemote(d, conflict)
           \/ effective = "KeepBoth" /\ KeepBoth(d, conflict)
        /\ UNCHANGED <<serverVars, base, cache, ignored, pending, writer, counters>>

\* The user answers the conflicts of an earlier cycle: complete_sync runs on
\* the kept plan, with no walk, no fetch and no downloads before it.  The plan
\* stays until the round succeeds.
ResumePlan(d) ==
    /\ ResumePlans
    /\ MayStart(d)
    /\ pending[d] # <<>>
    /\ job' = [job EXCEPT ![d].stage = "resolving", ![d].conflicts = pending[d]]
    /\ UNCHANGED <<serverVars, disk, base, cache, ignored, pending, ghosts, counters>>

-----------------------------------------------------------------------------
(* complete_sync: run_uploads                                              *)

\* prepare_batch_op: the file is read now, the hash is the walk's.
prepare_batch_op(d, act) ==
    [path |-> act.path, kind |-> act.kind, parent |-> parent_hash(act),
     hash |-> act.local.hash,
     content |-> IF act.kind = "Upload" THEN disk[d][act.path] ELSE None]

\* The request: one operation per member, in order.
build_batch_form(d, batch, members) ==
    [n \in DOMAIN members |-> prepare_batch_op(d, batch[members[n]])]

\* The next batch of chunk_uploads: sizes are not modelled, so any cut of at
\* most BATCH_MAX_OPS.  A file that cannot be read fails alone.
PrepareBatch(d) ==
    /\ job[d].stage = "uploading"
    /\ \E n \in 1..BATCH_MAX_OPS :
          LET batch == SubSeq(job[d].uploads, 1, n)
              readable(act) == act.kind = "Upload" => disk[d][act.path] # None
              members == Ascending({i \in 1..n : readable(batch[i])})
          IN  /\ n <= Len(job[d].uploads)
              /\ job' = [job EXCEPT
                    ![d].stage = IF members = <<>> THEN "uploading" ELSE "sending",
                    ![d].uploads = SubSeq(@, n + 1, Len(@)),
                    ![d].ops = build_batch_form(d, batch, members),
                    ![d].results = <<>>, ![d].attempt = 0, ![d].landed = {},
                    ![d].hold_back = @ \cup
                        {batch[i].path : i \in {j \in DOMAIN batch : ~readable(batch[j])}}]
    /\ UNCHANGED <<serverVars, disk, base, cache, ignored, pending, ghosts, counters>>

\* The operation of d's batch the server is about to run.
NextOp(d) == job[d].ops[Len(job[d].results) + 1]

Answer(d, status, current) ==
    job' = [job EXCEPT ![d].results = Append(@, [status |-> status, current |-> current])]

\* The bytes a write replaces or removes go to a history tier; who wrote the
\* row is remembered for the properties.
Wrote(d, p) ==
    /\ archive' = [archive EXCEPT ![p] = @ \cup ({body[p]} \ {None})]
    /\ writer' = [writer EXCEPT ![p] = d]

\* apply_operations: the server runs the next operation of the batch.
ServerPut(d) ==
    LET op == NextOp(d)
        gate == put_gate(rows[op.path], op.parent, op.hash)
    IN  /\ op.kind = "Upload"
        /\ \/ /\ op.content \in Oversize
              /\ Answer(d, "413", None)
              /\ UNCHANGED <<serverVars, writer>>
           \/ /\ op.content \notin Oversize
              /\ gate = "accept"
              /\ CommitPut(op.path, op.hash, op.content)
              /\ Wrote(d, op.path)
              /\ Answer(d, "200", None)
           \/ /\ op.content \notin Oversize
              /\ gate = "landed"
              /\ Answer(d, "200", None)
              /\ UNCHANGED <<serverVars, writer>>
           \/ /\ op.content \notin Oversize
              /\ gate = "conflict"
              /\ Answer(d, "409", rows[op.path])
              /\ UNCHANGED <<serverVars, writer>>

ServerDelete(d) ==
    LET op == NextOp(d)
    IN  /\ op.kind = "DeleteRemote"
        /\ \/ /\ delete_gate(rows[op.path], op.parent) = "accept"
              /\ CommitDelete(op.path)
              /\ Wrote(d, op.path)
              /\ Answer(d, "200", None)
           \/ /\ delete_gate(rows[op.path], op.parent) = "conflict"
              /\ Answer(d, "409", rows[op.path])
              /\ UNCHANGED <<serverVars, writer>>

ServerApplies(d) ==
    /\ job[d].stage = "sending"
    /\ Len(job[d].results) < Len(job[d].ops)
    /\ rev < MaxRev
    /\ ServerPut(d) \/ ServerDelete(d)
    /\ UNCHANGED <<disk, base, cache, ignored, pending, known, counters>>

\* The vault's byte budget is used up: 507 for a put, which is a server error
\* to the client.
ServerFull(d) ==
    /\ job[d].stage = "sending"
    /\ Len(job[d].results) < Len(job[d].ops)
    /\ NextOp(d).kind = "Upload"
    /\ Fault
    /\ Answer(d, "507", None)
    /\ UNCHANGED <<serverVars, disk, base, cache, ignored, pending, ghosts, edits, ignoreEdits>>

\* The paths of the operations whose result has one of these statuses.
Answered(d, statuses) ==
    {job[d].ops[i].path : i \in {j \in DOMAIN job[d].results :
                                   job[d].results[j].status \in statuses}}

\* The operations answered 409, as conflicts with the row they met.
LateConflicts(d) ==
    LET hits == Ascending({i \in DOMAIN job[d].results : job[d].results[i].status = "409"})
        conflict(i) == action(job[d].ops[i].path, "Conflict",
                              [hash |-> job[d].ops[i].hash,
                               deleted |-> job[d].ops[i].kind = "DeleteRemote"],
                              job[d].results[i].current)
    IN  [n \in DOMAIN hits |-> conflict(hits[n])]

\* The batch's answer arrives: a 409 is a late conflict, 413 a failure of
\* that file, 507 a fatal one that stops the remaining batches.
BatchAnswered(d) ==
    LET fatal == Answered(d, {"507"}) # {}
    IN  /\ job[d].stage = "sending"
        /\ Len(job[d].results) = Len(job[d].ops)
        /\ job' = [job EXCEPT
              ![d].stage = "uploading",
              ![d].hold_back = @ \cup Answered(d, {"409", "413", "507"}),
              ![d].fatal = @ \/ fatal,
              ![d].uploads = IF fatal THEN <<>> ELSE @,
              ![d].left = @ \o LateConflicts(d),
              ![d].ops = <<>>, ![d].results = <<>>, ![d].attempt = 0, ![d].landed = {}]
        /\ known' = [known EXCEPT ![d] = [p \in Paths |-> @[p] \cup
              {job[d].results[i].current.hash : i \in {j \in DOMAIN job[d].results :
                  job[d].ops[j].path = p /\ job[d].results[j].status = "409"}}]]
        /\ UNCHANGED <<serverVars, disk, base, cache, ignored, pending, writer, counters>>

\* No answer (timeout, connection lost), whatever the server ran so far: the
\* whole batch is sent again.
BatchResend(d) ==
    /\ job[d].stage = "sending"
    /\ job[d].attempt + 1 < MAX_ATTEMPTS
    /\ Fault
    /\ job' = [job EXCEPT ![d].attempt = @ + 1,
                          ![d].landed = @ \cup {i \in DOMAIN job[d].results :
                                                  job[d].results[i].status = "200"},
                          ![d].results = <<>>]
    /\ UNCHANGED <<serverVars, disk, base, cache, ignored, pending, ghosts, edits, ignoreEdits>>

\* The batch fails as a whole: no attempt left, a 5xx, or an answer that
\* cannot be read (which is not fatal).
BatchFails(d) ==
    /\ job[d].stage = "sending"
    /\ Fault
    /\ \E fatal \in BOOLEAN :
          job' = [job EXCEPT
              ![d].stage = "uploading",
              ![d].hold_back = @ \cup {job[d].ops[i].path : i \in DOMAIN job[d].ops},
              ![d].fatal = @ \/ fatal,
              ![d].uploads = IF fatal THEN <<>> ELSE @,
              ![d].ops = <<>>, ![d].results = <<>>, ![d].attempt = 0, ![d].landed = {}]
    /\ UNCHANGED <<serverVars, disk, base, cache, ignored, pending, ghosts, edits, ignoreEdits>>

-----------------------------------------------------------------------------
(* complete_sync: checkpoint                                               *)

CheckpointFetch(d) ==
    /\ job[d].stage = "uploading"
    /\ job[d].uploads = <<>>
    /\ ~job[d].fatal
    /\ RefreshCache(d)
    /\ job' = [job EXCEPT ![d].stage = "saving"]
    /\ UNCHANGED <<serverVars, disk, base, ignored, pending, ghosts, counters>>

\* The plan a host keeps: the conflicts of the result and nothing else.
from_late_conflicts(result) == result.left

\* The result is returned.
EndCycle(d) ==
    /\ job' = [job EXCEPT ![d] = IdleJob]
    /\ pending' = [pending EXCEPT ![d] = from_late_conflicts(job[d])]

CheckpointSave(d) ==
    /\ job[d].stage = "saving"
    /\ base' = [base EXCEPT ![d] =
                   checkpoint_manifest(base[d], cache[d].manifest, job[d].hold_back)]
    /\ EndCycle(d)
    /\ UNCHANGED <<serverVars, disk, cache, ignored, ghosts, counters>>

\* A fatal failure anywhere in the cycle skips the checkpoint.
SkipCheckpoint(d) ==
    /\ job[d].stage = "uploading"
    /\ job[d].uploads = <<>>
    /\ job[d].fatal
    /\ EndCycle(d)
    /\ UNCHANGED <<serverVars, disk, base, cache, ignored, ghosts, counters>>

\* Only the checkpoint is left to do.
CheckpointDue(d) ==
    \/ job[d].stage = "saving"
    \/ job[d].stage = "uploading" /\ job[d].uploads = <<>> /\ ~job[d].fatal

\* The process dies, or an error leaves prepare_sync, apply_resolutions or
\* the checkpoint: what the cycle did to the disk and the server stays.  A
\* kept plan survives an error, not the process; a failed checkpoint is a
\* result like any other, with the conflicts of this cycle.
Abort(d) ==
    /\ job[d].stage # "idle"
    /\ Fault
    /\ job' = [job EXCEPT ![d] = IdleJob]
    /\ \E kept \in {<<>>, IF CheckpointDue(d) THEN from_late_conflicts(job[d]) ELSE pending[d]} :
          pending' = [pending EXCEPT ![d] = kept]
    /\ UNCHANGED <<serverVars, disk, base, cache, ignored, ghosts, edits, ignoreEdits>>

\* remote_changed between cycles: a 200 refreshes the cache.
Poll(d) ==
    /\ job[d].stage = "idle"
    /\ cache[d] # None
    /\ cache[d].etag # rev
    /\ RefreshCache(d)
    /\ UNCHANGED <<serverVars, disk, base, ignored, pending, job, ghosts, counters>>

-----------------------------------------------------------------------------
\* The steps a running device takes by itself.
Engine(d) ==
    \/ Walk(d) \/ FetchAndPlan(d)
    \/ \E p \in Paths : DeleteLocal(d, p) \/ FetchOne(d, p)
    \/ DownloadsDone(d)
    \/ \E choice \in UserChoices : Resolve(d, choice)
    \/ PrepareBatch(d) \/ ServerApplies(d) \/ BatchAnswered(d)
    \/ CheckpointFetch(d) \/ CheckpointSave(d) \/ SkipCheckpoint(d)

Failure(d) ==
    \/ \E p \in Paths : DeleteLocalFails(d, p) \/ FetchOneFails(d, p)
    \/ ServerFull(d) \/ BatchResend(d) \/ BatchFails(d) \/ Abort(d)

Next ==
    \E d \in Devices :
        \/ \E p \in Paths : Edit(d, p) \/ Restore(d, p) \/ EditIgnore(d, p)
        \/ Engine(d)
        \/ ResumePlan(d)
        \/ Failure(d)
        \/ Poll(d)

Spec == Init /\ [][Next]_vars

\* Hosts keep starting cycles (timer, poll or the user), a cycle that started
\* runs on, and the user answers the conflicts of a plan.  Strong fairness of
\* Walk only matters where MaxActive makes the devices wait for each other.
Fairness == \A d \in Devices : WF_vars(Engine(d)) /\ SF_vars(Walk(d))

FairSpec == Spec /\ Fairness

-----------------------------------------------------------------------------
(* Properties                                                              *)

\* A manifest served from the cache on a 304 is the server's: the revision
\* never names two different tables (get_manifest's snapshot, bump_revision).
EtagSound ==
    \A d \in Devices : cache[d] # None =>
        /\ cache[d].etag <= rev
        /\ cache[d].etag = rev => cache[d].manifest = rows

\* "Retried/racing writes either succeed or surface a conflict, never silently
\* clobber" (docs/architecture.md): a device replaces or deletes a live
\* server version only if it has had that version on disk or has shown it to
\* its user as the other side of a conflict.
NoSilentClobber ==
    [][\A p \in Paths : rows'[p] # rows[p] /\ version(rows[p]) # None =>
          known[writer'[p]][p] \cap {rows[p].hash, HashOf[body[p]]} # {}]_vars

\* "Conflict detection means no silent data loss" (spec 14): the engine
\* replaces or removes a local file only if the server has its bytes, now or
\* as of the last checkpoint, or if they are the local side of a conflict
\* that the user has just decided against.
NoLocalLoss ==
    [][edits' = edits => \A d \in Devices, p \in Paths :
          disk[d][p] # None /\ disk'[d][p] # disk[d][p] =>
              \/ disk[d][p] = body[p]
              \/ HashOf[disk[d][p]] = version(base[d][p])
              \/ /\ job[d].stage = "resolving"
                 /\ Head(job[d].conflicts).path = p
                 /\ Head(job[d].conflicts).local = Live(HashOf[disk[d][p]])]_vars

\* Sending a batch again is safe (api_client.rs, batch): a device never gets
\* a 409 for a path whose last write was its own.
LateConflictIsForeign ==
    [][\A d \in Devices :
          /\ Len(job'[d].results) > Len(job[d].results)
          /\ job'[d].results[Len(job'[d].results)].status = "409"
          => writer[NextOp(d).path] # d]_vars

\* Without failures a device is never put in conflict with its own write:
\* the checkpoint moves past every path that landed.  A conflict copy is the
\* exception: write_conflict_copy queues an upload with no parent over
\* whatever has its fixed name, which may be the device's own earlier write.
PlannedConflictIsForeign ==
    [][\A d \in Devices :
          job[d].stage = "walked" /\ job'[d].stage = "downloading" =>
              \A i \in DOMAIN job'[d].conflicts :
                  \/ writer[job'[d].conflicts[i].path] # d
                  \/ job'[d].conflicts[i].path \in {CopyOf[q] : q \in DOMAIN CopyOf}]_vars

\* An ignored path is invisible (ignore.rs, diff_local_and_remote): the
\* engine of a device that ignores it changes neither its file nor its row.
\* The copies that KeepBoth makes are written whatever the patterns say.
IgnoredUntouched ==
    [][\A d \in Devices : job'[d] # job[d] =>
          \A p \in ignored[d] \ {CopyOf[q] : q \in DOMAIN CopyOf} :
              disk'[d][p] = disk[d][p] /\ rows'[p] = rows[p]]_vars

\* Once the edits and the failures stop, every folder ends up holding what
\* the server holds, for good, except where the device ignores the path or
\* keeps a file there that is too large to send.
Converges ==
    <>[](\A d \in Devices, p \in Paths :
            disk[d][p] = body[p] \/ p \in ignored[d] \/ disk[d][p] \in Oversize)
=============================================================================
