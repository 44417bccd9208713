------------------------------- MODULE Vaults -------------------------------
(***************************************************************************)
(* The vaults of one account: their rows and blob directories on the       *)
(* server, and what each device keeps of them (server/src/routes/vaults.rs *)
(* and me.rs, retention.rs, core/src/api_client.rs, the CLI and mobile     *)
(* commands). Files are module VaultServer's; here a write only matters    *)
(* because it makes a directory. Names, sizes and ignore rules are left    *)
(* out; that a wrapped key opens is module AccountKeys'.                   *)
(***************************************************************************)
EXTENDS Naturals, FiniteSets, Sequences

CONSTANTS
    None,
    Devices,
    Platform,                          \* the host program of each device
    Vault,                             \* the ids that can be minted
    max_vaults_per_user,
    MaxWrites, MaxFaults, MaxSignIns, MaxCommands        \* bounds

ASSUME VaultsAssumption ==
    /\ Platform \in [Devices -> {"cli", "desktop", "mobile"}]
    /\ max_vaults_per_user \in Nat \ {0}

VARIABLES
    rows,        \* rows of vaults (owner, membership and wrapped key with them)
    attached,    \* rows of device_vaults
    dirs,        \* blob directories: "none", "young", or "old" enough to sweep
    doomed,      \* directories a delete handler is about to remove
    sweep,       \* the retention pass: None, or the candidates left and the one
                 \* found to be an orphan
    writes,      \* vaults with an accepted upload that is not stored yet
    minted,      \* ids in use or used up
    session,     \* "in", "out", or "dead": a bearer without a session behind it
    config,      \* vaults each device lists in its configuration
    keys,        \* vault keys in each device's keychain
    cmd,         \* the command each device is running
    writeCount, faults, signins, commands

server == <<rows, attached, dirs, doomed, sweep, writes, minted>>
local == <<session, config, keys>>
counts == <<writeCount, faults, signins, commands>>
vaultVars == <<server, local, cmd, counts>>

Idle == [stage |-> "idle"]

VaultsInit ==
    /\ rows = {} /\ attached = {} /\ doomed = {} /\ writes = {} /\ minted = {}
    /\ dirs = [v \in Vault |-> "none"]
    /\ sweep = None
    /\ session = [d \in Devices |-> "in"]
    /\ config = [d \in Devices |-> {}]
    /\ keys = [d \in Devices |-> {}]
    /\ cmd = [d \in Devices |-> Idle]
    /\ writeCount = 0 /\ faults = 0 /\ signins = 0 /\ commands = 0

-----------------------------------------------------------------------------
(* Server: rows.                                                           *)

\* require_member and require_owner: one account, so a member is the owner
require_member(d, v) == session[d] = "in" /\ v \in rows

list_for_member(d) == IF session[d] = "in" THEN rows ELSE {}

\* Slip: creates of one owner do not wait for each other
lock_free_Never == TRUE

\* pg_advisory_xact_lock(owner), held from the count to the commit
lock_free == \A d \in Devices : cmd[d].stage # "counted"

create_allowed == Cardinality(rows) < max_vaults_per_user

insert_vault(v) == rows' = rows \cup {v}

\* Slip: the rows of device_vaults stay
delete_rows_Dangling(gone) ==
    /\ rows' = rows \ gone
    /\ doomed' = doomed \cup gone
    /\ UNCHANGED attached

\* a deleted row takes its device_vaults along
delete_rows(gone) ==
    /\ rows' = rows \ gone
    /\ attached' = {a \in attached : a[2] \notin gone}
    /\ doomed' = doomed \cup gone

attach_self(d, v) == attached' = attached \cup {<<d, v>>}
detach_self(d, v) == attached' = attached \ {<<d, v>>}

-----------------------------------------------------------------------------
(* Server: directories.                                                    *)

SetDir(v, age) == dirs' = [dirs EXCEPT ![v] = age]

\* the second half of delete_vault and delete_account: after the commit, and
\* skipped when the process dies or an earlier directory fails
remove_blobs(v) ==
    /\ v \in doomed
    /\ doomed' = doomed \ {v}
    /\ \/ SetDir(v, "none") /\ UNCHANGED faults
       \/ faults < MaxFaults /\ faults' = faults + 1 /\ UNCHANGED dirs
    /\ UNCHANGED <<rows, attached, sweep, writes, minted, local, cmd, writeCount, signins,
                   commands>>

\* an upload passes the membership check ...
AcceptWrite(d, v) ==
    /\ writeCount < MaxWrites
    /\ require_member(d, v) /\ v \in config[d] \cap keys[d] /\ v \notin writes
    /\ writeCount' = writeCount + 1
    /\ writes' = writes \cup {v}
    /\ UNCHANGED <<rows, attached, dirs, doomed, sweep, minted, local, cmd, faults, signins,
                   commands>>

\* ... and makes the directory, also when the vault is gone by then: its row
\* then fails and the directory stays
StoreWrite(v) ==
    /\ v \in writes
    /\ writes' = writes \ {v}
    /\ SetDir(v, IF dirs[v] = "none" THEN "young" ELSE dirs[v])
    /\ UNCHANGED <<rows, attached, doomed, sweep, minted, local, cmd, counts>>

\* an hour passes (ORPHAN_GRACE_SECS)
Age(v) ==
    /\ dirs[v] = "young"
    /\ SetDir(v, "old")
    /\ UNCHANGED <<rows, attached, doomed, sweep, writes, minted, local, cmd, counts>>

\* Slip: directories the delete handlers failed on are not listed
orphan_candidates_Written == {v \in Vault : dirs[v] = "old" /\ v \in rows}

orphan_candidates == {v \in Vault : dirs[v] = "old"}

\* retention::run_once up to the listing of the directories
run_once ==
    /\ sweep = None
    /\ orphan_candidates # {}
    /\ sweep' = [left |-> orphan_candidates, orphan |-> None]
    /\ UNCHANGED <<rows, attached, dirs, doomed, writes, minted, local, cmd, counts>>

\* the pass over the candidates left
Rest(left) == IF left = {} THEN None ELSE [left |-> left, orphan |-> None]

is_orphan(v) == v \notin rows

\* sweep_orphans: each candidate is looked up on its own ...
lookup_orphan ==
    /\ sweep # None /\ sweep.orphan = None
    /\ \E v \in sweep.left :
          sweep' = IF is_orphan(v) THEN [left |-> sweep.left \ {v}, orphan |-> v]
                                   ELSE Rest(sweep.left \ {v})
    /\ UNCHANGED <<rows, attached, dirs, doomed, writes, minted, local, cmd, counts>>

\* ... and removed after an await
remove_orphan ==
    /\ sweep # None /\ sweep.orphan # None
    /\ SetDir(sweep.orphan, "none")
    /\ sweep' = Rest(sweep.left)
    /\ UNCHANGED <<rows, attached, doomed, writes, minted, local, cmd, counts>>

\* an error of the database or the disk ends the pass
SweepFails ==
    /\ sweep # None
    /\ faults < MaxFaults /\ faults' = faults + 1
    /\ sweep' = None
    /\ UNCHANGED <<rows, attached, dirs, doomed, writes, minted, local, cmd, writeCount, signins,
                   commands>>

-----------------------------------------------------------------------------
(* Commands. A desktop command ends in "reconcile", the others in "idle".  *)

SetCmd(d, c) == cmd' = [cmd EXCEPT ![d] = c]
Done(d) == IF Platform[d] = "desktop" THEN [stage |-> "reconcile"] ELSE Idle

Begin(d) ==
    /\ cmd[d].stage = "idle" /\ commands < MaxCommands
    /\ commands' = commands + 1

\* whether the program attaches before it has the key, or at the end
Attaches(d) == IF Platform[d] = "mobile" THEN "first" ELSE "last"

\* POST /vaults up to the count, with an id minted by the client
create_vault(d) ==
    /\ Begin(d) /\ session[d] = "in"
    /\ lock_free
    /\ \E v \in Vault \ minted :
          /\ minted' = minted \cup {v}
          /\ SetCmd(d, IF create_allowed
                       THEN [stage |-> "counted", vault |-> v, attach |-> Attaches(d)]
                       ELSE Done(d))
    /\ UNCHANGED <<rows, attached, dirs, doomed, sweep, writes, local, writeCount, faults, signins>>

\* what follows the answer to a create
Answered(d) == IF cmd[d].attach = "first" THEN "attach" ELSE "key"

\* the insert and the commit, whose answer may be lost. A session that ended
\* meanwhile took the owner along, and the insert has nobody to refer to.
CreateCommit(d) ==
    /\ cmd[d].stage = "counted"
    /\ \/ /\ session[d] = "in"
          /\ insert_vault(cmd[d].vault)
          /\ \/ SetCmd(d, [cmd[d] EXCEPT !.stage = Answered(d)]) /\ UNCHANGED faults
             \/ faults < MaxFaults /\ faults' = faults + 1 /\ SetCmd(d, Done(d))
       \/ session[d] # "in" /\ SetCmd(d, Done(d)) /\ UNCHANGED <<rows, faults>>
    /\ UNCHANGED <<attached, dirs, doomed, sweep, writes, minted, local, writeCount, signins,
                   commands>>

\* each program's create: a new key is wrapped and the request sent
run_init(d) == Platform[d] = "cli" /\ create_vault(d)
mobile_create_vault(d) == Platform[d] = "mobile" /\ create_vault(d)

\* GET /vaults, the vault and its wrapped key are in the answer; every program
\* attaches once it has the vault
list_vaults(d) ==
    /\ Begin(d) /\ session[d] = "in"
    /\ \E v \in list_for_member(d) \ config[d] :
          SetCmd(d, [stage |-> "key", vault |-> v, attach |-> "last"])
    /\ UNCHANGED <<server, local, writeCount, faults, signins>>

run_download(d) == Platform[d] = "cli" /\ list_vaults(d)
mobile_download(d) == Platform[d] = "mobile" /\ list_vaults(d)

\* the vault key goes into the keychain
save_secret(d) ==
    /\ cmd[d].stage = "key"
    /\ keys' = [keys EXCEPT ![d] = @ \cup {cmd[d].vault}]
    /\ SetCmd(d, [cmd[d] EXCEPT !.stage = "config"])
    /\ UNCHANGED <<server, session, config, counts>>

\* the apps keep a list; the CLI's file names one vault
upsert_vault(d, v) == config[d] \cup {v}
saved_config(d, v) == IF Platform[d] = "cli" THEN {v} ELSE upsert_vault(d, v)

save_config(d) ==
    /\ cmd[d].stage = "config"
    /\ config' = [config EXCEPT ![d] = saved_config(d, cmd[d].vault)]
    /\ SetCmd(d, IF cmd[d].attach = "first" THEN Done(d) ELSE [cmd[d] EXCEPT !.stage = "attach"])
    /\ UNCHANGED <<server, session, keys, counts>>

\* PUT /vaults/{id}/devices/self: 404 leaves the entry and the key
attach_device(d) ==
    /\ cmd[d].stage = "attach"
    /\ IF require_member(d, cmd[d].vault)
       THEN /\ attach_self(d, cmd[d].vault)
            /\ SetCmd(d, IF cmd[d].attach = "first" THEN [cmd[d] EXCEPT !.stage = "key"]
                                                    ELSE Done(d))
       ELSE SetCmd(d, Done(d)) /\ UNCHANGED attached
    /\ UNCHANGED <<rows, dirs, doomed, sweep, writes, minted, local, counts>>

\* the vaults a command forgets one by one, the one it is about or all of the
\* account's
Forget(d, what, gone) ==
    IF gone = {} THEN Done(d) ELSE [stage |-> "forget", what |-> what, gone |-> gone]

\* Remove from this device: best effort on the server, also when signed out,
\* then the entry goes before the key
detach_device(d, v) ==
    /\ Platform[d] # "cli"
    /\ Begin(d)
    /\ v \in config[d]
    /\ UNCHANGED attached \/ (require_member(d, v) /\ detach_self(d, v))
    /\ SetCmd(d, Forget(d, "vault", {v}))
    /\ UNCHANGED <<rows, dirs, doomed, sweep, writes, minted, local, writeCount, faults, signins>>

\* DELETE /vaults/{id}: the rows now, the blobs after the commit
delete_vault(d, v) ==
    /\ Platform[d] # "cli"
    /\ Begin(d)
    /\ require_member(d, v)
    /\ delete_rows({v})
    /\ SetCmd(d, Forget(d, "vault", {v}))
    /\ UNCHANGED <<dirs, sweep, writes, minted, local, writeCount, faults, signins>>

forget_all_vaults(d) == Forget(d, "account", config[d])

\* DELETE /auth/me: every session of the account ends with it
delete_account(d) ==
    /\ Platform[d] # "cli"
    /\ Begin(d) /\ session[d] = "in"
    /\ delete_rows(rows)
    /\ session' = [e \in Devices |-> IF e = d \/ session[e] = "out" THEN "out" ELSE "dead"]
    /\ SetCmd(d, forget_all_vaults(d))
    /\ UNCHANGED <<dirs, sweep, writes, minted, config, keys, writeCount, faults, signins>>

\* Slip: the key is deleted before the entry
forget_config_KeyFirst(d, v) ==
    /\ keys' = [keys EXCEPT ![d] = @ \ {v}]
    /\ UNCHANGED config

\* forget_vault, first half
forget_config(d, v) ==
    /\ config' = [config EXCEPT ![d] = @ \ {v}]
    /\ UNCHANGED keys

ForgetConfig(d) ==
    /\ cmd[d].stage = "forget"
    /\ \E v \in cmd[d].gone :
          /\ forget_config(d, v)
          /\ SetCmd(d, [stage |-> "forgetKey", what |-> cmd[d].what, vault |-> v,
                        gone |-> cmd[d].gone \ {v}])
    /\ UNCHANGED <<server, session, counts>>

\* forget_vault, second half; the loop goes on with the next vault
ForgetKey(d) ==
    /\ cmd[d].stage = "forgetKey"
    /\ keys' = [keys EXCEPT ![d] = @ \ {cmd[d].vault}]
    /\ SetCmd(d, Forget(d, cmd[d].what, cmd[d].gone))
    /\ UNCHANGED <<server, session, config, counts>>

Login(d) ==
    /\ cmd[d].stage = "idle" /\ session[d] # "in"
    /\ signins < MaxSignIns
    /\ signins' = signins + 1
    /\ session' = [session EXCEPT ![d] = "in"]
    /\ SetCmd(d, Done(d))
    /\ UNCHANGED <<server, config, keys, writeCount, faults, commands>>

Logout(d) ==
    /\ cmd[d].stage = "idle" /\ session[d] # "out"
    /\ session' = [session EXCEPT ![d] = "out"]
    /\ attached' = {a \in attached : a[1] # d}
    /\ SetCmd(d, Done(d))
    /\ UNCHANGED <<rows, dirs, doomed, sweep, writes, minted, config, keys, counts>>

\* a 401 makes the desktop forget its bearer, and nothing else
forget_bearer_on_401(d) ==
    /\ Platform[d] = "desktop" /\ session[d] = "dead"
    /\ session' = [session EXCEPT ![d] = "out"]
    /\ UNCHANGED <<server, config, keys, cmd, counts>>

ServerStep ==
    \/ \E v \in Vault : remove_blobs(v) \/ StoreWrite(v) \/ Age(v)
    \/ \E v \in Vault, d \in Devices : AcceptWrite(d, v)
    \/ run_once \/ lookup_orphan \/ remove_orphan \/ SweepFails

NewVault(d) ==
    \/ run_init(d) \/ mobile_create_vault(d)
    \/ run_download(d) \/ mobile_download(d)

\* what a user starts
Command(d) ==
    \/ NewVault(d) \/ delete_account(d) \/ Login(d) \/ Logout(d)
    \/ \E v \in Vault : detach_device(d, v) \/ delete_vault(d, v)

\* the rest of a command that has begun
CommandStep(d) ==
    \/ CreateCommit(d) \/ save_secret(d) \/ save_config(d) \/ attach_device(d)
    \/ ForgetConfig(d) \/ ForgetKey(d)

VaultsNext == ServerStep \/ \E d \in Devices : Command(d) \/ CommandStep(d)

\* an accepted upload is stored, time passes, and the pass runs every hour
VaultsFairness ==
    /\ WF_vaultVars(\E v \in Vault : StoreWrite(v))
    /\ WF_vaultVars(\E v \in Vault : Age(v))
    /\ WF_vaultVars(run_once \/ lookup_orphan \/ remove_orphan)

\* the account with its CLIs and phones; module DesktopHost adds the Mac
VaultsSpec == VaultsInit /\ [][VaultsNext]_vaultVars /\ VaultsFairness

-----------------------------------------------------------------------------
(* Properties.                                                             *)

\* The types, and what a transaction keeps: a device is attached to vaults
\* that exist, and only directories of deleted vaults are doomed (the rows of
\* device_vaults go with their vault).
VaultsTypeOK ==
    /\ rows \subseteq minted /\ minted \subseteq Vault
    /\ attached \subseteq Devices \X rows
    /\ dirs \in [Vault -> {"none", "young", "old"}]
    /\ doomed \cap rows = {} /\ writes \subseteq minted
    /\ sweep = None \/ sweep \in [left : SUBSET Vault, orphan : Vault \cup {None}]
    /\ session \in [Devices -> {"in", "out", "dead"}]
    /\ config \in [Devices -> SUBSET minted]
    /\ keys \in [Devices -> SUBSET minted]

\* Two devices that create a vault at once stay within the account's limit
\* (vaults::create counts and inserts under one advisory lock).
VaultLimitHolds == Cardinality(rows) =< max_vaults_per_user

\* A directory without a vault goes in the end: left by a server that died
\* after the commit, by a delete that stopped half way, or made by an upload
\* that was under way when its vault was deleted (retention::run_once).
OrphansGo ==
    \A v \in Vault : dirs[v] # "none" /\ v \notin rows ~> dirs[v] = "none"

\* A vault a device lists has its key in the keychain, at every step of every
\* command and after a crash (the key is saved before the entry, the entry
\* goes before the key), so a listed vault is never locked.
ListedVaultHasKey == \A d \in Devices : config[d] \subseteq keys[d]
=============================================================================
