---------------------------- MODULE DesktopHost ----------------------------
(***************************************************************************)
(* The menu-bar app (desktop/src-tauri/src/main.rs) beside the vaults of   *)
(* its account: which daemons it runs, the in-flight marks its commands    *)
(* take, and the relays that mirror a daemon's events into them. What a    *)
(* daemon does inside a cycle is module Daemon's and module SyncEngine's.  *)
(*                                                                         *)
(* The map under its mutex is read and written in one step; a command      *)
(* gives way at every await. A daemon whose handle has left the map was    *)
(* told to stop, or sees its channel closed: it ends after its cycle.      *)
(***************************************************************************)
EXTENDS Vaults

CONSTANTS
    Mac,                 \* the device this app runs on
    Slots                \* bound: daemons of one vault that are alive at once

ASSUME HostAssumption ==
    /\ Mac \in Devices /\ Platform[Mac] = "desktop"
    /\ Slots \subseteq Nat \ {0}

VARIABLES
    daemons,     \* the handle in the map of each vault, 0 for none
    daemon,      \* what each spawned daemon is doing
    events,      \* its events the relay has not taken yet
    in_flight,   \* vaults marked busy
    plans,       \* vaults with conflicts the user has to resolve
    manual       \* the sync or resolution a command runs itself, by vault

hostVars == <<daemons, daemon, events, in_flight, plans, manual>>
vars == <<vaultVars, hostVars>>

NoDaemon == "none"

HostInit ==
    /\ daemons = [v \in Vault |-> 0]
    /\ daemon = [v \in Vault |-> [k \in Slots |-> NoDaemon]]
    /\ events = [v \in Vault |-> [k \in Slots |-> <<>>]]
    /\ in_flight = {} /\ plans = {}
    /\ manual = [v \in Vault |-> "none"]

Init == VaultsInit /\ HostInit

-----------------------------------------------------------------------------
(* Daemons.                                                                *)

\* key in the keychain, signed in
CanSync(v) == session[Mac] # "out" /\ v \in config[Mac] \cap keys[Mac]

FreeSlots(v) ==
    {k \in Slots : daemon[v][k] = NoDaemon \/ (daemon[v][k] = "dead" /\ daemons[v] # k)}

NewHandle(v) == CHOOSE k \in FreeSlots(v) : TRUE

\* Slip: daemons are started and never stopped
reconciled_StartOnly(v) == IF daemons[v] = 0 /\ CanSync(v) THEN NewHandle(v) ELSE daemons[v]

\* the handle of each vault after reconcile_daemons
reconciled(v) ==
    IF ~CanSync(v) THEN 0 ELSE IF daemons[v] = 0 THEN NewHandle(v) ELSE daemons[v]

\* reconcile_daemons, which ends every command that may change the set. Where
\* it would start more than Slots allows it waits for one to end.
reconcile_daemons ==
    /\ cmd[Mac].stage = "reconcile"
    /\ \A v \in Vault : FreeSlots(v) # {} \/ daemons[v] # 0 \/ ~CanSync(v)
    /\ daemons' = [v \in Vault |-> reconciled(v)]
    /\ daemon' = [v \in Vault |-> [k \in Slots |->
                     IF daemons'[v] = k /\ daemons[v] # k THEN "starting" ELSE daemon[v][k]]]
    /\ SetCmd(Mac, Idle)
    /\ UNCHANGED <<server, local, counts, events, in_flight, plans, manual>>

SetDaemon(v, k, pc) == daemon' = [daemon EXCEPT ![v][k] = pc]
Emit(v, k, event) == events' = [events EXCEPT ![v][k] = Append(@, event)]

\* run_daemon up to its loop. Without a watcher (the folder is not there) it
\* returns at once and sends no Stopped: the relay ends, the handle stays.
StartDaemon(v, k) ==
    /\ daemon[v][k] = "starting"
    /\ \/ SetDaemon(v, k, "idle") /\ UNCHANGED faults
       \/ faults < MaxFaults /\ faults' = faults + 1 /\ SetDaemon(v, k, "dead")
    /\ UNCHANGED <<server, local, cmd, writeCount, signins, commands>>
    /\ UNCHANGED <<daemons, events, in_flight, plans, manual>>

\* also once the handle is gone: the select takes a due trigger or the stop.
\* Bound: the relay is at most one cycle behind.
StartCycle(v, k) ==
    /\ daemon[v][k] = "idle" /\ events[v][k] = <<>>
    /\ SetDaemon(v, k, "cycle")
    /\ Emit(v, k, "SyncStarted")
    /\ UNCHANGED <<vaultVars, daemons, in_flight, plans, manual>>

\* SyncFinished, Conflicted (ConflictsPending before it), or Failed
EndCycle(v, k) ==
    /\ daemon[v][k] = "cycle"
    /\ SetDaemon(v, k, "idle")
    /\ \E event \in {"SyncFinished", "Conflicted", "Failed"} : Emit(v, k, event)
    /\ UNCHANGED <<vaultVars, daemons, in_flight, plans, manual>>

\* a poll that fails is reported without a cycle
FailedPoll(v, k) ==
    /\ daemon[v][k] = "idle" /\ events[v][k] = <<>>
    /\ Emit(v, k, "Failed")
    /\ UNCHANGED <<vaultVars, daemons, daemon, in_flight, plans, manual>>

\* Stop, or the channel closed when the last handle was dropped
EndDaemon(v, k) ==
    /\ daemon[v][k] = "idle" /\ daemons[v] # k
    /\ SetDaemon(v, k, "ended")
    /\ Emit(v, k, "Stopped")
    /\ UNCHANGED <<vaultVars, daemons, in_flight, plans, manual>>

set_pending_plan(v, pending) == plans' = IF pending THEN plans \cup {v} ELSE plans \ {v}

\* Slip: a failed cycle does not clear the mark
marked_FailedStays(v, event) ==
    IF event \in {"SyncStarted", "Failed"} THEN in_flight \cup {v} ELSE in_flight \ {v}

\* a cycle's start sets the mark; its end, however it ended, clears it
marked(v, event) == IF event = "SyncStarted" THEN in_flight \cup {v} ELSE in_flight \ {v}

\* one event; Stopped takes whatever handle the map has for the vault
relay_daemon_events(v, k) ==
    /\ events[v][k] # <<>>
    /\ LET event == Head(events[v][k])
       IN  /\ events' = [events EXCEPT ![v][k] = Tail(@)]
           /\ in_flight' = marked(v, event)
           /\ IF event \in {"SyncFinished", "Conflicted"}
              THEN set_pending_plan(v, event = "Conflicted") ELSE UNCHANGED plans
           /\ IF event = "Stopped"
              THEN /\ daemons' = [daemons EXCEPT ![v] = 0]
                   /\ SetDaemon(v, k, NoDaemon)
              ELSE UNCHANGED <<daemons, daemon>>
    /\ UNCHANGED <<vaultVars, manual>>

-----------------------------------------------------------------------------
(* Commands of the app.                                                    *)

\* these two take no mark; their end reconciles the daemons
create_vault_inner == create_vault(Mac) /\ UNCHANGED hostVars
download_vault_inner == list_vaults(Mac) /\ UNCHANGED hostVars

\* InFlightGuard::acquire
acquire(v) == v \notin in_flight /\ in_flight' = in_flight \cup {v}

\* remove_vault_inner and delete_remote_vault_inner hold the mark to the end
remove_vault_inner(v) ==
    /\ detach_device(Mac, v)
    /\ acquire(v)
    /\ UNCHANGED <<daemons, daemon, events, plans, manual>>

delete_remote_vault_inner(v) ==
    /\ delete_vault(Mac, v)
    /\ acquire(v)
    /\ UNCHANGED <<daemons, daemon, events, plans, manual>>

\* a removed vault's plan goes with its entry and the guard is dropped; an
\* account deletion leaves both to the relays
FinishForget ==
    /\ cmd[Mac].stage = "forgetKey"
    /\ ForgetKey(Mac)
    /\ LET released == IF cmd[Mac].what = "vault" THEN {cmd[Mac].vault} ELSE {}
       IN  plans' = plans \ released /\ in_flight' = in_flight \ released
    /\ UNCHANGED <<daemons, daemon, events, manual>>

\* delete_account_inner takes no mark
delete_account_inner ==
    /\ delete_account(Mac)
    /\ UNCHANGED hostVars

daemon_handle(v) == daemons[v]
stop_daemon(v) == daemons' = [daemons EXCEPT ![v] = 0]

\* move_vault_folder: stop_daemon, then the move itself, refused while a mark
\* is set; either way the daemons are reconciled. The folder is left out.
move_vault_folder(v) ==
    /\ cmd[Mac].stage = "idle" /\ v \in config[Mac]
    /\ commands < MaxCommands /\ commands' = commands + 1
    /\ stop_daemon(v)
    /\ SetCmd(Mac, [stage |-> "reconcile"])
    /\ UNCHANGED <<server, local, writeCount, faults, signins, daemon, events, in_flight, plans,
                   manual>>

\* sync_vault_inner without a daemon: run_sync supersedes an earlier plan.
\* With one, the command is the daemon's (module Daemon).
run_sync(v) ==
    /\ v \in config[Mac] \cap keys[Mac] /\ daemon_handle(v) = 0
    /\ commands < MaxCommands /\ commands' = commands + 1
    /\ manual[v] = "none"
    /\ acquire(v)
    /\ set_pending_plan(v, FALSE)
    /\ manual' = [manual EXCEPT ![v] = "sync"]
    /\ UNCHANGED <<server, local, cmd, writeCount, faults, signins, daemons, daemon, events>>

\* resolve_conflict_inner without a daemon: the plan stays until it succeeds
run_resolve(v) ==
    /\ v \in config[Mac] \cap keys[Mac] /\ daemon_handle(v) = 0
    /\ commands < MaxCommands /\ commands' = commands + 1
    /\ manual[v] = "none" /\ v \in plans
    /\ acquire(v)
    /\ manual' = [manual EXCEPT ![v] = "resolve"]
    /\ UNCHANGED <<server, local, cmd, writeCount, faults, signins, daemons, daemon, events, plans>>

\* finish_cycle and the guard's drop; a failed round leaves the plan as it is
finish_cycle(v) ==
    /\ manual[v] # "none"
    /\ manual' = [manual EXCEPT ![v] = "none"]
    /\ in_flight' = in_flight \ {v}
    /\ \E pending \in BOOLEAN : set_pending_plan(v, pending) \/ UNCHANGED plans
    /\ UNCHANGED <<vaultVars, daemons, daemon, events>>

\* the app is quit or crashes; main starts over with nothing in memory
Restart ==
    /\ faults < MaxFaults
    /\ faults' = faults + 1
    /\ SetCmd(Mac, [stage |-> "reconcile"])
    /\ daemons' = [v \in Vault |-> 0]
    /\ daemon' = [v \in Vault |-> [k \in Slots |-> NoDaemon]]
    /\ events' = [v \in Vault |-> [k \in Slots |-> <<>>]]
    /\ in_flight' = {} /\ plans' = {}
    /\ manual' = [v \in Vault |-> "none"]
    /\ UNCHANGED <<server, local, writeCount, signins, commands>>

-----------------------------------------------------------------------------

\* commands and steps that leave the app's memory alone
Elsewhere ==
    \/ ServerStep
    \/ \E d \in Devices :
          \/ NewVault(d) \/ Login(d) \/ Logout(d)
          \/ forget_bearer_on_401(d)
          \/ CreateCommit(d) \/ save_secret(d) \/ save_config(d) \/ attach_device(d)
          \/ ForgetConfig(d)
    \/ \E d \in Devices \ {Mac} :
          \/ ForgetKey(d) \/ delete_account(d)
          \/ \E v \in Vault : detach_device(d, v) \/ delete_vault(d, v)

Next ==
    \/ Elsewhere /\ UNCHANGED hostVars
    \/ reconcile_daemons \/ FinishForget \/ delete_account_inner \/ Restart
    \/ create_vault_inner \/ download_vault_inner
    \/ \E v \in Vault :
          \/ remove_vault_inner(v) \/ delete_remote_vault_inner(v) \/ move_vault_folder(v)
          \/ run_sync(v) \/ run_resolve(v) \/ finish_cycle(v)
          \/ \E k \in Slots :
                \/ StartDaemon(v, k) \/ StartCycle(v, k) \/ EndCycle(v, k) \/ FailedPoll(v, k)
                \/ EndDaemon(v, k) \/ relay_daemon_events(v, k)

\* What has begun goes on: commands, cycles, relays. select picks among ready
\* branches at random, so a daemon that keeps meeting its stop takes it
\* (strong fairness). Users do what they like.
Fairness ==
    /\ WF_vars(FinishForget \/ reconcile_daemons \/ (CommandStep(Mac) /\ UNCHANGED hostVars))
    /\ \A v \in Vault :
          /\ WF_vars(finish_cycle(v))
          /\ \A k \in Slots :
                /\ WF_vars(StartDaemon(v, k)) /\ WF_vars(EndCycle(v, k))
                /\ WF_vars(relay_daemon_events(v, k))
                /\ SF_vars(EndDaemon(v, k))

Spec == Init /\ [][Next]_vars /\ Fairness

-----------------------------------------------------------------------------
(* Properties.                                                             *)

\* What the vault list shows; the diff that decides between up to date,
\* pending and new conflicts is module SyncEngine's.
vault_state(v) ==
    IF v \in in_flight THEN "Syncing"
    ELSE IF v \in plans THEN "Conflicts"
    ELSE IF v \notin keys[Mac] THEN "Locked"
    ELSE "Checked"

\* A vault that left this Mac's list ends up without a daemon, so nothing
\* syncs its folder any more (reconcile_daemons after every command).
ForgottenVaultRests ==
    \A v \in Vault :
        v \notin config[Mac] ~>
            \/ v \in config[Mac]
            \/ \A k \in Slots : daemon[v][k] \in {NoDaemon, "ended", "dead"}

\* A vault does not show Syncing for ever: every mark a command takes or a relay
\* mirrors is released, whichever of them ran last, so a later sync, move or
\* removal is not refused for good (InFlightGuard, relay_daemon_events).
MarkReleased == \A v \in Vault : vault_state(v) = "Syncing" ~> vault_state(v) # "Syncing"
=============================================================================
