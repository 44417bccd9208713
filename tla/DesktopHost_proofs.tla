------------------------- MODULE DesktopHost_proofs -------------------------
(***************************************************************************)
(* What the account's vaults keep when the menu-bar app is one of their    *)
(* devices: its crashes, its daemons and its own commands included.        *)
(***************************************************************************)
EXTENDS DesktopHost, Vaults_proofs

\* A command of the app that ends, is dropped by a crash or gives way to
\* reconcile_daemons leaves everything the vaults rely on.
LEMMA CommandDropped ==
    ASSUME VaultsInv, UNCHANGED <<server, local>>, NEW s \in {"idle", "reconcile"},
           SetCmd(Mac, [stage |-> s])
    PROVE  VaultsInv'
<1>1. /\ cmd' \in [Devices -> CmdRec] /\ cmd'[Mac].stage = s
      /\ \A e \in Devices \ {Mac} : cmd'[e] = cmd[e]
  BY HostAssumption DEF SetCmd, VaultsInv, CmdOK, CmdRec
<1> QED
  BY <1>1 DEF server, local, VaultsInv, VaultsTypeOK, CmdOK, CountedAlone, LimitInv,
              VaultLimitHolds, KeyFirst, ListedVaultHasKey, VaultStage

\* A bearer the server refuses is forgotten, and nothing else.
LEMMA BearerKeeps ==
    ASSUME VaultsInv, NEW d \in Devices, forget_bearer_on_401(d)
    PROVE  VaultsInv'
BY DEF forget_bearer_on_401, server, VaultsInv, VaultsTypeOK, CmdOK, CountedAlone, LimitInv,
       VaultLimitHolds, KeyFirst, ListedVaultHasKey

\* Every step of the app keeps the invariant of the vaults.
LEMMA HostNextKeeps == VaultsInv /\ [Next]_vars => VaultsInv'
<1> SUFFICES ASSUME VaultsInv, [Next]_vars PROVE VaultsInv'
  OBVIOUS
<1>1. CASE Elsewhere
  BY <1>1, ServerStepKeeps, CommandKeeps, CommandStepKeeps, BearerKeeps
     DEF Elsewhere, Command, CommandStep
<1>2. CASE reconcile_daemons \/ Restart
  BY <1>2, CommandDropped DEF reconcile_daemons, Restart, Idle
<1>3. CASE FinishForget \/ delete_account_inner \/ create_vault_inner \/ download_vault_inner
  <2>1. CASE FinishForget
    BY <2>1, CommandStepKeeps, HostAssumption DEF FinishForget, CommandStep
  <2>2. CASE delete_account_inner
    BY <2>2, CommandKeeps, HostAssumption DEF delete_account_inner, Command
  <2>3. CASE create_vault_inner
    BY <2>3, CreateKeeps, HostAssumption DEF create_vault_inner
  <2>4. CASE download_vault_inner
    BY <2>4, ListKeeps, HostAssumption DEF download_vault_inner
  <2> QED
    BY <1>3, <2>1, <2>2, <2>3, <2>4
<1>4. ASSUME NEW v \in Vault, remove_vault_inner(v) \/ delete_remote_vault_inner(v)
      PROVE  VaultsInv'
  BY <1>4, CommandKeeps, HostAssumption
     DEF remove_vault_inner, delete_remote_vault_inner, Command
<1>5. ASSUME NEW v \in Vault, move_vault_folder(v) PROVE VaultsInv'
  BY <1>5, CommandDropped DEF move_vault_folder
<1>6. ASSUME NEW v \in Vault,
             \/ run_sync(v) \/ run_resolve(v) \/ finish_cycle(v)
             \/ \E k \in Slots :
                   \/ StartDaemon(v, k) \/ StartCycle(v, k) \/ EndCycle(v, k)
                   \/ FailedPoll(v, k) \/ EndDaemon(v, k) \/ relay_daemon_events(v, k)
      PROVE  VaultsInv'
  <2>1. UNCHANGED <<server, local, cmd>>
    BY <1>6 DEF run_sync, run_resolve, finish_cycle, StartDaemon, StartCycle, EndCycle,
                FailedPoll, EndDaemon, relay_daemon_events, vaultVars
  <2> QED
    BY <2>1, IdleKeeps
<1>7. CASE UNCHANGED vars
  BY <1>7, IdleKeeps DEF vars, vaultVars
<1> QED
  BY <1>1, <1>2, <1>3, <1>4, <1>5, <1>6, <1>7 DEF Next

\* The invariant of the vaults holds throughout beside the app.
LEMMA HostInvariant == Spec => []VaultsInv
BY VaultsInitial, HostNextKeeps, PTL DEF Spec, Init

\* With the app as one of the devices, crashing between any two steps of its
\* commands, a vault that a device lists still has its key in the keychain
\* (create_vault_inner, download_vault_inner, forget_vault).
THEOREM HostListedKeys == Spec => []ListedVaultHasKey
BY HostInvariant, PTL DEF VaultsInv, KeyFirst

\* The tables and the account's limit hold beside the app as well: a create
\* that a crash cuts off between the count and the commit leaves no trace.
THEOREM HostVaultLimit == Spec => [](VaultsTypeOK /\ VaultLimitHolds)
BY HostInvariant, PTL DEF VaultsInv, LimitInv
=============================================================================
