---------------------------- MODULE Vaults_proofs ----------------------------
(***************************************************************************)
(* Proofs about the vaults of an account, for every set of devices, every  *)
(* set of vault ids and every limit. The inductive invariant adds to the   *)
(* checked properties what a command that is under way has established.    *)
(***************************************************************************)
EXTENDS Vaults, FiniteSetTheorems, TLAPS

VaultStage == {"counted", "key", "config", "attach"}

CmdRec ==
    [stage : {"idle", "reconcile"}]
        \cup [stage : VaultStage, vault : Vault, attach : {"first", "last"}]
        \cup [stage : {"forget"}, what : {"vault", "account"}, gone : SUBSET Vault]
        \cup [stage : {"forgetKey"}, what : {"vault", "account"}, vault : Vault,
              gone : SUBSET Vault]

\* a command names an id that was minted; ids are used up before a row or a
\* directory has them
CmdOK ==
    /\ cmd \in [Devices -> CmdRec]
    /\ doomed \subseteq minted
    /\ \A d \in Devices : cmd[d].stage \in VaultStage => cmd[d].vault \in minted

\* the advisory lock: whoever has counted is alone, under the limit, and its
\* vault is in no table yet
CountedAlone ==
    \A d \in Devices :
        cmd[d].stage = "counted" =>
            /\ cmd[d].vault \notin rows \cup doomed
            /\ Cardinality(rows) < max_vaults_per_user
            /\ \A e \in Devices \ {d} : cmd[e].stage # "counted"

LimitInv == IsFiniteSet(rows) /\ VaultLimitHolds

\* the key is saved before the entry that needs it, and goes after it
KeyFirst ==
    /\ ListedVaultHasKey
    /\ \A d \in Devices :
          /\ cmd[d].stage = "config" => cmd[d].vault \in keys[d]
          /\ cmd[d].stage = "forgetKey" => cmd[d].vault \notin config[d]

VaultsInv == VaultsTypeOK /\ CmdOK /\ CountedAlone /\ LimitInv /\ KeyFirst

-----------------------------------------------------------------------------

\* The commands a handler may leave behind are commands.
LEMMA CmdForms ==
    /\ \A d \in Devices : Done(d) \in CmdRec /\ Done(d).stage \in {"idle", "reconcile"}
    /\ Idle \in CmdRec /\ Idle.stage = "idle"
    /\ \A s \in VaultStage, v \in Vault, a \in {"first", "last"} :
          LET c == [stage |-> s, vault |-> v, attach |-> a]
          IN  c \in CmdRec /\ c.stage = s /\ c.vault = v
    /\ \A w \in {"vault", "account"}, v \in Vault, g \in SUBSET Vault :
          LET c == [stage |-> "forgetKey", what |-> w, vault |-> v, gone |-> g]
          IN  c \in CmdRec /\ c.stage = "forgetKey" /\ c.vault = v
    /\ \A d \in Devices, w \in {"vault", "account"}, g \in SUBSET Vault :
          LET c == Forget(d, w, g)
          IN  c \in CmdRec /\ c.stage \in {"forget", "idle", "reconcile"}
BY DEF Done, Idle, Forget, CmdRec, VaultStage

\* A command that goes on to its next stage keeps what it is about.
LEMMA NextStage ==
    ASSUME NEW c \in CmdRec
    PROVE  /\ \A s \in VaultStage :
                 c.stage \in VaultStage =>
                    /\ [c EXCEPT !.stage = s] = [stage |-> s, vault |-> c.vault, attach |-> c.attach]
                    /\ c.vault \in Vault /\ c.attach \in {"first", "last"}
           /\ c.stage \in {"forget", "forgetKey"} =>
                 c.what \in {"vault", "account"} /\ c.gone \in SUBSET Vault
BY DEF CmdRec, VaultStage

\* A step of one device's command leaves the others' alone.
LEMMA SetCmdFacts ==
    ASSUME CmdOK, NEW d \in Devices, NEW c \in CmdRec, SetCmd(d, c)
    PROVE  /\ cmd' \in [Devices -> CmdRec] /\ cmd'[d] = c
           /\ \A e \in Devices \ {d} : cmd'[e] = cmd[e]
BY DEF SetCmd, CmdOK

\* The same of a command that goes on with its vault.
LEMMA StageFacts ==
    ASSUME CmdOK, NEW d \in Devices, NEW s \in VaultStage, NEW v \in Vault,
           NEW a \in {"first", "last"}, SetCmd(d, [stage |-> s, vault |-> v, attach |-> a])
    PROVE  /\ cmd' \in [Devices -> CmdRec] /\ cmd'[d].stage = s /\ cmd'[d].vault = v
           /\ \A e \in Devices \ {d} : cmd'[e] = cmd[e]
<1> DEFINE c == [stage |-> s, vault |-> v, attach |-> a]
<1>1. c \in CmdRec /\ c.stage = s /\ c.vault = v
  BY CmdForms
<1>2. SetCmd(d, c)
  OBVIOUS
<1> HIDE DEF c
<1> QED
  BY <1>1, <1>2, SetCmdFacts

\* A command that is done leaves the device idle or to reconcile_daemons.
LEMMA DoneFacts ==
    ASSUME CmdOK, NEW d \in Devices, SetCmd(d, Done(d))
    PROVE  /\ cmd' \in [Devices -> CmdRec] /\ cmd'[d].stage \in {"idle", "reconcile"}
           /\ \A e \in Devices \ {d} : cmd'[e] = cmd[e]
BY CmdForms, SetCmdFacts

\* The invariant holds at the start.
LEMMA VaultsInitial == VaultsInit => VaultsInv
<1> SUFFICES ASSUME VaultsInit PROVE VaultsInv
  OBVIOUS
<1>1. VaultsTypeOK
  BY DEF VaultsInit, VaultsTypeOK
<1>2. CmdOK
  BY CmdForms DEF VaultsInit, CmdOK, VaultStage
<1>3. CountedAlone
  BY CmdForms DEF VaultsInit, CountedAlone
<1>4. LimitInv
  BY FS_EmptySet, VaultsAssumption DEF VaultsInit, LimitInv, VaultLimitHolds
<1>5. KeyFirst
  BY CmdForms DEF VaultsInit, KeyFirst, ListedVaultHasKey
<1> QED
  BY <1>1, <1>2, <1>3, <1>4, <1>5 DEF VaultsInv

\* Uploads, the removal of blobs and the sweep touch directories only.
LEMMA ServerStepKeeps ==
    ASSUME VaultsInv, ServerStep
    PROVE  VaultsInv'
<1> USE DEF VaultsInv
<1>1. ASSUME NEW v \in Vault, remove_blobs(v) PROVE VaultsInv'
  BY <1>1 DEF remove_blobs, SetDir, local, VaultsTypeOK, CmdOK, CountedAlone, LimitInv,
              VaultLimitHolds, KeyFirst, ListedVaultHasKey
<1>2. ASSUME NEW v \in Vault, StoreWrite(v) PROVE VaultsInv'
  BY <1>2 DEF StoreWrite, SetDir, local, VaultsTypeOK, CmdOK, CountedAlone, LimitInv,
              VaultLimitHolds, KeyFirst, ListedVaultHasKey
<1>3. ASSUME NEW v \in Vault, Age(v) PROVE VaultsInv'
  BY <1>3 DEF Age, SetDir, local, VaultsTypeOK, CmdOK, CountedAlone, LimitInv,
              VaultLimitHolds, KeyFirst, ListedVaultHasKey
<1>4. ASSUME NEW v \in Vault, NEW d \in Devices, AcceptWrite(d, v) PROVE VaultsInv'
  BY <1>4 DEF AcceptWrite, require_member, local, VaultsTypeOK, CmdOK, CountedAlone, LimitInv,
              VaultLimitHolds, KeyFirst, ListedVaultHasKey
<1>5. CASE run_once
  BY <1>5 DEF run_once, orphan_candidates, local, VaultsTypeOK, CmdOK, CountedAlone, LimitInv,
              VaultLimitHolds, KeyFirst, ListedVaultHasKey
<1>6. CASE lookup_orphan \/ remove_orphan \/ SweepFails
  <2>1. sweep \in [left : SUBSET Vault, orphan : Vault \cup {None}]
    BY <1>6 DEF lookup_orphan, remove_orphan, SweepFails, VaultsTypeOK
  <2>2. /\ sweep' = None \/ sweep' \in [left : SUBSET Vault, orphan : Vault \cup {None}]
        /\ dirs' \in [Vault -> {"none", "young", "old"}]
    BY <1>6, <2>1 DEF lookup_orphan, remove_orphan, SweepFails, Rest, SetDir, VaultsTypeOK
  <2> QED
    BY <1>6, <2>2 DEF lookup_orphan, remove_orphan, SweepFails, local, VaultsTypeOK, CmdOK,
              CountedAlone, LimitInv, VaultLimitHolds, KeyFirst, ListedVaultHasKey
<1> QED
  BY <1>1, <1>2, <1>3, <1>4, <1>5, <1>6 DEF ServerStep

\* Rows that go leave the counts and the finite sets as they should be.
LEMMA RowsGo ==
    ASSUME VaultsInv, NEW gone, gone \subseteq rows, delete_rows(gone)
    PROVE  /\ rows' \subseteq rows /\ IsFiniteSet(rows')
           /\ Cardinality(rows') \in Nat /\ Cardinality(rows) \in Nat
           /\ Cardinality(rows') =< Cardinality(rows)
           /\ attached' \subseteq Devices \X rows'
           /\ doomed' = doomed \cup gone /\ doomed' \cap rows' = {}
<1>1. rows' \in SUBSET rows /\ doomed' = doomed \cup gone /\ doomed' \cap rows' = {}
  BY DEF delete_rows, VaultsInv, VaultsTypeOK
<1>2. attached' \subseteq Devices \X rows'
  BY DEF delete_rows, VaultsInv, VaultsTypeOK
<1>3. IsFiniteSet(rows)
  BY DEF VaultsInv, LimitInv
<1> QED
  BY <1>1, <1>2, <1>3, FS_Subset, FS_CardinalityType

\* POST /vaults up to the count keeps the invariant.
LEMMA CreateKeeps ==
    ASSUME VaultsInv, NEW d \in Devices, create_vault(d)
    PROVE  VaultsInv'
<1>1. PICK v \in Vault \ minted :
          /\ minted' = minted \cup {v}
          /\ SetCmd(d, IF create_allowed
                       THEN [stage |-> "counted", vault |-> v, attach |-> Attaches(d)]
                       ELSE Done(d))
  BY DEF create_vault
<1>0. Attaches(d) \in {"first", "last"}
  BY DEF Attaches
<1>2. /\ cmd' \in [Devices -> CmdRec] /\ \A e \in Devices \ {d} : cmd'[e] = cmd[e]
      /\ \/ cmd'[d].stage = "counted" /\ cmd'[d].vault = v /\ create_allowed
         \/ cmd'[d].stage \in {"idle", "reconcile"}
  <2>1. CASE create_allowed
    <3>1. SetCmd(d, [stage |-> "counted", vault |-> v, attach |-> Attaches(d)])
      BY <1>1, <2>1
    <3> QED
      BY <1>0, <2>1, <3>1, StageFacts DEF VaultsInv, VaultStage
  <2>2. CASE ~create_allowed
    BY <1>1, <2>2, DoneFacts DEF VaultsInv
  <2> QED
    BY <2>1, <2>2
<1> USE <1>1, <1>2 DEF create_vault, local, VaultsInv
<1>4. VaultsTypeOK'
  BY DEF VaultsTypeOK
<1>5. CmdOK'
  BY DEF CmdOK, VaultStage
<1>6. CountedAlone'
  BY DEF CountedAlone, lock_free, create_allowed, VaultsTypeOK, CmdOK
<1>7. LimitInv'
  BY DEF LimitInv, VaultLimitHolds
<1>8. KeyFirst'
  BY DEF KeyFirst, ListedVaultHasKey
<1> QED
  BY <1>4, <1>5, <1>6, <1>7, <1>8

\* GET /vaults, and a vault taken from the answer, keeps the invariant.
LEMMA ListKeeps ==
    ASSUME VaultsInv, NEW d \in Devices, list_vaults(d)
    PROVE  VaultsInv'
<1>1. PICK v \in rows : SetCmd(d, [stage |-> "key", vault |-> v, attach |-> "last"])
  BY DEF list_vaults, list_for_member
<1>2. v \in minted /\ v \in Vault
  BY DEF VaultsInv, VaultsTypeOK
<1>3. /\ cmd' \in [Devices -> CmdRec] /\ \A e \in Devices \ {d} : cmd'[e] = cmd[e]
      /\ cmd'[d].stage = "key" /\ cmd'[d].vault = v
  BY <1>1, <1>2, CmdForms DEF SetCmd, VaultsInv, CmdOK, VaultStage
<1> QED
  BY <1>2, <1>3 DEF list_vaults, VaultsInv, VaultsTypeOK, CmdOK, CountedAlone, LimitInv,
     VaultLimitHolds, KeyFirst, ListedVaultHasKey, local, server

\* What a user starts keeps the invariant.
LEMMA CommandKeeps ==
    ASSUME VaultsInv, NEW d \in Devices, Command(d)
    PROVE  VaultsInv'
<1>1. CASE create_vault(d)
  BY <1>1, CreateKeeps
<1>2. CASE list_vaults(d)
  BY <1>2, ListKeeps
<1>3. CASE delete_account(d)
  <2>1. /\ cmd' \in [Devices -> CmdRec] /\ \A e \in Devices \ {d} : cmd'[e] = cmd[e]
        /\ cmd'[d].stage \in {"forget", "idle", "reconcile"}
    <3>1. config[d] \in SUBSET Vault
      BY DEF VaultsInv, VaultsTypeOK
    <3> QED
      BY <1>3, <3>1, CmdForms DEF delete_account, forget_all_vaults, SetCmd, VaultsInv, CmdOK
  <2>2. delete_rows(rows)
    BY <1>3 DEF delete_account
  <2> QED
    BY <1>3, <2>1, <2>2, RowsGo, VaultsAssumption DEF delete_account, VaultsInv, VaultsTypeOK, CmdOK, CountedAlone, LimitInv,
       VaultLimitHolds, KeyFirst, ListedVaultHasKey, VaultStage
<1>4. CASE Login(d) \/ Logout(d)
  <2>1. /\ cmd' \in [Devices -> CmdRec] /\ \A e \in Devices \ {d} : cmd'[e] = cmd[e]
        /\ cmd'[d].stage \in {"idle", "reconcile"}
    BY <1>4, CmdForms DEF Login, Logout, SetCmd, VaultsInv, CmdOK
  <2> QED
    BY <1>4, <2>1 DEF Login, Logout, VaultsInv, VaultsTypeOK, CmdOK, CountedAlone, LimitInv,
       VaultLimitHolds, KeyFirst, ListedVaultHasKey, VaultStage, server
<1>5. ASSUME NEW v \in Vault, detach_device(d, v) PROVE VaultsInv'
  <2>1. /\ cmd' \in [Devices -> CmdRec] /\ \A e \in Devices \ {d} : cmd'[e] = cmd[e]
        /\ cmd'[d].stage \in {"forget", "idle", "reconcile"}
    BY <1>5, CmdForms DEF detach_device, SetCmd, VaultsInv, CmdOK
  <2> QED
    BY <1>5, <2>1 DEF detach_device, detach_self, VaultsInv, VaultsTypeOK, CmdOK, CountedAlone, LimitInv,
       VaultLimitHolds, KeyFirst, ListedVaultHasKey, VaultStage, local
<1>6. ASSUME NEW v \in Vault, delete_vault(d, v) PROVE VaultsInv'
  <2>1. /\ cmd' \in [Devices -> CmdRec] /\ \A e \in Devices \ {d} : cmd'[e] = cmd[e]
        /\ cmd'[d].stage \in {"forget", "idle", "reconcile"}
    BY <1>6, CmdForms DEF delete_vault, SetCmd, VaultsInv, CmdOK
  <2>2. {v} \subseteq rows /\ delete_rows({v})
    BY <1>6 DEF delete_vault, require_member
  <2> QED
    BY <1>6, <2>1, <2>2, RowsGo, VaultsAssumption DEF delete_vault, VaultsInv, VaultsTypeOK, CmdOK, CountedAlone, LimitInv,
       VaultLimitHolds, KeyFirst, ListedVaultHasKey, VaultStage, local
<1> QED
  BY <1>1, <1>2, <1>3, <1>4, <1>5, <1>6
     DEF Command, NewVault, run_init, mobile_create_vault, run_download, mobile_download

\* The rest of a command keeps the invariant.
LEMMA CommandStepKeeps ==
    ASSUME VaultsInv, NEW d \in Devices, CommandStep(d)
    PROVE  VaultsInv'
<1> DEFINE Others == \A e \in Devices \ {d} : cmd'[e] = cmd[e]
<1>0. cmd[d] \in CmdRec
  BY DEF VaultsInv, CmdOK
<1>1. CASE CreateCommit(d)
  <2> DEFINE v == cmd[d].vault
  <2>1. cmd[d].stage = "counted" /\ v \in minted /\ v \notin rows \cup doomed /\ v \in Vault
    BY <1>1, <1>0, NextStage DEF CreateCommit, VaultsInv, CmdOK, CountedAlone, VaultStage
  <2>2. Answered(d) \in {"attach", "key"}
    BY DEF Answered
  <2>3. /\ cmd' \in [Devices -> CmdRec] /\ Others
        /\ cmd'[d].stage \in {"idle", "reconcile", "attach", "key"}
        /\ cmd'[d].stage \in {"attach", "key"} => cmd'[d].vault = v
    <3>1. /\ [cmd[d] EXCEPT !.stage = Answered(d)]
                = [stage |-> Answered(d), vault |-> v, attach |-> cmd[d].attach]
          /\ cmd[d].attach \in {"first", "last"}
      BY <1>0, <2>1, <2>2, NextStage DEF VaultStage
    <3>2. \/ SetCmd(d, [stage |-> Answered(d), vault |-> v, attach |-> cmd[d].attach])
          \/ SetCmd(d, Done(d))
      BY <1>1, <3>1 DEF CreateCommit
    <3>3. CASE SetCmd(d, Done(d))
      BY <3>3, DoneFacts DEF VaultsInv
    <3>4. CASE SetCmd(d, [stage |-> Answered(d), vault |-> v, attach |-> cmd[d].attach])
      BY <2>1, <2>2, <3>1, <3>4, StageFacts DEF VaultsInv, VaultStage
    <3> QED
      BY <3>2, <3>3, <3>4
  <2>4. \/ rows' = rows
        \/ rows' = rows \cup {v} /\ Cardinality(rows) < max_vaults_per_user
    BY <1>1, <2>1 DEF CreateCommit, insert_vault, VaultsInv, CountedAlone
  <2>5. \A e \in Devices : cmd'[e].stage # "counted"
    BY <2>1, <2>3 DEF VaultsInv, CountedAlone
  <2>6. IsFiniteSet(rows') /\ Cardinality(rows') =< max_vaults_per_user
    <3>1. IsFiniteSet(rows) /\ Cardinality(rows) =< max_vaults_per_user
      BY DEF VaultsInv, LimitInv, VaultLimitHolds
    <3>2. Cardinality(rows) \in Nat
      BY <3>1, FS_CardinalityType
    <3>3. IsFiniteSet(rows \cup {v}) /\ Cardinality(rows \cup {v}) = Cardinality(rows) + 1
      BY <2>1, <3>1, FS_AddElement
    <3> QED
      BY <2>4, <3>1, <3>2, <3>3, VaultsAssumption
  <2> HIDE DEF v
  <2> QED
    BY <1>1, <2>1, <2>3, <2>4, <2>5, <2>6
       DEF CreateCommit, VaultsInv, VaultsTypeOK, CmdOK, CountedAlone, LimitInv, VaultLimitHolds,
           KeyFirst, ListedVaultHasKey, VaultStage, local
<1>2. CASE save_secret(d)
  <2>1. /\ cmd' \in [Devices -> CmdRec] /\ Others
        /\ cmd'[d].stage = "config" /\ cmd'[d].vault = cmd[d].vault /\ cmd[d].vault \in minted
    <3>1. /\ [cmd[d] EXCEPT !.stage = "config"]
                = [stage |-> "config", vault |-> cmd[d].vault, attach |-> cmd[d].attach]
          /\ cmd[d].vault \in Vault /\ cmd[d].attach \in {"first", "last"}
      BY <1>2, <1>0, NextStage DEF save_secret, VaultStage
    <3> QED
      <4>1. SetCmd(d, [stage |-> "config", vault |-> cmd[d].vault, attach |-> cmd[d].attach])
        BY <1>2, <3>1 DEF save_secret
      <4>2. cmd[d].vault \in minted
        BY <1>2 DEF save_secret, VaultsInv, CmdOK, VaultStage
      <4> QED
        BY <3>1, <4>1, <4>2, StageFacts DEF VaultsInv, VaultStage
  <2>5. VaultsTypeOK'
    BY <1>2, <2>1 DEF save_secret, VaultsInv, VaultsTypeOK, CmdOK, server
  <2>6. CmdOK'
    BY <1>2, <2>1 DEF save_secret, VaultsInv, CmdOK, VaultStage, server
  <2>7. CountedAlone' /\ LimitInv'
    BY <1>2, <2>1 DEF save_secret, VaultsInv, CountedAlone, LimitInv, VaultLimitHolds, server
  <2>8. KeyFirst'
    BY <1>2, <2>1 DEF save_secret, VaultsInv, VaultsTypeOK, KeyFirst, ListedVaultHasKey, server
  <2> QED
    BY <2>5, <2>6, <2>7, <2>8 DEF VaultsInv
<1>3. CASE save_config(d)
  <2>1. /\ cmd' \in [Devices -> CmdRec] /\ Others
        /\ cmd'[d].stage \in {"idle", "reconcile", "attach"}
        /\ cmd'[d].stage = "attach" => cmd'[d].vault = cmd[d].vault
        /\ cmd[d].vault \in minted
    <3>1. /\ [cmd[d] EXCEPT !.stage = "attach"]
                = [stage |-> "attach", vault |-> cmd[d].vault, attach |-> cmd[d].attach]
          /\ cmd[d].vault \in Vault /\ cmd[d].attach \in {"first", "last"}
      BY <1>3, <1>0, NextStage DEF save_config, VaultStage
    <3>2. \/ SetCmd(d, [stage |-> "attach", vault |-> cmd[d].vault, attach |-> cmd[d].attach])
          \/ SetCmd(d, Done(d))
      BY <1>3, <3>1 DEF save_config
    <3>3. cmd[d].vault \in minted
      BY <1>3 DEF save_config, VaultsInv, CmdOK, VaultStage
    <3>4. CASE SetCmd(d, Done(d))
      BY <3>3, <3>4, DoneFacts DEF VaultsInv
    <3>5. CASE SetCmd(d, [stage |-> "attach", vault |-> cmd[d].vault, attach |-> cmd[d].attach])
      BY <3>1, <3>3, <3>5, StageFacts DEF VaultsInv, VaultStage
    <3> QED
      BY <3>2, <3>4, <3>5
  <2>2. config'[d] \subseteq config[d] \cup {cmd[d].vault} /\ cmd[d].vault \in keys[d]
    BY <1>3 DEF save_config, saved_config, upsert_vault, VaultsInv, VaultsTypeOK, KeyFirst
  <2>5. VaultsTypeOK'
    BY <1>3, <2>1, <2>2 DEF save_config, VaultsInv, VaultsTypeOK, CmdOK, server
  <2>6. CmdOK'
    BY <1>3, <2>1, <2>2 DEF save_config, VaultsInv, CmdOK, VaultStage, server
  <2>7. CountedAlone' /\ LimitInv'
    BY <1>3, <2>1, <2>2 DEF save_config, VaultsInv, CountedAlone, LimitInv, VaultLimitHolds, server
  <2>8. KeyFirst'
    BY <1>3, <2>1, <2>2 DEF save_config, VaultsInv, VaultsTypeOK, KeyFirst, ListedVaultHasKey, server
  <2> QED
    BY <2>5, <2>6, <2>7, <2>8 DEF VaultsInv
<1>4. CASE attach_device(d)
  <2>1. /\ cmd' \in [Devices -> CmdRec] /\ Others
        /\ cmd'[d].stage \in {"idle", "reconcile", "key"}
        /\ cmd'[d].stage = "key" => cmd'[d].vault = cmd[d].vault
        /\ cmd[d].vault \in minted
    <3>1. /\ [cmd[d] EXCEPT !.stage = "key"]
                = [stage |-> "key", vault |-> cmd[d].vault, attach |-> cmd[d].attach]
          /\ cmd[d].vault \in Vault /\ cmd[d].attach \in {"first", "last"}
      BY <1>4, <1>0, NextStage DEF attach_device, VaultStage
    <3>2. \/ SetCmd(d, [stage |-> "key", vault |-> cmd[d].vault, attach |-> cmd[d].attach])
          \/ SetCmd(d, Done(d))
      BY <1>4, <3>1 DEF attach_device
    <3>3. cmd[d].vault \in minted
      BY <1>4 DEF attach_device, VaultsInv, CmdOK, VaultStage
    <3>4. CASE SetCmd(d, Done(d))
      BY <3>3, <3>4, DoneFacts DEF VaultsInv
    <3>5. CASE SetCmd(d, [stage |-> "key", vault |-> cmd[d].vault, attach |-> cmd[d].attach])
      BY <3>1, <3>3, <3>5, StageFacts DEF VaultsInv, VaultStage
    <3> QED
      BY <3>2, <3>4, <3>5
  <2> QED
    BY <1>4, <2>1
       DEF attach_device, attach_self, require_member, VaultsInv, VaultsTypeOK, CmdOK,
           CountedAlone, LimitInv, VaultLimitHolds, KeyFirst, ListedVaultHasKey, VaultStage, local
<1>5. CASE ForgetConfig(d)
  <2>1. cmd[d].what \in {"vault", "account"} /\ cmd[d].gone \in SUBSET Vault
    BY <1>5, <1>0, NextStage DEF ForgetConfig
  <2>2. PICK v \in cmd[d].gone :
            /\ forget_config(d, v)
            /\ SetCmd(d, [stage |-> "forgetKey", what |-> cmd[d].what, vault |-> v,
                          gone |-> cmd[d].gone \ {v}])
    BY <1>5 DEF ForgetConfig
  <2>3. /\ cmd' \in [Devices -> CmdRec] /\ Others
        /\ cmd'[d].stage = "forgetKey" /\ cmd'[d].vault = v
    <3>1. v \in Vault /\ cmd[d].gone \ {v} \in SUBSET Vault
      BY <2>1
    <3>2. PICK c \in CmdRec : SetCmd(d, c) /\ c.stage = "forgetKey" /\ c.vault = v
      BY <2>1, <2>2, <3>1, CmdForms
    <3> QED
      BY <3>2, SetCmdFacts DEF VaultsInv
  <2>5. VaultsTypeOK'
    BY <1>5, <2>2, <2>3 DEF ForgetConfig, forget_config, VaultsInv, VaultsTypeOK, CmdOK, server
  <2>6. CmdOK'
    BY <1>5, <2>2, <2>3 DEF ForgetConfig, forget_config, VaultsInv, CmdOK, VaultStage, server
  <2>7. CountedAlone' /\ LimitInv'
    BY <1>5, <2>2, <2>3 DEF ForgetConfig, forget_config, VaultsInv, CountedAlone, LimitInv, VaultLimitHolds, server
  <2>8. KeyFirst'
    BY <1>5, <2>2, <2>3 DEF ForgetConfig, forget_config, VaultsInv, VaultsTypeOK, KeyFirst, ListedVaultHasKey, server
  <2> QED
    BY <2>5, <2>6, <2>7, <2>8 DEF VaultsInv
<1>6. CASE ForgetKey(d)
  <2>1. cmd[d].what \in {"vault", "account"} /\ cmd[d].gone \in SUBSET Vault
    BY <1>6, <1>0, NextStage DEF ForgetKey
  <2>2. /\ cmd' \in [Devices -> CmdRec] /\ Others
        /\ cmd'[d].stage \in {"forget", "idle", "reconcile"}
    BY <1>6, <2>1, CmdForms DEF ForgetKey, SetCmd, VaultsInv, CmdOK
  <2>3. cmd[d].vault \notin config[d]
    BY <1>6 DEF ForgetKey, VaultsInv, KeyFirst
  <2>5. VaultsTypeOK'
    BY <1>6, <2>2, <2>3 DEF ForgetKey, VaultsInv, VaultsTypeOK, CmdOK, server
  <2>6. CmdOK'
    BY <1>6, <2>2, <2>3 DEF ForgetKey, VaultsInv, CmdOK, VaultStage, server
  <2>7. CountedAlone' /\ LimitInv'
    BY <1>6, <2>2, <2>3 DEF ForgetKey, VaultsInv, CountedAlone, LimitInv, VaultLimitHolds, server
  <2>8. KeyFirst'
    BY <1>6, <2>2, <2>3 DEF ForgetKey, VaultsInv, VaultsTypeOK, KeyFirst, ListedVaultHasKey, server
  <2> QED
    BY <2>5, <2>6, <2>7, <2>8 DEF VaultsInv
<1> QED
  BY <1>1, <1>2, <1>3, <1>4, <1>5, <1>6 DEF CommandStep

\* A step that leaves the vaults alone, but for the counters that bound the
\* runs, keeps the invariant.
LEMMA IdleKeeps ==
    ASSUME VaultsInv, UNCHANGED <<server, local, cmd>>
    PROVE  VaultsInv'
BY DEF server, local, VaultsInv, VaultsTypeOK, CmdOK, CountedAlone, LimitInv, VaultLimitHolds,
       KeyFirst, ListedVaultHasKey

\* Every step of the account and its devices keeps the invariant.
LEMMA VaultsNextKeeps == VaultsInv /\ [VaultsNext]_vaultVars => VaultsInv'
<1> SUFFICES ASSUME VaultsInv, [VaultsNext]_vaultVars PROVE VaultsInv'
  OBVIOUS
<1>1. CASE VaultsNext
  BY <1>1, ServerStepKeeps, CommandKeeps, CommandStepKeeps DEF VaultsNext
<1>2. CASE UNCHANGED vaultVars
  BY <1>2, IdleKeeps DEF vaultVars
<1> QED
  BY <1>1, <1>2

\* The invariant holds throughout.
LEMMA VaultsInvariant == VaultsSpec => []VaultsInv
BY VaultsInitial, VaultsNextKeeps, PTL DEF VaultsSpec

-----------------------------------------------------------------------------

\* The tables stay consistent: what a device lists or is attached to was
\* minted, a device is attached only to vaults that exist, and a delete
\* handler never holds the directory of a vault that exists.
THEOREM VaultsTypes == VaultsSpec => []VaultsTypeOK
BY VaultsInvariant, PTL DEF VaultsInv

\* However many devices create vaults at once, the account stays within its
\* limit, because the count and the insert are under one lock
\* (vaults::create).
THEOREM VaultLimit == VaultsSpec => []VaultLimitHolds
BY VaultsInvariant, PTL DEF VaultsInv, LimitInv

\* A vault a device lists has its key, at every step of every command
\* (save_secret before save_config, forget_config before the key goes).
THEOREM ListedKeys == VaultsSpec => []ListedVaultHasKey
BY VaultsInvariant, PTL DEF VaultsInv, KeyFirst
=============================================================================
