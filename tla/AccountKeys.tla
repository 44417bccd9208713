---------------------------- MODULE AccountKeys ----------------------------
(***************************************************************************)
(* The account key of one account: set under a passphrase, unlocked with   *)
(* it, rewrapped, handed to a waiting device by another one, and used to   *)
(* wrap vault keys (server/src/auth/keys.rs and approval.rs, core/src      *)
(* auth.rs, crypto.rs and keychain.rs, and the three host programs).       *)
(*                                                                         *)
(* A request is one step of the server. A key, a public key and a sign-in  *)
(* are numbers that are never handed out twice; a ciphertext is a record   *)
(* of what it was made under and what it holds. The times of a request are *)
(* abstracted to whether it has run out, and the clocks agree on that.     *)
(***************************************************************************)
EXTENDS Naturals, FiniteSets

CONSTANTS
    None,
    Devices,
    Platform,                              \* the host program of each device
    Passphrases,
    Founders,                              \* who has set the passphrase: a device, or None
    MaxKeys, MaxRequests, MaxSignIns, MaxFaults          \* bounds

ASSUME KeysAssumption ==
    /\ Platform \in [Devices -> {"cli", "desktop", "mobile"}]
    /\ MaxRequests \in Nat \ {0}
    /\ None \notin Nat \cup Devices
    /\ None \notin [key : Nat, id : Nat]
    /\ None \notin [wrapped : [under : Passphrases, key : Nat], verifier : [verifies : Nat],
                     id : Nat]
    /\ Passphrases # {} /\ Founders \subseteq Devices \cup {None}

VARIABLES
    account,     \* the account_key_* columns of the users row
    session,     \* the live session of each device, 0 when signed out
    approval,    \* the approval_* columns of the devices rows
    wraps,       \* the wrapped keys of the vaults made so far
    stored,      \* keychain: account key and its key_id
    secret,      \* keychain: the secret of an approval request
    pending,     \* the request a running desktop or mobile app remembers
    cmd,         \* the command each device is running
    wait,        \* the approval wait of each device
    made,        \* account keys generated so far
    requests,    \* approval requests generated so far
    signins,
    faults,
    collected    \* ghost: the requests whose key was stored

vars == <<account, session, approval, wraps, stored, secret, pending, cmd, wait,
          made, requests, signins, faults, collected>>

server == <<account, session, approval, wraps>>
client == <<stored, secret, pending>>
counters == <<made, requests, signins, faults, collected>>

Idle == [stage |-> "idle"]
Off == [stage |-> "off"]

-----------------------------------------------------------------------------
(* Ciphertexts (core/src/crypto.rs).                                       *)

wrap_key(wrapping, key) == [under |-> wrapping, key |-> key]

\* None stands for CryptoError::Decrypt
unwrap_key(wrapping, blob) == IF blob.under = wrapping THEN blob.key ELSE None

account_verifier(key) == [verifies |-> key]

wrap_under_passphrase(passphrase, key) ==
    [wrapped |-> wrap_key(passphrase, key), verifier |-> account_verifier(key)]

create_account_key(passphrase) == wrap_under_passphrase(passphrase, made + 1)

unlock_account_key(passphrase, wrapped) == unwrap_key(passphrase, wrapped)

rewrap_account_key(key, passphrase) == wrap_under_passphrase(passphrase, key)

wrap_vault_key(key, vault) == wrap_key(key, vault)

unwrap_vault_key(key, wrapped) == unwrap_key(key, wrapped)

\* the secret of a request and its public key are the same number
new_approval_request == requests + 1

\* distinct keys have distinct fingerprints: collisions are left to chance
approval_fingerprint(public) == [fingerprint |-> public]

\* the pair of keys and the associated data bind a blob to one request
approval_wrap_key(public, d) == <<public, d>>

approve_blob(key, public, typed, d) ==
    IF typed # approval_fingerprint(public) THEN None
    ELSE wrap_key(approval_wrap_key(public, d), key)

accept_approval(request, blob, d) == unwrap_key(approval_wrap_key(request, d), blob)

-----------------------------------------------------------------------------
(* Server.                                                                 *)

\* auth::resolve
Signed(d, token) == token # 0 /\ session[d] = token

has_key == account # None

\* keys::get, and what AuthClient::get_keys gives the host
get == account

\* Slip: the passphrase is stored whoever was first
set_LastWins(material) ==
    account' = [wrapped |-> material.wrapped, verifier |-> material.verifier, id |-> made + 1]

\* keys::set; new_id never repeats an id
set(material) ==
    account' = IF account # None THEN account
               ELSE [wrapped |-> material.wrapped, verifier |-> material.verifier,
                     id |-> made + 1]

rewrap(material) == account # None /\ account.verifier = material.verifier

\* approval::register
register(d, public) ==
    approval' = [approval EXCEPT ![d] = [public |-> public, live |-> TRUE, wrapped |-> None]]

\* approval::poll: a request that ran out is reported as none
poll(d) == IF approval[d] # None /\ approval[d].live THEN approval[d] ELSE None

\* approval::cancel
cancel(d) == approval' = [approval EXCEPT ![d] = None]

\* approval::approve, the UPDATE: the public key it was wrapped to is not named
approvable(d) == poll(d) # None /\ poll(d).wrapped = None

approve(d, blob) == approval' = [approval EXCEPT ![d].wrapped = blob]

\* the approval of a device as GET /auth/me lists it
list_approval(d) == poll(d)

\* devices::upsert on sign-in: the columns of an earlier request are cleared
upsert(d) == approval' = [approval EXCEPT ![d] = None]

delete_device(d) ==
    /\ session' = [session EXCEPT ![d] = 0]
    /\ approval' = [approval EXCEPT ![d] = None]

\* retention::run_once, the approvals
expire_approvals ==
    /\ \E d \in Devices : approval[d] # None /\ ~approval[d].live
    /\ approval' = [d \in Devices |-> poll(d)]
    /\ UNCHANGED <<account, session, wraps, client, cmd, wait, counters>>

\* ten minutes pass
RunOut(d) ==
    /\ poll(d) # None
    /\ approval' = [approval EXCEPT ![d].live = FALSE]
    /\ UNCHANGED <<account, session, wraps, client, cmd, wait, counters>>

-----------------------------------------------------------------------------
(* Sessions: sign-in, sign-out, revocation (module SignIn has the details). *)

Login(d) ==
    /\ cmd[d].stage = "idle"
    /\ signins < MaxSignIns
    /\ signins' = signins + 1
    /\ session' = [session EXCEPT ![d] = signins + 1]
    /\ upsert(d)
    /\ UNCHANGED <<account, wraps, client, cmd, wait, made, requests, faults, collected>>

Revoke(a, d) ==
    /\ session[a] # 0 /\ session[d] # 0 /\ a # d
    /\ delete_device(d)
    /\ UNCHANGED <<account, wraps, client, cmd, wait, counters>>

\* clear_pending_approval
clear_pending_approval(d) ==
    /\ pending' = [pending EXCEPT ![d] = None]
    /\ secret' = [secret EXCEPT ![d] = None]

\* sign_out_inner: the account key stays in the keychain
sign_out(d) ==
    /\ Platform[d] = "desktop"
    /\ session[d] # 0
    /\ delete_device(d)
    /\ clear_pending_approval(d)
    /\ UNCHANGED <<account, wraps, stored, cmd, wait, counters>>

-----------------------------------------------------------------------------
(* Passphrase commands. cmd[d] carries what the command has read so far.   *)

SetCmd(d, c) == cmd' = [cmd EXCEPT ![d] = c]

save_account_key(d, key, id) == stored' = [stored EXCEPT ![d] = [key |-> key, id |-> id]]

load_account_key(d) == stored[d]
load_approval_secret(d) == secret[d]

\* get_account: the stored key counts only under the key_id the server reports
Unlocked(d) ==
    load_account_key(d) # None /\ account # None /\ load_account_key(d).id = account.id

signed_in(d) == session[d] # 0

\* account_key_for: no look at the key_id the server has by now
account_key_for(d) ==
    IF signed_in(d) /\ load_account_key(d) # None THEN load_account_key(d).key ELSE None

\* set_keys: the answer, or nothing when it was lost
set_keys(d, p) ==
    LET material == create_account_key(p)
    IN  /\ made < MaxKeys
        /\ made' = made + 1
        /\ set(material)
        /\ \/ SetCmd(d, [stage |-> "answer", created |-> account = None, key |-> made + 1,
                         passphrase |-> p, blob |-> account', token |-> session[d]])
           \/ SetCmd(d, Idle)
        /\ UNCHANGED <<session, approval, wraps, client, wait, requests, signins, faults,
                       collected>>

\* desktop set_passphrase and mobile auth_set_passphrase: no look at the
\* account before the PUT
set_passphrase(d) ==
    /\ Platform[d] # "cli"
    /\ cmd[d].stage = "idle" /\ session[d] # 0 /\ ~Unlocked(d)
    /\ \E p \in Passphrases : set_keys(d, p)

\* Created keeps the new key; Exists opens the winner's blob, with the same
\* passphrase in the apps and with one that is asked for in the CLI
Answered(d) ==
    LET c == cmd[d]
        opened == unlock_account_key(c.passphrase, c.blob.wrapped)
    IN  /\ c.stage = "answer"
        /\ \/ /\ c.created
              /\ save_account_key(d, c.key, c.blob.id)
              /\ SetCmd(d, Idle)
           \/ /\ ~c.created /\ Platform[d] = "cli"
              /\ SetCmd(d, [stage |-> "ask", blob |-> c.blob, token |-> c.token])
              /\ UNCHANGED stored
           \/ /\ ~c.created /\ Platform[d] # "cli"
              /\ IF opened = None THEN UNCHANGED stored
                 ELSE save_account_key(d, opened, c.blob.id)
              /\ SetCmd(d, Idle)
        /\ UNCHANGED <<server, secret, pending, wait, counters>>

\* GET /auth/keys, the first request of the commands below
get_keys(d, stage) ==
    /\ cmd[d].stage = "idle" /\ signed_in(d) /\ get # None
    /\ SetCmd(d, [stage |-> stage, blob |-> get, token |-> session[d],
                  key |-> account_key_for(d)])
    /\ UNCHANGED <<server, client, wait, counters>>

unlock_inner(d) == Platform[d] = "desktop" /\ get_keys(d, "ask")
auth_unlock(d) == Platform[d] = "mobile" /\ get_keys(d, "ask")

\* The desktop and the CLI look into the keychain before they ask the server;
\* the phone is handed the key by its caller, which does the same.
change_passphrase(d) ==
    Platform[d] = "desktop" /\ account_key_for(d) # None /\ get_keys(d, "change")
auth_change_passphrase(d) ==
    Platform[d] = "mobile" /\ account_key_for(d) # None /\ get_keys(d, "change")
run_passphrase(d) ==
    Platform[d] = "cli" /\ account_key_for(d) # None /\ get_keys(d, "change")

\* CLI unlock_account, from get_keys to the passphrase or the wait
unlock_account(d) ==
    /\ Platform[d] = "cli"
    /\ cmd[d].stage = "idle" /\ session[d] # 0 /\ wait[d] = Off
    /\ \/ /\ get = None
          /\ SetCmd(d, [stage |-> "fresh"])
          /\ UNCHANGED <<stored, wait>>
       \/ /\ get # None /\ ~Unlocked(d)
          /\ stored' = [stored EXCEPT ![d] = None]
          /\ \/ SetCmd(d, [stage |-> "ask", blob |-> get, token |-> session[d]]) /\ UNCHANGED wait
             \/ wait' = [wait EXCEPT ![d] = [stage |-> "register", token |-> session[d]]]
                /\ UNCHANGED cmd
    /\ UNCHANGED <<server, secret, pending, counters>>

unlock_account_new(d) ==
    /\ cmd[d].stage = "fresh" /\ session[d] # 0
    /\ \E p \in Passphrases : set_keys(d, p)

\* unlock with a typed passphrase; the desktop then drops its request
unlock(d) ==
    /\ cmd[d].stage = "ask"
    /\ \E p \in Passphrases :
          LET key == unlock_account_key(p, cmd[d].blob.wrapped)
          IN  IF key = None THEN SetCmd(d, Idle) /\ UNCHANGED stored
              ELSE /\ save_account_key(d, key, cmd[d].blob.id)
                   /\ SetCmd(d, IF Platform[d] = "cli" THEN Idle
                                ELSE [stage |-> "abandon", token |-> cmd[d].token])
    /\ UNCHANGED <<server, secret, pending, wait, counters>>

\* the request is taken off the approvers' lists, best effort
abandon_approval(d) ==
    /\ cmd[d].stage = "abandon"
    /\ IF pending[d] # None \/ load_approval_secret(d) # None
       THEN approval' = approval \/ (Signed(d, cmd[d].token) /\ cancel(d))
       ELSE UNCHANGED approval
    /\ clear_pending_approval(d)
    /\ SetCmd(d, Idle)
    /\ UNCHANGED <<account, session, wraps, stored, wait, counters>>

\* PUT /auth/keys/rewrap
rewrap_keys(d, material) ==
    IF Signed(d, cmd[d].token) /\ rewrap(material)
    THEN account' = [account EXCEPT !.wrapped = material.wrapped]
    ELSE UNCHANGED account

\* The typed passphrase has to open the blob to the key this device holds.
FinishChange(d) ==
    /\ cmd[d].stage = "change"
    /\ SetCmd(d, Idle)
    /\ \E current, next \in Passphrases :
          LET opened == unlock_account_key(current, cmd[d].blob.wrapped)
          IN  IF opened # None /\ opened = cmd[d].key
              THEN rewrap_keys(d, rewrap_account_key(opened, next))
              ELSE UNCHANGED account
    /\ UNCHANGED <<session, approval, wraps, client, wait, counters>>

\* a new vault: its key is wrapped under the account key in the keychain
WrapVault(d) ==
    /\ session[d] # 0 /\ has_key
    /\ account_key_for(d) # None
    /\ wraps' = wraps \cup {wrap_vault_key(account_key_for(d), d)}
    /\ UNCHANGED <<account, session, approval, client, cmd, wait, counters>>

-----------------------------------------------------------------------------
(* The approver.                                                           *)

\* the listed public key, the typed fingerprint and the wrap; a mistyped one
\* sends nothing
approve_with_key(a, d) ==
    LET public == list_approval(d).public
        blob == approve_blob(account_key_for(a), public, approval_fingerprint(public), d)
    IN  SetCmd(a, [stage |-> "post", device |-> d, blob |-> blob, token |-> session[a],
                   verifier |-> account_verifier(account_key_for(a))])

\* GET /auth/me lists the request
MayApprove(a, d) ==
    /\ a # d
    /\ cmd[a].stage = "idle" /\ account_key_for(a) # None
    /\ list_approval(d) # None
    /\ UNCHANGED <<server, client, wait, counters>>

\* the apps refuse a request that is answered already, the CLI tries
approve_device_inner(a, d) ==
    /\ Platform[a] = "desktop" /\ MayApprove(a, d)
    /\ list_approval(d).wrapped = None
    /\ approve_with_key(a, d)

auth_approve_device(a, d) ==
    /\ Platform[a] = "mobile" /\ MayApprove(a, d)
    /\ list_approval(d).wrapped = None
    /\ approve_with_key(a, d)

approve_device_cli(a, d) ==
    /\ Platform[a] = "cli" /\ MayApprove(a, d)
    /\ approve_with_key(a, d)

\* POST /auth/devices/{id}/approval: 204, or 401, 403, 404, 409
approve_device(a) ==
    LET c == cmd[a]
    IN  /\ c.stage = "post"
        /\ SetCmd(a, Idle)
        /\ IF /\ Signed(a, c.token)
              /\ account # None /\ account.verifier = c.verifier
              /\ approvable(c.device)
              /\ requests < MaxRequests      \* bound: a waiting device can still start over
           THEN approve(c.device, c.blob)
           ELSE UNCHANGED approval
        /\ UNCHANGED <<account, session, wraps, client, wait, counters>>

-----------------------------------------------------------------------------
(* The waiting device. wait[d].request is the request this poll works on,  *)
(* taken out of pending[d] while the poll runs.                            *)

SetWait(d, w) == wait' = [wait EXCEPT ![d] = w]
Alive(d) == Signed(d, wait[d].token)
Polling(d, request) == [stage |-> "poll", token |-> session[d], request |-> request]

\* poll_approval_inner up to the candidate
poll_approval_inner(d) ==
    /\ Platform[d] = "desktop"
    /\ wait[d] = Off
    /\ \/ /\ session[d] # 0 /\ has_key /\ ~Unlocked(d)
          /\ SetWait(d, Polling(d, IF pending[d] # None THEN pending[d] ELSE load_approval_secret(d)))
          /\ pending' = [pending EXCEPT ![d] = None]
          /\ UNCHANGED secret
       \/ /\ session[d] # 0 /\ (Unlocked(d) \/ ~has_key)
          /\ <<pending[d], secret[d]>> # <<None, None>>
          /\ clear_pending_approval(d)
          /\ UNCHANGED wait
       \/ /\ session[d] = 0 /\ pending[d] # None      \* signed out: the memory only
          /\ pending' = [pending EXCEPT ![d] = None]
          /\ UNCHANGED <<secret, wait>>
    /\ UNCHANGED <<server, stored, cmd, counters>>

\* the phone keeps its request in memory while it polls
auth_poll_approval(d) ==
    /\ Platform[d] = "mobile"
    /\ wait[d] = Off /\ session[d] # 0 /\ has_key /\ ~Unlocked(d)
    /\ LET request == IF pending[d] # None THEN pending[d] ELSE load_approval_secret(d)
       IN  /\ pending' = [pending EXCEPT ![d] = request]
           /\ SetWait(d, IF request # None THEN Polling(d, request)
                         ELSE [stage |-> "register", token |-> session[d]])
    /\ UNCHANGED <<server, stored, secret, cmd, counters>>

\* Between polls the CLI keeps its request in the process, the apps in memory.
Rest(d, request) ==
    IF Platform[d] = "cli" THEN SetWait(d, [wait[d] EXCEPT !.stage = "poll"]) /\ UNCHANGED pending
    ELSE SetWait(d, Off) /\ pending' = [pending EXCEPT ![d] = request]

\* GET /auth/approval. The desktop compares the public key with its own; the
\* CLI and the phone trust the row to be theirs.
approval_status(d) ==
    LET status == poll(d)
        request == wait[d].request
        own == status # None /\ (Platform[d] = "desktop" => status.public = request)
    IN  /\ wait[d].stage = "poll" /\ Alive(d)
        /\ \/ /\ own /\ status.wrapped # None
              /\ SetWait(d, [wait[d] EXCEPT !.stage = "take"])
              /\ UNCHANGED pending
           \/ /\ own /\ status.wrapped = None
              /\ Rest(d, request)
           \/ /\ ~own
              /\ SetWait(d, [stage |-> "register", token |-> wait[d].token])
              /\ UNCHANGED pending
        /\ UNCHANGED <<server, stored, secret, cmd, counters>>

\* Slip: the desktop keeps the request that no blob on the server can open
Poisoned_Kept(d) ==
    SetWait(d, Off) /\ UNCHANGED <<pending, secret>>

\* A blob the request cannot open: the apps forget the request and start
\* over at the next tick, the CLI stops waiting.
Poisoned(d) ==
    /\ SetWait(d, Off)
    /\ IF Platform[d] = "cli" THEN UNCHANGED <<pending, secret>> ELSE clear_pending_approval(d)

\* take_approved_key reads the request again
take_approved_key(d) ==
    LET status == poll(d)
        request == wait[d].request
        answered == status # None /\ status.wrapped # None
        key == accept_approval(request, status.wrapped, d)
    IN  /\ wait[d].stage = "take" /\ Alive(d)
        /\ \/ /\ ~answered
              /\ Rest(d, request)
              /\ UNCHANGED secret
           \/ /\ answered /\ key = None
              /\ Poisoned(d)
           \/ /\ answered /\ key # None
              /\ SetWait(d, [stage |-> "clear", token |-> wait[d].token, request |-> request,
                             key |-> key, id |-> account.id])
              /\ UNCHANGED <<pending, secret>>
        /\ UNCHANGED <<server, stored, cmd, counters>>

\* Slip: the key is saved and the relayed blob left for the retention
clear_approval_Left(d) == UNCHANGED approval

\* DELETE /auth/approval of the device that has opened its blob
clear_approval(d) == cancel(d)

\* the end of take_approved_key ...
ClearTaken(d) ==
    /\ wait[d].stage = "clear" /\ Alive(d)
    /\ clear_approval(d)
    /\ SetWait(d, [wait[d] EXCEPT !.stage = "save"])
    /\ UNCHANGED <<account, session, wraps, client, cmd, counters>>

\* ... and the host that keeps what it returns: the key is nowhere else now
SaveTaken(d) ==
    /\ wait[d].stage = "save"
    /\ save_account_key(d, wait[d].key, wait[d].id)
    /\ clear_pending_approval(d)
    /\ collected' = collected \cup {wait[d].request}
    /\ SetWait(d, Off)
    /\ UNCHANGED <<server, cmd, made, requests, signins, faults>>

\* PUT /auth/approval: the request is on the server before its secret is in
\* the keychain
put_approval(d) ==
    /\ wait[d].stage = "register" /\ Alive(d)
    /\ requests < MaxRequests
    /\ requests' = requests + 1
    /\ register(d, new_approval_request)
    /\ SetWait(d, [stage |-> "keep", token |-> wait[d].token, request |-> new_approval_request])
    /\ UNCHANGED <<account, session, wraps, client, cmd, made, signins, faults, collected>>

\* the desktop's register_approval and the CLI's wait_for_approval, and the phone's
register_approval(d) == Platform[d] # "mobile" /\ put_approval(d)
auth_register_approval(d) == Platform[d] = "mobile" /\ put_approval(d)

\* the secret is kept: for a restart in the apps, in the process in the CLI
save_approval_secret(d) ==
    /\ wait[d].stage = "keep"
    /\ IF Platform[d] = "cli" THEN UNCHANGED secret
       ELSE secret' = [secret EXCEPT ![d] = wait[d].request]
    /\ Rest(d, wait[d].request)
    /\ UNCHANGED <<server, stored, cmd, counters>>

\* Ctrl-C in the CLI: the request goes, best effort
StopWaiting(d) ==
    /\ Platform[d] = "cli"
    /\ wait[d].stage = "poll"
    /\ UNCHANGED approval \/ (Alive(d) /\ cancel(d))
    /\ SetWait(d, Off)
    /\ UNCHANGED <<account, session, wraps, client, cmd, counters>>

\* a call with a dead session ends the poll or the command
Unauthorized(d) ==
    /\ wait[d] # Off /\ wait[d].stage \notin {"keep", "save"} /\ ~Alive(d)
    /\ SetWait(d, Off)
    /\ UNCHANGED <<server, client, cmd, counters>>

\* a request that fails ends the poll; a crash takes the memory as well
Fail(d) ==
    /\ faults < MaxFaults
    /\ faults' = faults + 1
    /\ SetWait(d, Off)
    /\ \/ wait[d] # Off /\ UNCHANGED <<pending, cmd>>
       \/ pending' = [pending EXCEPT ![d] = None] /\ SetCmd(d, Idle)
    /\ UNCHANGED <<server, stored, secret, made, requests, signins, collected>>

-----------------------------------------------------------------------------

\* a new account, or one whose first device is signed in and unlocked
Founded(f) ==
    LET material == wrap_under_passphrase(CHOOSE p \in Passphrases : TRUE, 1)
    IN  /\ account = [wrapped |-> material.wrapped, verifier |-> material.verifier, id |-> 1]
        /\ session = [d \in Devices |-> IF d = f THEN 1 ELSE 0]
        /\ stored = [d \in Devices |-> IF d = f THEN [key |-> 1, id |-> 1] ELSE None]
        /\ made = 1 /\ signins = 1

NotFounded ==
    /\ account = None
    /\ session = [d \in Devices |-> 0]
    /\ stored = [d \in Devices |-> None]
    /\ made = 0 /\ signins = 0

Init ==
    /\ \E f \in Founders : IF f = None THEN NotFounded ELSE Founded(f)
    /\ approval = [d \in Devices |-> None]
    /\ wraps = {}
    /\ secret = [d \in Devices |-> None]
    /\ pending = [d \in Devices |-> None]
    /\ cmd = [d \in Devices |-> Idle]
    /\ wait = [d \in Devices |-> Off]
    /\ requests = 0 /\ faults = 0
    /\ collected = {}

\* one turn of the wait loop
WaitStep(d) ==
    \/ poll_approval_inner(d) \/ auth_poll_approval(d)
    \/ approval_status(d) \/ take_approved_key(d) \/ ClearTaken(d) \/ SaveTaken(d)
    \/ register_approval(d) \/ auth_register_approval(d) \/ save_approval_secret(d) \/ Unauthorized(d)

Next ==
    \/ \E d \in Devices :
          \/ Login(d) \/ sign_out(d)
          \/ set_passphrase(d) \/ Answered(d)
          \/ unlock_inner(d) \/ auth_unlock(d)
          \/ change_passphrase(d) \/ auth_change_passphrase(d) \/ run_passphrase(d)
          \/ unlock_account(d) \/ unlock_account_new(d)
          \/ unlock(d) \/ abandon_approval(d)
          \/ FinishChange(d) \/ WrapVault(d) \/ approve_device(d)
          \/ WaitStep(d) \/ StopWaiting(d)
          \/ RunOut(d) \/ Fail(d)
          \/ \E a \in Devices :
                \/ approve_device_inner(a, d) \/ auth_approve_device(a, d)
                \/ approve_device_cli(a, d) \/ Revoke(a, d)
    \/ expire_approvals

\* The wait loops run every few seconds (POLL intervals of the three hosts).
\* Nothing else is fair: users, approvers and clocks may take their time.
Spec == Init /\ [][Next]_vars /\ \A d \in Devices : WF_vars(WaitStep(d))

-----------------------------------------------------------------------------
(* Properties.                                                             *)

\* Every device that holds an account key holds the account's: two devices that
\* set the passphrase at once, lost answers, passphrase changes and relayed
\* keys included (keys::set is create-only, a key is stored with its key_id).
StoredKeyIsTheAccounts ==
    \A d \in Devices : stored[d] # None =>
        /\ account # None
        /\ stored[d].id = account.id
        /\ account_verifier(stored[d].key) = account.verifier

\* The passphrase opens the blob to the key every vault was wrapped under, so
\* a device that unlocks can open every vault (keys::rewrap, wrap_vault_key).
VaultsStayOpen ==
    \A w \in wraps, p \in Passphrases :
        LET key == unlock_account_key(p, account.wrapped)
        IN  key # None => unwrap_vault_key(key, w) # None

\* The relayed account key does not stay on the server once the device it was
\* wrapped to has stored it (take_approved_key clears before it returns).
CollectedBlobGone ==
    \A d \in Devices :
        approval[d] # None /\ approval[d].wrapped # None
            => approval[d].wrapped.under[1] \notin collected

HasAnswer(d) == approval[d] # None /\ approval[d].wrapped # None

\* A device that polls deals with an answered request without waiting for it
\* to run out: it stores the key, starts over with a new request, or stops
\* (an approval made for an earlier request, lost answers and restarts included).
AnswerHandled ==
    \A d \in Devices :
        HasAnswer(d) /\ Platform[d] # "cli" ~> ~HasAnswer(d) \/ Unlocked(d)
=============================================================================
