------------------------- MODULE AccountKeys_proofs -------------------------
(***************************************************************************)
(* Proofs about the account key, for every set of devices and passphrases. *)
(* The account is set once: from then on its id and the key behind its     *)
(* verifier stay, and whatever a device, a command, a relayed blob or a    *)
(* vault wrap carries is that key. A request belongs to one device, and a  *)
(* device that has collected its key makes no further request.             *)
(***************************************************************************)
EXTENDS AccountKeys, TLAPS

Account == [wrapped : [under : Passphrases, key : Nat], verifier : [verifies : Nat], id : Nat]
Blob == [under : Nat \X Devices, key : Nat]
Approval == [public : Nat, live : BOOLEAN, wrapped : Blob \cup {None}]
Stored == [key : Nat, id : Nat]

CmdRec ==
    [stage : {"idle", "fresh"}]
    \cup [stage : {"answer"}, created : BOOLEAN, key : Nat, passphrase : Passphrases,
          blob : Account, token : Nat]
    \cup [stage : {"ask"}, blob : Account, token : Nat]
    \cup [stage : {"ask", "change"}, blob : Account, token : Nat, key : Nat \cup {None}]
    \cup [stage : {"abandon"}, token : Nat]
    \cup [stage : {"post"}, device : Devices, blob : Blob, token : Nat,
          verifier : [verifies : Nat]]

WaitRec ==
    {Off}
    \cup [stage : {"register"}, token : Nat]
    \cup [stage : {"poll", "take", "keep"}, token : Nat, request : Nat \cup {None}]
    \cup [stage : {"clear", "save"}, token : Nat, request : Nat, key : Nat, id : Nat]

Types ==
    /\ account \in Account \cup {None}
    /\ session \in [Devices -> Nat]
    /\ approval \in [Devices -> Approval \cup {None}]
    /\ wraps \subseteq [under : Nat, key : Devices]
    /\ stored \in [Devices -> Stored \cup {None}]
    /\ secret \in [Devices -> Nat \cup {None}]
    /\ pending \in [Devices -> Nat \cup {None}]
    /\ cmd \in [Devices -> CmdRec]
    /\ wait \in [Devices -> WaitRec]
    /\ made \in Nat /\ requests \in Nat /\ signins \in Nat
    /\ collected \subseteq Nat

\* the key of the account, under the account's id
Sound(key, id) ==
    account # None /\ key = account.verifier.verifies /\ id = account.id

\* whatever carries an account key carries the account's
KeyInv ==
    /\ account # None => account.wrapped.key = account.verifier.verifies
    /\ \A d \in Devices : stored[d] # None => Sound(stored[d].key, stored[d].id)
    /\ \A d \in Devices : cmd[d].stage \in {"answer", "ask", "change"} =>
          Sound(cmd[d].blob.wrapped.key, cmd[d].blob.id)
    /\ \A d \in Devices : cmd[d].stage = "answer" /\ cmd[d].created =>
          cmd[d].key = account.verifier.verifies
    /\ \A d \in Devices : cmd[d].stage = "post" =>
          account # None /\ cmd[d].blob.key = account.verifier.verifies
    /\ \A d \in Devices : approval[d] # None /\ approval[d].wrapped # None =>
          account # None /\ approval[d].wrapped.key = account.verifier.verifies
    /\ \A d \in Devices : wait[d].stage \in {"clear", "save"} => Sound(wait[d].key, wait[d].id)
    /\ \A d \in Devices : wait[d].stage = "save" => approval[d] = None
    /\ \A w \in wraps : account # None /\ w.under = account.verifier.verifies

\* a device that has collected its key: nothing of its requests is left
Settled(d) == d \in Devices /\ stored[d] # None /\ wait[d] = Off /\ approval[d] = None

\* own says which device made a request
OwnedBy(own) ==
    /\ \A n \in Nat : n > requests => own[n] = None
    /\ \A d \in Devices : approval[d] # None =>
          /\ own[approval[d].public] = d
          /\ approval[d].wrapped # None => own[approval[d].wrapped.under[1]] = d
    /\ \A d \in Devices : pending[d] # None => own[pending[d]] = d
    /\ \A d \in Devices : secret[d] # None => own[secret[d]] = d
    /\ \A d \in Devices :
          wait[d].stage \in {"poll", "take", "keep", "clear", "save"} /\ wait[d].request # None =>
             own[wait[d].request] = d
    /\ \A d \in Devices : cmd[d].stage = "post" => own[cmd[d].blob.under[1]] = cmd[d].device
    /\ \A r \in collected : Settled(own[r])

OwnInv == \E own \in [Nat -> Devices \cup {None}] : OwnedBy(own)

KeysInv == Types /\ KeyInv /\ OwnInv
-----------------------------------------------------------------------------

\* Nobody has made a request at the start.
LEMMA InitOwned == Init => OwnInv
<1> SUFFICES ASSUME Init PROVE OwnInv
  OBVIOUS
<1> DEFINE nobody == [n \in Nat |-> None]
<1>1. nobody \in [Nat -> Devices \cup {None}]
  OBVIOUS
<1>2. OwnedBy(nobody)
  BY DEF Init, OwnedBy, Idle, Off
<1> QED
  BY <1>1, <1>2 DEF OwnInv

\* The invariant holds at the start, with and without a founder.
LEMMA Initial == Init => KeysInv
<1> SUFFICES ASSUME Init PROVE KeysInv
  OBVIOUS
<1>1. PICK f \in Founders : IF f = None THEN NotFounded ELSE Founded(f)
  BY DEF Init
<1>2. CASE NotFounded
  <2>1. Types
    BY <1>2, KeysAssumption DEF Init, NotFounded, Types, CmdRec, WaitRec, Idle, Off
  <2>2. KeyInv
    BY <1>2 DEF Init, NotFounded, KeyInv, Idle, Off
  <2> QED
    BY <2>1, <2>2, InitOwned DEF KeysInv
<1>3. CASE Founded(f)
  <2> DEFINE p == CHOOSE p \in Passphrases : TRUE
  <2>1. p \in Passphrases
    BY KeysAssumption
  <2> HIDE DEF p
  <2>2. account = [wrapped |-> [under |-> p, key |-> 1], verifier |-> [verifies |-> 1], id |-> 1]
    BY <1>3 DEF Founded, wrap_under_passphrase, wrap_key, account_verifier, p
  <2>3. Types
    BY <1>3, <2>1, <2>2, KeysAssumption
       DEF Init, Founded, Types, CmdRec, WaitRec, Idle, Off, Account, Stored
  <2>4. KeyInv
    <3>1. account # None
      BY <2>1, <2>2, KeysAssumption
    <3>2. \A d \in Devices : stored[d] # None => stored[d].key = 1 /\ stored[d].id = 1
      BY <1>3 DEF Founded
    <3>3. /\ wraps = {}
          /\ \A d \in Devices : cmd[d].stage = "idle" /\ wait[d].stage = "off" /\ approval[d] = None
      BY DEF Init, Idle, Off
    <3>4. /\ account.wrapped.key = 1 /\ account.verifier.verifies = 1 /\ account.id = 1
      BY <2>2
    <3> QED
      BY <3>1, <3>2, <3>3, <3>4 DEF KeyInv, Sound
  <2> QED
    BY <2>3, <2>4, InitOwned DEF KeysInv
<1> QED
  BY <1>1, <1>2, <1>3

\* A command by the fields its stage has.
LEMMA CmdForms ==
    ASSUME NEW c \in CmdRec
    PROVE  /\ c.stage \in {"answer", "ask", "change"} => c.blob \in Account /\ c.token \in Nat
           /\ c.stage = "answer" => c.key \in Nat /\ c.passphrase \in Passphrases
                                    /\ c.created \in BOOLEAN
           /\ c.stage = "change" => c.key \in Nat \cup {None}
           /\ c.stage = "abandon" => c.token \in Nat
           /\ c.stage = "post" => c.device \in Devices /\ c.blob \in Blob
BY DEF CmdRec

\* A wait by the fields its stage has.
LEMMA WaitForms ==
    ASSUME NEW w \in WaitRec
    PROVE  /\ w.stage = "off" <=> w = Off
           /\ w.stage # "off" => w.token \in Nat
           /\ w.stage \in {"poll", "take", "keep"} =>
                 /\ w.request \in Nat \cup {None}
                 /\ \A s \in {"poll", "take"} :
                       [w EXCEPT !.stage = s] = [stage |-> s, token |-> w.token, request |-> w.request]
           /\ w.stage \in {"clear", "save"} => w.request \in Nat /\ w.key \in Nat /\ w.id \in Nat
BY DEF WaitRec, Off

\* What a blob opens to is what it holds.
LEMMA Opens ==
    ASSUME NEW wrapping, NEW blob, unwrap_key(wrapping, blob) # None
    PROVE  unwrap_key(wrapping, blob) = blob.key /\ blob.under = wrapping
BY DEF unwrap_key

\* The key a device works with is the stored one.
LEMMA WorkingKey ==
    ASSUME Types, KeyInv, NEW d \in Devices, account_key_for(d) # None
    PROVE  /\ account_key_for(d) \in Nat /\ account # None
           /\ account_key_for(d) = account.verifier.verifies
BY DEF account_key_for, load_account_key, Types, Stored, KeyInv, Sound

\* Requests that run out, are cleared or are forgotten take nothing along.
LEMMA RequestsGo ==
    ASSUME KeysInv, Types',
           UNCHANGED <<account, wraps, stored, cmd, wait, requests, collected>>,
           \A e \in Devices : approval'[e] # None =>
               /\ approval[e] # None
               /\ approval'[e].public = approval[e].public
               /\ approval'[e].wrapped = approval[e].wrapped,
           \A e \in Devices : pending'[e] \in {pending[e], None},
           \A e \in Devices : secret'[e] \in {secret[e], None}
    PROVE  KeysInv'
<1>1. KeyInv'
  BY DEF KeysInv, KeyInv, Sound
<1>2. PICK own \in [Nat -> Devices \cup {None}] : OwnedBy(own)
  BY DEF KeysInv, OwnInv
<1>3. OwnedBy(own)'
  BY <1>2 DEF OwnedBy, Settled
<1> QED
  BY <1>1, <1>2, <1>3 DEF KeysInv, OwnInv

\* Sessions and the passing of time.
LEMMA SessionsKeep ==
    ASSUME KeysInv, NEW d \in Devices,
           \/ Login(d) \/ sign_out(d) \/ RunOut(d) \/ expire_approvals
           \/ \E a \in Devices : Revoke(a, d)
    PROVE  KeysInv'
<1> USE DEF KeysInv
<1>1. CASE Login(d)
  <2>1. Types'
    BY <1>1 DEF Login, upsert, client, Types
  <2> QED
    BY <1>1, <2>1, RequestsGo DEF Login, upsert, client, Types
<1>2. CASE sign_out(d)
  <2>1. Types'
    BY <1>2 DEF sign_out, delete_device, clear_pending_approval, counters, Types
  <2> QED
    BY <1>2, <2>1, RequestsGo
       DEF sign_out, delete_device, clear_pending_approval, counters, Types
<1>3. CASE RunOut(d)
  <2>0. approval[d] \in Approval
    BY <1>3 DEF RunOut, poll, Types
  <2>1. Types'
    BY <1>3, <2>0 DEF RunOut, client, counters, Types, Approval
  <2> QED
    BY <1>3, <2>0, <2>1, RequestsGo DEF RunOut, poll, client, counters, Types, Approval
<1>4. CASE expire_approvals
  <2>1. Types'
    BY <1>4 DEF expire_approvals, poll, client, counters, Types
  <2> QED
    BY <1>4, <2>1, RequestsGo DEF expire_approvals, poll, client, counters, Types
<1>5. CASE \E a \in Devices : Revoke(a, d)
  <2>1. Types'
    BY <1>5 DEF Revoke, delete_device, client, counters, Types
  <2> QED
    BY <1>5, <2>1, RequestsGo DEF Revoke, delete_device, client, counters, Types
<1> QED
  BY <1>1, <1>2, <1>3, <1>4, <1>5

\* A device that settled is unlocked, and stays so.
LEMMA SettledUnlocked ==
    ASSUME KeysInv, NEW d, Settled(d)
    PROVE  Unlocked(d)
BY DEF KeysInv, KeyInv, Sound, Settled, Unlocked, load_account_key

\* A step of a command that leaves the server and the waits alone, and keeps
\* a key only if it is the account's, keeps the invariant.
LEMMA CommandKeeps ==
    ASSUME KeysInv, Types', NEW d \in Devices,
           UNCHANGED <<account, approval, wraps, pending, secret, wait, requests, collected>>,
           \A e \in Devices \ {d} : cmd'[e] = cmd[e] /\ stored'[e] = stored[e],
           stored'[d] # stored[d] =>
               stored'[d] # None /\ Sound(stored'[d].key, stored'[d].id),
           cmd'[d].stage \in {"idle", "fresh", "abandon", "ask", "change"},
           cmd'[d].stage \in {"ask", "change"} =>
               Sound(cmd'[d].blob.wrapped.key, cmd'[d].blob.id)
    PROVE  KeysInv'
<1>1. KeyInv'
  BY DEF KeysInv, KeyInv, Sound
<1>2. PICK own \in [Nat -> Devices \cup {None}] : OwnedBy(own)
  BY DEF KeysInv, OwnInv
<1>3. \A e \in Devices : Settled(e) => Settled(e)'
  BY DEF Settled
<1>4. OwnedBy(own)'
  BY <1>2, <1>3 DEF OwnedBy, Settled
<1> QED
  BY <1>1, <1>2, <1>4 DEF KeysInv, OwnInv

\* The account is set once, and whoever set it.
LEMMA SetKeysKeeps ==
    ASSUME KeysInv, NEW d \in Devices, NEW p \in Passphrases, set_keys(d, p)
    PROVE  KeysInv'
<1> USE DEF KeysInv
<1> DEFINE row == [wrapped |-> [under |-> p, key |-> made + 1], verifier |-> [verifies |-> made + 1],
                   id |-> made + 1]
<1>1. row \in Account /\ row # None
  BY KeysAssumption DEF Types, Account
<1>2. account' = IF account # None THEN account ELSE row
  BY DEF set_keys, set, create_account_key, wrap_under_passphrase, wrap_key, account_verifier
<1>3. /\ account' \in Account /\ account' # None
      /\ account'.wrapped.key = account'.verifier.verifies
      /\ account # None => account' = account
      /\ account = None => account'.verifier.verifies = made + 1
  BY <1>1, <1>2 DEF Types, KeyInv
<1> HIDE DEF row
<1>4. UNCHANGED <<session, approval, wraps, stored, secret, pending, wait, requests, signins, collected>>
  BY DEF set_keys, client
<1>5. \/ cmd'[d] = Idle
      \/ /\ cmd'[d].stage = "answer" /\ cmd'[d].blob = account'
         /\ (cmd'[d].created => account = None) /\ cmd'[d].key = made + 1
  <2>1. \/ cmd'[d] = Idle
        \/ /\ cmd'[d].stage = "answer" /\ cmd'[d].blob = account'
           /\ cmd'[d].created = (account = None) /\ cmd'[d].key = made + 1
    BY DEF set_keys, SetCmd, Types
  <2> QED
    BY <2>1, Zenon
<1>6. \A e \in Devices \ {d} : cmd'[e] = cmd[e]
  BY DEF set_keys, SetCmd, Types
<1>7. Types'
  <2>1. cmd' \in [Devices -> CmdRec]
    <3>1. [stage |-> "answer", created |-> account = None, key |-> made + 1,
           passphrase |-> p, blob |-> account', token |-> session[d]] \in CmdRec
      BY <1>3 DEF CmdRec, Types
    <3>2. Idle \in CmdRec
      BY DEF Idle, CmdRec
    <3> QED
      BY <3>1, <3>2 DEF set_keys, SetCmd, Types
  <2>2. made' \in Nat
    BY DEF set_keys, Types
  <2> QED
    BY <1>3, <1>4, <2>1, <2>2 DEF Types
<1>8. KeyInv'
  <2>1. (\A e \in Devices : stored[e] # None => Sound(stored[e].key, stored[e].id))'
    BY <1>3, <1>4 DEF KeyInv, Sound
  <2>2. (/\ \A e \in Devices : wait[e].stage \in {"clear", "save"} => Sound(wait[e].key, wait[e].id)
         /\ \A e \in Devices : wait[e].stage = "save" => approval[e] = None)'
    BY <1>3, <1>4 DEF KeyInv, Sound
  <2>3. (/\ \A e \in Devices : approval[e] # None /\ approval[e].wrapped # None =>
              account # None /\ approval[e].wrapped.key = account.verifier.verifies
         /\ \A w \in wraps : account # None /\ w.under = account.verifier.verifies)'
    BY <1>3, <1>4 DEF KeyInv
  <2>4. (\A e \in Devices : cmd[e].stage \in {"answer", "ask", "change"} =>
            Sound(cmd[e].blob.wrapped.key, cmd[e].blob.id))'
    BY <1>3, <1>5, <1>6 DEF KeyInv, Sound, Idle
  <2>5. (\A e \in Devices : cmd[e].stage = "answer" /\ cmd[e].created =>
            cmd[e].key = account.verifier.verifies)'
    BY <1>3, <1>5, <1>6 DEF KeyInv, Sound, Idle
  <2>6. (\A e \in Devices : cmd[e].stage = "post" =>
            account # None /\ cmd[e].blob.key = account.verifier.verifies)'
    BY <1>3, <1>5, <1>6 DEF KeyInv, Idle
  <2> QED
    BY <1>3, <2>1, <2>2, <2>3, <2>4, <2>5, <2>6 DEF KeyInv
<1>9. PICK own \in [Nat -> Devices \cup {None}] : OwnedBy(own)
  BY DEF OwnInv
<1>10. OwnedBy(own)'
  BY <1>4, <1>5, <1>6, <1>9 DEF OwnedBy, Settled, Idle
<1> QED
  BY <1>7, <1>8, <1>9, <1>10 DEF OwnInv

\* The commands between two requests: the answer, the passphrase, the change.
LEMMA CommandsKeep ==
    ASSUME KeysInv, NEW d \in Devices,
           \/ Answered(d) \/ unlock(d) \/ \E stage \in {"ask", "change"} : get_keys(d, stage)
    PROVE  KeysInv'
<1> USE DEF KeysInv
<1>0. cmd[d] \in CmdRec
  BY DEF Types
<1>1. CASE Answered(d)
  <2> DEFINE c == cmd[d]
             opened == unlock_account_key(c.passphrase, c.blob.wrapped)
  <2>1. /\ c.stage = "answer" /\ c.blob \in Account /\ c.token \in Nat
        /\ c.key \in Nat /\ Sound(c.blob.wrapped.key, c.blob.id)
        /\ c.created => c.key = account.verifier.verifies
    BY <1>0, <1>1, CmdForms DEF Answered, KeyInv
  <2>2. opened # None => opened = c.blob.wrapped.key
    BY Opens DEF unlock_account_key
  <2> HIDE DEF opened
  <2>3. /\ cmd' = [cmd EXCEPT ![d] = Idle]
           \/ cmd' = [cmd EXCEPT ![d] = [stage |-> "ask", blob |-> c.blob, token |-> c.token]]
        /\ \/ stored' = stored
           \/ c.created /\ stored' = [stored EXCEPT ![d] = [key |-> c.key, id |-> c.blob.id]]
           \/ /\ opened # None
              /\ stored' = [stored EXCEPT ![d] = [key |-> opened, id |-> c.blob.id]]
    BY <1>1 DEF Answered, SetCmd, save_account_key, opened
  <2>4. \/ stored' = stored
        \/ \E key \in Nat : /\ Sound(key, c.blob.id)
                            /\ stored' = [stored EXCEPT ![d] = [key |-> key, id |-> c.blob.id]]
    BY <2>1, <2>2, <2>3 DEF Sound, Account
  <2>5. \A key \in Nat : [key |-> key, id |-> c.blob.id] \in Stored
    BY <2>1 DEF Stored, Account
  <2>6. /\ stored' \in [Devices -> Stored \cup {None}]
        /\ \A e \in Devices \ {d} : stored'[e] = stored[e]
        /\ stored'[d] # stored[d] => stored'[d] # None /\ Sound(stored'[d].key, stored'[d].id)
    <3>1. CASE stored' = stored
      BY <3>1 DEF Types
    <3>2. CASE stored' # stored
      <4>1. PICK key \in Nat :
              /\ Sound(key, c.blob.id)
              /\ stored' = [stored EXCEPT ![d] = [key |-> key, id |-> c.blob.id]]
        BY <2>4, <3>2
      <4>2. stored'[d] = [key |-> key, id |-> c.blob.id]
        BY <4>1 DEF Types
      <4>3. stored'[d] \in Stored /\ stored'[d] # None
        BY <2>5, <4>2, KeysAssumption DEF Stored
      <4> QED
        BY <4>1, <4>2, <4>3 DEF Types
    <3> QED
      BY <3>1, <3>2
  <2>7. /\ cmd' \in [Devices -> CmdRec] /\ \A e \in Devices \ {d} : cmd'[e] = cmd[e]
        /\ cmd'[d].stage = "idle" \/ (cmd'[d].stage = "ask" /\ cmd'[d].blob = c.blob)
    BY <2>1, <2>3 DEF Types, CmdRec, Idle
  <2>8. Types'
    BY <1>1, <2>6, <2>7 DEF Answered, server, counters, Types
  <2> QED
    BY <1>1, <2>1, <2>6, <2>7, <2>8, CommandKeeps DEF Answered, server, counters
<1>2. CASE \E stage \in {"ask", "change"} : get_keys(d, stage)
  <2>1. PICK stage \in {"ask", "change"} : get_keys(d, stage)
    BY <1>2
  <2>2. account_key_for(d) \in Nat \cup {None}
    BY WorkingKey
  <2>3. /\ cmd' \in [Devices -> CmdRec] /\ \A e \in Devices \ {d} : cmd'[e] = cmd[e]
        /\ cmd'[d].stage = stage /\ cmd'[d].blob = account /\ account # None
    BY <2>1, <2>2 DEF get_keys, get, SetCmd, Types, CmdRec
  <2>4. Types'
    BY <2>1, <2>3 DEF get_keys, server, client, counters, Types
  <2> QED
    BY <2>1, <2>3, <2>4, CommandKeeps DEF get_keys, server, client, counters, KeyInv, Sound
<1>3. CASE unlock(d)
  <2> DEFINE c == cmd[d]
  <2>1. /\ c.stage = "ask" /\ c.blob \in Account /\ c.token \in Nat
        /\ Sound(c.blob.wrapped.key, c.blob.id)
    BY <1>0, <1>3, CmdForms DEF unlock, KeyInv
  <2>2. PICK p \in Passphrases :
          LET key == unlock_account_key(p, c.blob.wrapped)
          IN  IF key = None THEN SetCmd(d, Idle) /\ UNCHANGED stored
              ELSE /\ save_account_key(d, key, c.blob.id)
                   /\ SetCmd(d, IF Platform[d] = "cli" THEN Idle
                                ELSE [stage |-> "abandon", token |-> c.token])
    BY <1>3 DEF unlock
  <2> DEFINE key == unlock_account_key(p, c.blob.wrapped)
  <2>3. key # None => key = c.blob.wrapped.key
    BY Opens DEF unlock_account_key
  <2> HIDE DEF key
  <2>4. \/ stored' = stored
        \/ key # None /\ stored' = [stored EXCEPT ![d] = [key |-> key, id |-> c.blob.id]]
    BY <2>2 DEF save_account_key, key
  <2>5. /\ cmd' \in [Devices -> CmdRec] /\ \A e \in Devices \ {d} : cmd'[e] = cmd[e]
        /\ cmd'[d].stage \in {"idle", "abandon"}
    BY <2>1, <2>2 DEF SetCmd, Types, CmdRec, Idle, key
  <2>6. [key |-> c.blob.wrapped.key, id |-> c.blob.id] \in Stored
    BY <2>1 DEF Stored, Account
  <2>7. /\ stored' \in [Devices -> Stored \cup {None}]
        /\ \A e \in Devices \ {d} : stored'[e] = stored[e]
        /\ stored'[d] # stored[d] => stored'[d] # None /\ Sound(stored'[d].key, stored'[d].id)
    BY <2>1, <2>3, <2>4, <2>6, KeysAssumption DEF Types, Stored
  <2>8. Types'
    BY <1>3, <2>5, <2>7 DEF unlock, server, counters, Types
  <2> QED
    BY <1>3, <2>5, <2>7, <2>8, CommandKeeps DEF unlock, server, counters
<1> QED
  BY <1>1, <1>2, <1>3

\* CLI unlock_account: a key under an id the server no longer has is dropped,
\* which never happens to a device that has settled.
LEMMA UnlockAccountKeeps ==
    ASSUME KeysInv, NEW d \in Devices, unlock_account(d)
    PROVE  KeysInv'
<1> USE DEF KeysInv
<1>1. CASE get = None
  <2>1. /\ cmd' \in [Devices -> CmdRec] /\ \A e \in Devices \ {d} : cmd'[e] = cmd[e]
        /\ cmd'[d].stage = "fresh"
    BY <1>1 DEF unlock_account, SetCmd, Types, CmdRec
  <2>2. Types'
    BY <1>1, <2>1 DEF unlock_account, server, counters, Types
  <2> QED
    BY <1>1, <2>1, <2>2, CommandKeeps DEF unlock_account, server, counters
<1>2. CASE get # None /\ ~Unlocked(d)
  <2>1. /\ stored' = [stored EXCEPT ![d] = None]
        /\ UNCHANGED <<server, secret, pending, counters>>
        /\ \/ /\ cmd' = [cmd EXCEPT ![d] = [stage |-> "ask", blob |-> account, token |-> session[d]]]
              /\ UNCHANGED wait
           \/ /\ wait' = [wait EXCEPT ![d] = [stage |-> "register", token |-> session[d]]]
              /\ UNCHANGED cmd
    BY <1>2 DEF unlock_account, SetCmd, get
  <2>2. account \in Account /\ account # None
    BY <1>2 DEF get, Types
  <2>3. /\ cmd' \in [Devices -> CmdRec] /\ \A e \in Devices \ {d} : cmd'[e] = cmd[e]
        /\ cmd'[d] = cmd[d] \/ (cmd'[d].stage = "ask" /\ cmd'[d].blob = account)
    BY <2>1, <2>2 DEF Types, CmdRec
  <2>4. /\ wait' \in [Devices -> WaitRec] /\ \A e \in Devices \ {d} : wait'[e] = wait[e]
        /\ wait'[d] = wait[d] \/ wait'[d].stage = "register"
    BY <2>1 DEF Types, WaitRec
  <2>5. /\ stored' \in [Devices -> Stored \cup {None}] /\ stored'[d] = None
        /\ \A e \in Devices \ {d} : stored'[e] = stored[e]
    BY <2>1 DEF Types
  <2>6. Types'
    BY <2>1, <2>3, <2>4, <2>5 DEF server, counters, Types
  <2>7. KeyInv'
    BY <2>1, <2>2, <2>3, <2>4, <2>5 DEF server, KeyInv, Sound
  <2>8. PICK own \in [Nat -> Devices \cup {None}] : OwnedBy(own)
    BY DEF OwnInv
  <2>9. \A e : Settled(e) => Settled(e)'
    BY <1>2, <2>1, <2>4, <2>5, SettledUnlocked DEF Settled, server
  <2>10. OwnedBy(own)'
    BY <2>1, <2>3, <2>4, <2>8, <2>9 DEF OwnedBy, server, counters
  <2> QED
    BY <2>6, <2>7, <2>8, <2>10 DEF OwnInv
<1> QED
  BY <1>1, <1>2 DEF unlock_account

\* The desktop drops its request once it has the key.
LEMMA AbandonKeeps ==
    ASSUME KeysInv, NEW d \in Devices, abandon_approval(d)
    PROVE  KeysInv'
<1> USE DEF KeysInv
<1>1. /\ approval' = approval \/ approval' = [approval EXCEPT ![d] = None]
      /\ pending' = [pending EXCEPT ![d] = None] /\ secret' = [secret EXCEPT ![d] = None]
      /\ cmd' = [cmd EXCEPT ![d] = Idle]
      /\ UNCHANGED <<account, session, wraps, stored, wait, made, requests, signins, collected>>
  BY DEF abandon_approval, cancel, clear_pending_approval, SetCmd, counters
<1>2. /\ cmd' \in [Devices -> CmdRec] /\ \A e \in Devices \ {d} : cmd'[e] = cmd[e]
      /\ cmd'[d].stage = "idle"
  BY <1>1 DEF Types, CmdRec, Idle
<1>3. Types'
  BY <1>1, <1>2 DEF Types
<1>4. KeyInv'
  BY <1>1, <1>2 DEF KeyInv, Sound, Types
<1>5. PICK own \in [Nat -> Devices \cup {None}] : OwnedBy(own)
  BY DEF OwnInv
<1>6. OwnedBy(own)'
  BY <1>1, <1>2, <1>5 DEF OwnedBy, Settled, Types
<1> QED
  BY <1>3, <1>4, <1>5, <1>6 DEF OwnInv

\* A changed passphrase wraps the same key: the server asks for the verifier.
LEMMA ChangeKeeps ==
    ASSUME KeysInv, NEW d \in Devices, FinishChange(d)
    PROVE  KeysInv'
<1> USE DEF KeysInv
<1>1. /\ cmd' \in [Devices -> CmdRec] /\ \A e \in Devices \ {d} : cmd'[e] = cmd[e]
      /\ cmd'[d].stage = "idle"
  BY DEF FinishChange, SetCmd, Types, CmdRec, Idle
<1>2. UNCHANGED <<session, approval, wraps, stored, secret, pending, wait, made, requests, signins, collected>>
  BY DEF FinishChange, client, counters
<1>3. cmd[d].stage = "change" /\ cmd[d].blob \in Account
  BY CmdForms DEF FinishChange, Types
<1>4. \/ account' = account
      \/ \E opened \in Nat, next \in Passphrases :
            /\ account # None /\ account.verifier = [verifies |-> opened]
            /\ account' = [account EXCEPT !.wrapped = [under |-> next, key |-> opened]]
  <2>1. PICK current \in Passphrases, next \in Passphrases :
          LET opened == unlock_account_key(current, cmd[d].blob.wrapped)
          IN  IF opened # None /\ opened = cmd[d].key
              THEN rewrap_keys(d, rewrap_account_key(opened, next))
              ELSE UNCHANGED account
    BY DEF FinishChange
  <2> DEFINE opened == unlock_account_key(current, cmd[d].blob.wrapped)
  <2>2. opened # None => opened \in Nat
    BY <1>3, Opens DEF unlock_account_key, Account
  <2> HIDE DEF opened
  <2>3. account' = account \/ (opened # None /\ rewrap_keys(d, rewrap_account_key(opened, next)))
    BY <2>1 DEF opened
  <2> QED
    BY <2>2, <2>3 DEF rewrap_keys, rewrap, rewrap_account_key, wrap_under_passphrase, wrap_key,
                      account_verifier
<1>5. /\ account' \in Account \cup {None}
      /\ account # None => /\ account' # None /\ account'.id = account.id
                           /\ account'.verifier = account.verifier
                           /\ account'.wrapped.key = account'.verifier.verifies
      /\ account = None => account' = None
  <2>1. CASE account' = account
    BY <2>1 DEF Types, KeyInv
  <2>2. ASSUME NEW opened \in Nat, NEW next \in Passphrases,
               account # None, account.verifier = [verifies |-> opened],
               account' = [account EXCEPT !.wrapped = [under |-> next, key |-> opened]]
        PROVE  /\ account' \in Account /\ account'.id = account.id
               /\ account'.verifier = account.verifier
               /\ account'.wrapped.key = account'.verifier.verifies
    BY <2>2 DEF Types, Account
  <2> QED
    BY <1>4, <2>1, <2>2, KeysAssumption DEF Account
<1>6. Types'
  BY <1>1, <1>2, <1>5 DEF Types
<1>7. KeyInv'
  BY <1>1, <1>2, <1>5 DEF KeyInv, Sound
<1>8. PICK own \in [Nat -> Devices \cup {None}] : OwnedBy(own)
  BY DEF OwnInv
<1>9. OwnedBy(own)'
  BY <1>1, <1>2, <1>8 DEF OwnedBy, Settled
<1> QED
  BY <1>6, <1>7, <1>8, <1>9 DEF OwnInv

\* A vault is wrapped under the account's key.
LEMMA WrapKeeps ==
    ASSUME KeysInv, NEW d \in Devices, WrapVault(d)
    PROVE  KeysInv'
<1> USE DEF KeysInv
<1>1. account_key_for(d) # None
  BY DEF WrapVault
<1>2. /\ account_key_for(d) \in Nat /\ account # None
      /\ account_key_for(d) = account.verifier.verifies
  BY <1>1, WorkingKey
<1>3. /\ wraps' = wraps \cup {[under |-> account_key_for(d), key |-> d]}
      /\ UNCHANGED <<account, session, approval, stored, secret, pending, cmd, wait, made,
                     requests, signins, collected>>
  BY DEF WrapVault, wrap_vault_key, wrap_key, client, counters
<1>4. Types'
  BY <1>2, <1>3 DEF Types
<1>5. KeyInv'
  BY <1>2, <1>3 DEF KeyInv, Sound
<1>6. PICK own \in [Nat -> Devices \cup {None}] : OwnedBy(own)
  BY DEF OwnInv
<1>7. OwnedBy(own)'
  BY <1>3, <1>6 DEF OwnedBy, Settled
<1> QED
  BY <1>4, <1>5, <1>6, <1>7 DEF OwnInv

\* The approver wraps the account's key to a request of the device it names.
LEMMA ApproverKeeps ==
    ASSUME KeysInv, NEW a \in Devices, NEW d \in Devices,
           MayApprove(a, d), approve_with_key(a, d)
    PROVE  KeysInv'
<1> USE DEF KeysInv
<1> DEFINE key == account_key_for(a)
           public == approval[d].public
           blob == [under |-> <<public, d>>, key |-> key]
<1>1. key \in Nat /\ account # None /\ key = account.verifier.verifies
  BY WorkingKey DEF MayApprove
<1>2. approval[d] # None /\ poll(d) = approval[d] /\ public \in Nat
  BY DEF MayApprove, list_approval, poll, Types, Approval
<1>3. cmd' = [cmd EXCEPT ![a] = [stage |-> "post", device |-> d, blob |-> blob,
                                 token |-> session[a], verifier |-> [verifies |-> key]]]
  BY <1>2 DEF approve_with_key, approve_blob, list_approval, approval_wrap_key, wrap_key,
              account_verifier, SetCmd
<1> HIDE DEF key, public
<1>4. blob \in Blob
  BY <1>1, <1>2 DEF Blob
<1>5. UNCHANGED <<account, session, approval, wraps, stored, secret, pending, wait, made, requests,
                  signins, collected>>
  BY DEF MayApprove, server, client, counters
<1>6. /\ cmd' \in [Devices -> CmdRec] /\ \A e \in Devices \ {a} : cmd'[e] = cmd[e]
      /\ cmd'[a].stage = "post" /\ cmd'[a].device = d
      /\ cmd'[a].blob = blob
  BY <1>1, <1>3, <1>4 DEF Types, CmdRec
<1>7. Types'
  BY <1>5, <1>6 DEF Types
<1>8. KeyInv'
  BY <1>1, <1>5, <1>6 DEF KeyInv, Sound
<1>9. PICK own \in [Nat -> Devices \cup {None}] : OwnedBy(own)
  BY DEF OwnInv
<1>10. own[public] = d
  BY <1>2, <1>9 DEF OwnedBy, public
<1>11. OwnedBy(own)'
  BY <1>5, <1>6, <1>9, <1>10 DEF OwnedBy, Settled
<1> QED
  BY <1>7, <1>8, <1>9, <1>11 DEF OwnInv

\* The relayed blob, which may be for an earlier request of the same device.
LEMMA PostKeeps ==
    ASSUME KeysInv, NEW a \in Devices, approve_device(a)
    PROVE  KeysInv'
<1> USE DEF KeysInv
<1> DEFINE c == cmd[a]
<1>1. c.stage = "post" /\ c.device \in Devices /\ c.blob \in Blob
  BY CmdForms DEF approve_device, Types
<1>2. UNCHANGED <<account, session, wraps, stored, secret, pending, wait, made, requests, signins,
                  collected>>
  BY DEF approve_device, client, counters
<1>3. /\ cmd' \in [Devices -> CmdRec] /\ \A e \in Devices \ {a} : cmd'[e] = cmd[e]
      /\ cmd'[a].stage = "idle"
  BY DEF approve_device, SetCmd, Types, CmdRec, Idle
<1>4. \/ approval' = approval
      \/ approval[c.device] # None /\ approval' = [approval EXCEPT ![c.device].wrapped = c.blob]
  BY DEF approve_device, approvable, poll, approve
<1>5. /\ approval' \in [Devices -> Approval \cup {None}]
      /\ \A e \in Devices : approval'[e] # approval[e] =>
            /\ e = c.device /\ approval[e] # None
            /\ approval'[e].public = approval[e].public /\ approval'[e].wrapped = c.blob
  BY <1>1, <1>4 DEF Types, Approval
<1>6. Types'
  BY <1>2, <1>3, <1>5 DEF Types
<1>7. KeyInv'
  BY <1>1, <1>2, <1>3, <1>5 DEF KeyInv, Sound
<1>8. PICK own \in [Nat -> Devices \cup {None}] : OwnedBy(own)
  BY DEF OwnInv
<1>9. \A e : Settled(e) => Settled(e)'
  BY <1>2, <1>5 DEF Settled
<1>10. OwnedBy(own)'
  BY <1>1, <1>2, <1>3, <1>5, <1>8, <1>9 DEF OwnedBy
<1> QED
  BY <1>6, <1>7, <1>8, <1>10 DEF OwnInv

\* the requests a waiting device knows of
Mine(d) ==
    {None, pending[d], secret[d]}
        \cup IF wait[d].stage \in {"poll", "take", "keep", "clear", "save"} THEN {wait[d].request} ELSE {}

\* A turn of the wait, or a crash: at most the own request on the server goes,
\* and what the device goes on with is a request it knows of.
WaitTurn(d) ==
    /\ UNCHANGED <<account, session, wraps, stored, made, requests, signins, collected>>
    /\ cmd' = cmd \/ cmd' = [cmd EXCEPT ![d] = Idle]
    /\ approval' = approval \/ approval' = [approval EXCEPT ![d] = None]
    /\ \E p \in Mine(d) : pending' = [pending EXCEPT ![d] = p]
    /\ \E s \in Mine(d) : secret' = [secret EXCEPT ![d] = s]
    /\ \E w \in WaitRec :
          /\ wait' = [wait EXCEPT ![d] = w]
          /\ w.stage \in {"poll", "take", "keep", "clear", "save"} => w.request \in Mine(d)
          /\ w.stage \in {"clear", "save"} => Sound(w.key, w.id)
          /\ w.stage = "save" => approval'[d] = None
          /\ Settled(d) => w = Off

\* Such a turn keeps the invariant.
LEMMA WaitKeeps ==
    ASSUME KeysInv, NEW d \in Devices, WaitTurn(d)
    PROVE  KeysInv'
<1> USE DEF KeysInv
<1>1. Mine(d) \subseteq Nat \cup {None}
  <2>1. wait[d].stage \in {"poll", "take", "keep", "clear", "save"} => wait[d].request \in Nat \cup {None}
    BY WaitForms DEF Types
  <2>2. pending[d] \in Nat \cup {None} /\ secret[d] \in Nat \cup {None}
    BY DEF Types
  <2> QED
    BY <2>1, <2>2 DEF Mine
<1>2. /\ cmd' \in [Devices -> CmdRec] /\ \A e \in Devices \ {d} : cmd'[e] = cmd[e]
      /\ cmd'[d] = cmd[d] \/ cmd'[d].stage = "idle"
  BY DEF WaitTurn, Types, CmdRec, Idle
<1>3. /\ wait' \in [Devices -> WaitRec] /\ \A e \in Devices \ {d} : wait'[e] = wait[e]
      /\ wait'[d].stage \in {"poll", "take", "keep", "clear", "save"} => wait'[d].request \in Mine(d)
      /\ wait'[d].stage \in {"clear", "save"} => Sound(wait'[d].key, wait'[d].id)
      /\ wait'[d].stage = "save" => approval'[d] = None
      /\ Settled(d) => wait'[d] = Off
  BY DEF WaitTurn, Types
<1>4. /\ approval' \in [Devices -> Approval \cup {None}]
      /\ \A e \in Devices : approval'[e] = approval[e] \/ approval'[e] = None
  BY DEF WaitTurn, Types
<1>5. /\ pending' \in [Devices -> Nat \cup {None}] /\ pending'[d] \in Mine(d)
      /\ \A e \in Devices \ {d} : pending'[e] = pending[e]
      /\ secret' \in [Devices -> Nat \cup {None}] /\ secret'[d] \in Mine(d)
      /\ \A e \in Devices \ {d} : secret'[e] = secret[e]
  BY <1>1 DEF WaitTurn, Types
<1>t. UNCHANGED <<account, session, wraps, stored, made, requests, signins, collected>>
  BY DEF WaitTurn
<1>6. Types'
  BY <1>2, <1>3, <1>4, <1>5, <1>t DEF Types
<1>7. KeyInv'
  BY <1>2, <1>3, <1>4, <1>t DEF KeyInv, Sound
<1>8. PICK own \in [Nat -> Devices \cup {None}] : OwnedBy(own)
  BY DEF OwnInv
<1>9. \A r \in Mine(d) : r # None => own[r] = d
  BY <1>8 DEF OwnedBy, Mine
<1>10. \A e : Settled(e) => Settled(e)'
  BY <1>3, <1>4, <1>t DEF Settled
<1>11. OwnedBy(own)'
  BY <1>2, <1>3, <1>4, <1>5, <1>8, <1>9, <1>10, <1>t DEF OwnedBy
<1> QED
  BY <1>6, <1>7, <1>8, <1>11 DEF OwnInv

\* What the waiting device does between the requests that change its key.
LEMMA WaitingKeeps ==
    ASSUME KeysInv, NEW d \in Devices,
           \/ poll_approval_inner(d) \/ auth_poll_approval(d) \/ approval_status(d)
           \/ take_approved_key(d) \/ ClearTaken(d) \/ save_approval_secret(d)
           \/ Unauthorized(d) \/ StopWaiting(d) \/ Fail(d)
    PROVE  WaitTurn(d)
<1> USE DEF KeysInv
<1> DEFINE Goes(w) == /\ w \in WaitRec
                      /\ w.stage \in {"poll", "take", "keep", "clear", "save"} => w.request \in Mine(d)
                      /\ w.stage \in {"clear", "save"} => Sound(w.key, w.id)
                      /\ w.stage = "save" => approval'[d] = None
                      /\ Settled(d) => w = Off
           Keeps(f, g) == \E p \in Mine(d) : g = [f EXCEPT ![d] = p]
           request == wait[d].request
<1>0. /\ wait[d] \in WaitRec /\ session[d] \in Nat
      /\ pending[d] \in Nat \cup {None} /\ secret[d] \in Nat \cup {None}
      /\ wait = [wait EXCEPT ![d] = wait[d]]
  BY DEF Types
<1>1. Settled(d) => wait[d] = Off /\ Unlocked(d)
  BY SettledUnlocked DEF Settled
<1>2. Goes(Off) /\ (wait[d].stage \notin {"clear", "save"} => Goes(wait[d]))
  BY <1>0, <1>1 DEF WaitRec, Off, Mine
<1>3. ~Settled(d) => \A t \in Nat : Goes([stage |-> "register", token |-> t])
  BY DEF WaitRec
<1>4. ~Settled(d) => \A t \in Nat, s \in {"poll", "take"}, r \in Mine(d) \cap (Nat \cup {None}) :
         Goes([stage |-> s, token |-> t, request |-> r])
  BY DEF WaitRec
<1>5. /\ {None, pending[d], secret[d]} \subseteq Mine(d)
      /\ wait[d].stage \in {"poll", "take", "keep", "clear", "save"} => request \in Mine(d)
  BY DEF Mine
<1>6. /\ \A p \in Mine(d) : pending' = [pending EXCEPT ![d] = p] => Keeps(pending, pending')
      /\ \A p \in Mine(d) : secret' = [secret EXCEPT ![d] = p] => Keeps(secret, secret')
      /\ pending' = pending => Keeps(pending, pending')
      /\ secret' = secret => Keeps(secret, secret')
  <2>1. pending = [pending EXCEPT ![d] = pending[d]] /\ secret = [secret EXCEPT ![d] = secret[d]]
    BY DEF Types
  <2> QED
    BY <2>1, <1>5
<1>7. SUFFICES /\ UNCHANGED <<account, session, wraps, stored, made, requests, signins, collected>>
               /\ cmd' = cmd \/ cmd' = [cmd EXCEPT ![d] = Idle]
               /\ approval' = approval \/ approval' = [approval EXCEPT ![d] = None]
               /\ Keeps(pending, pending') /\ Keeps(secret, secret')
               /\ \E w : Goes(w) /\ wait' = [wait EXCEPT ![d] = w]
  BY DEF WaitTurn
<1> HIDE DEF Goes, Keeps
<1>8. CASE poll_approval_inner(d)
  <2> DEFINE r == IF pending[d] # None THEN pending[d] ELSE secret[d]
  <2>1. r \in Mine(d) \cap (Nat \cup {None})
    BY <1>0, <1>5
  <2> HIDE DEF r
  <2>2. ~Unlocked(d) => Goes([stage |-> "poll", token |-> session[d], request |-> r])
    BY <1>0, <1>1, <1>4, <2>1
  <2>3. /\ \/ wait' = wait
           \/ ~Unlocked(d) /\ wait' = [wait EXCEPT ![d] =
                                 [stage |-> "poll", token |-> session[d], request |-> r]]
        /\ wait[d] = Off
        /\ pending' = [pending EXCEPT ![d] = None]
        /\ secret' = secret \/ secret' = [secret EXCEPT ![d] = None]
        /\ UNCHANGED <<account, session, wraps, stored, made, requests, signins, collected, cmd, approval>>
    BY <1>8 DEF poll_approval_inner, SetWait, Polling, load_approval_secret, clear_pending_approval,
                server, counters, r
  <2> QED
    BY <1>0, <1>2, <1>5, <1>6, <2>2, <2>3
<1>9. CASE auth_poll_approval(d)
  <2> DEFINE r == IF pending[d] # None THEN pending[d] ELSE secret[d]
  <2>1. r \in Mine(d) \cap (Nat \cup {None})
    BY <1>0, <1>5
  <2> HIDE DEF r
  <2>2. ~Unlocked(d) => /\ Goes([stage |-> "poll", token |-> session[d], request |-> r])
                        /\ Goes([stage |-> "register", token |-> session[d]])
    BY <1>0, <1>1, <1>3, <1>4, <2>1
  <2>3. /\ ~Unlocked(d)
        /\ \/ wait' = [wait EXCEPT ![d] = [stage |-> "poll", token |-> session[d], request |-> r]]
           \/ wait' = [wait EXCEPT ![d] = [stage |-> "register", token |-> session[d]]]
        /\ pending' = [pending EXCEPT ![d] = r]
        /\ UNCHANGED <<account, session, wraps, stored, made, requests, signins, collected, cmd, approval, secret>>
    BY <1>9 DEF auth_poll_approval, SetWait, Polling, load_approval_secret, server, counters, r
  <2> QED
    BY <1>6, <2>1, <2>2, <2>3
<1>10. ASSUME wait[d].stage \in {"poll", "take", "keep"}, Rest(d, request)
       PROVE  Keeps(pending, pending') /\ \E w : Goes(w) /\ wait' = [wait EXCEPT ![d] = w]
  <2>1. /\ [wait[d] EXCEPT !.stage = "poll"] = [stage |-> "poll", token |-> wait[d].token,
                                               request |-> request]
        /\ wait[d].token \in Nat /\ request \in Nat \cup {None} /\ wait[d] # Off
    BY <1>0, <1>10, WaitForms DEF Off
  <2>2. Goes([stage |-> "poll", token |-> wait[d].token, request |-> request])
    BY <1>1, <1>4, <1>5, <1>10, <2>1
  <2>3. \/ /\ wait' = [wait EXCEPT ![d] = [stage |-> "poll", token |-> wait[d].token, request |-> request]]
           /\ pending' = pending
        \/ wait' = [wait EXCEPT ![d] = Off] /\ pending' = [pending EXCEPT ![d] = request]
    BY <1>10, <2>1 DEF Rest, SetWait
  <2> QED
    BY <1>2, <1>5, <1>6, <1>10, <2>2, <2>3
<1>11. CASE approval_status(d)
  <2>1. wait[d].stage = "poll" /\ wait[d] # Off /\ wait[d].token \in Nat
    BY <1>0, <1>11, WaitForms DEF approval_status, Off
  <2>2. /\ [wait[d] EXCEPT !.stage = "take"] = [stage |-> "take", token |-> wait[d].token,
                                               request |-> request]
        /\ request \in Nat \cup {None}
    BY <1>0, <2>1, WaitForms
  <2>3. /\ Goes([stage |-> "take", token |-> wait[d].token, request |-> request])
        /\ Goes([stage |-> "register", token |-> wait[d].token])
    BY <1>1, <1>3, <1>4, <1>5, <2>1, <2>2
  <2>4. /\ UNCHANGED <<account, session, wraps, stored, made, requests, signins, collected, cmd, approval, secret>>
        /\ \/ wait' = [wait EXCEPT ![d] = [stage |-> "take", token |-> wait[d].token, request |-> request]]
              /\ UNCHANGED pending
           \/ Rest(d, request)
           \/ wait' = [wait EXCEPT ![d] = [stage |-> "register", token |-> wait[d].token]]
              /\ UNCHANGED pending
    BY <1>11, <2>2 DEF approval_status, SetWait, server, counters
  <2> QED
    BY <1>6, <1>10, <2>1, <2>3, <2>4
<1>12. CASE take_approved_key(d)
  <2> DEFINE key == accept_approval(request, approval[d].wrapped, d)
             taken == [stage |-> "clear", token |-> wait[d].token, request |-> request,
                       key |-> key, id |-> account.id]
  <2>1. wait[d].stage = "take" /\ wait[d] # Off /\ wait[d].token \in Nat /\ request \in Nat \cup {None}
    BY <1>0, <1>12, WaitForms DEF take_approved_key, Off
  <2>2. \/ Rest(d, request) /\ UNCHANGED secret
        \/ Poisoned(d)
        \/ /\ approval[d] # None /\ approval[d].wrapped # None /\ key # None
           /\ wait' = [wait EXCEPT ![d] = taken] /\ UNCHANGED <<pending, secret>>
    BY <1>12 DEF take_approved_key, poll, SetWait
  <2>3. UNCHANGED <<account, session, wraps, stored, made, requests, signins, collected, cmd, approval>>
    BY <1>12 DEF take_approved_key, server, counters
  <2>4. CASE Rest(d, request) /\ UNCHANGED secret
    BY <1>6, <1>10, <2>1, <2>3, <2>4
  <2>5. CASE Poisoned(d)
    <3>1. /\ wait' = [wait EXCEPT ![d] = Off]
          /\ pending' = pending \/ pending' = [pending EXCEPT ![d] = None]
          /\ secret' = secret \/ secret' = [secret EXCEPT ![d] = None]
      BY <2>5 DEF Poisoned, SetWait, clear_pending_approval
    <3> QED
      BY <1>2, <1>5, <1>6, <2>3, <3>1
  <2>6. CASE /\ approval[d] # None /\ approval[d].wrapped # None /\ key # None
             /\ wait' = [wait EXCEPT ![d] = taken] /\ UNCHANGED <<pending, secret>>
    <3>1. key = approval[d].wrapped.key /\ approval[d].wrapped.under = <<request, d>>
      BY <2>6, Opens DEF accept_approval, approval_wrap_key
    <3>2. approval[d].wrapped \in Blob
      BY <2>6 DEF Types, Approval
    <3>3. account # None /\ key = account.verifier.verifies /\ account \in Account
      BY <2>6, <3>1 DEF KeyInv, Types
    <3>4. request \in Nat
      BY <3>1, <3>2 DEF Blob
    <3>5. key \in Nat /\ account.id \in Nat
      BY <3>1, <3>2, <3>3 DEF Blob, Account
    <3> HIDE DEF key
    <3>6. taken \in WaitRec /\ taken.stage = "clear" /\ taken.request = request
      BY <2>1, <3>4, <3>5 DEF WaitRec
    <3>7. Goes(taken)
      BY <1>1, <1>5, <2>1, <3>3, <3>6 DEF Goes, Sound
    <3> QED
      BY <1>6, <2>3, <2>6, <3>7
  <2> QED
    BY <2>2, <2>4, <2>5, <2>6
<1>c. CASE ClearTaken(d)
  <2> DEFINE w == [wait[d] EXCEPT !.stage = "save"]
  <2>1. /\ wait[d].stage = "clear" /\ approval' = [approval EXCEPT ![d] = None]
        /\ wait' = [wait EXCEPT ![d] = w]
        /\ UNCHANGED <<account, session, wraps, stored, made, requests, signins, collected, cmd,
                       pending, secret>>
    BY <1>c DEF ClearTaken, clear_approval, cancel, SetWait, client, counters
  <2>2. /\ w \in WaitRec /\ w.stage = "save" /\ w.request = request
        /\ w.key = wait[d].key /\ w.id = wait[d].id
    BY <1>0, <2>1 DEF WaitRec, Off
  <2>3. Sound(wait[d].key, wait[d].id)
    BY <2>1 DEF KeyInv
  <2>4. approval'[d] = None /\ wait[d] # Off
    BY <2>1 DEF Types, Off
  <2>5. Goes(w)
    BY <1>1, <1>5, <2>1, <2>2, <2>3, <2>4 DEF Goes, Sound
  <2> QED
    BY <1>6, <2>1, <2>5
<1>13. CASE save_approval_secret(d)
  <2>1. wait[d].stage = "keep" /\ Rest(d, request)
    BY <1>13 DEF save_approval_secret
  <2>2. /\ UNCHANGED <<account, session, wraps, stored, made, requests, signins, collected, cmd, approval>>
        /\ secret' = secret \/ secret' = [secret EXCEPT ![d] = request]
    BY <1>13 DEF save_approval_secret, server, counters
  <2> QED
    BY <1>5, <1>6, <1>10, <2>1, <2>2
<1>14. CASE Unauthorized(d) \/ StopWaiting(d)
  <2>1. /\ UNCHANGED <<account, session, wraps, stored, made, requests, signins, collected, cmd, pending, secret>>
        /\ approval' = approval \/ approval' = [approval EXCEPT ![d] = None]
        /\ wait' = [wait EXCEPT ![d] = Off]
    BY <1>14 DEF Unauthorized, StopWaiting, cancel, SetWait, server, client, counters
  <2> QED
    BY <1>2, <1>6, <2>1
<1>15. CASE Fail(d)
  <2>1. /\ UNCHANGED <<account, session, wraps, stored, made, requests, signins, collected, approval, secret>>
        /\ cmd' = cmd \/ cmd' = [cmd EXCEPT ![d] = Idle]
        /\ pending' = pending \/ pending' = [pending EXCEPT ![d] = None]
        /\ wait' = [wait EXCEPT ![d] = Off]
    BY <1>15 DEF Fail, SetWait, SetCmd, server
  <2> QED
    BY <1>2, <1>5, <1>6, <2>1
<1> QED
  BY <1>8, <1>9, <1>11, <1>12, <1>c, <1>13, <1>14, <1>15

\* A device that stores the key it collected has settled.
LEMMA SaveTakenKeeps ==
    ASSUME KeysInv, NEW d \in Devices, SaveTaken(d)
    PROVE  KeysInv'
<1> USE DEF KeysInv
<1> DEFINE w == wait[d]
<1>1. /\ w.stage = "save" /\ w.request \in Nat /\ w.key \in Nat /\ w.id \in Nat
      /\ Sound(w.key, w.id) /\ approval[d] = None
  BY WaitForms DEF SaveTaken, Types, KeyInv
<1>2. /\ stored' = [stored EXCEPT ![d] = [key |-> w.key, id |-> w.id]]
      /\ pending' = [pending EXCEPT ![d] = None] /\ secret' = [secret EXCEPT ![d] = None]
      /\ collected' = collected \cup {w.request}
      /\ wait' = [wait EXCEPT ![d] = Off]
      /\ UNCHANGED <<account, session, approval, wraps, cmd, made, requests, signins>>
  BY DEF SaveTaken, server, save_account_key, clear_pending_approval, SetWait
<1>3. /\ stored' \in [Devices -> Stored \cup {None}] /\ stored'[d] # None
      /\ stored'[d].key = w.key /\ stored'[d].id = w.id
      /\ \A e \in Devices \ {d} : stored'[e] = stored[e]
  BY <1>1, <1>2, KeysAssumption DEF Types, Stored
<1>4. /\ wait' \in [Devices -> WaitRec] /\ wait'[d] = Off /\ wait'[d].stage = "off"
      /\ \A e \in Devices \ {d} : wait'[e] = wait[e]
  BY <1>2 DEF Types, WaitRec, Off
<1>5. Types'
  BY <1>1, <1>2, <1>3, <1>4 DEF Types
<1>6. KeyInv'
  BY <1>1, <1>2, <1>3, <1>4 DEF KeyInv, Sound, Types
<1>7. PICK own \in [Nat -> Devices \cup {None}] : OwnedBy(own)
  BY DEF OwnInv
<1>8. own[w.request] = d
  BY <1>1, <1>7, KeysAssumption DEF OwnedBy
<1>9. Settled(d)' /\ \A e : Settled(e) => Settled(e)'
  BY <1>1, <1>2, <1>3, <1>4 DEF Settled, Types
<1>10. OwnedBy(own)'
  BY <1>2, <1>4, <1>7, <1>8, <1>9 DEF OwnedBy, Types
<1> QED
  BY <1>5, <1>6, <1>7, <1>10 DEF OwnInv

\* A new request belongs to the device that makes it, which has not settled.
LEMMA RegisterKeeps ==
    ASSUME KeysInv, NEW d \in Devices, put_approval(d)
    PROVE  KeysInv'
<1> USE DEF KeysInv
<1>0. PICK n \in Nat : n = requests + 1
  BY DEF Types
<1> DEFINE req == [public |-> n, live |-> TRUE, wrapped |-> None]
           keep == [stage |-> "keep", token |-> wait[d].token, request |-> n]
<1>1. /\ wait[d].stage = "register" /\ wait[d].token \in Nat /\ ~Settled(d)
  <2>1. wait[d].stage = "register" /\ wait[d] \in WaitRec
    BY DEF put_approval, Types
  <2> QED
    BY <2>1, WaitForms DEF Settled
<1>2. /\ approval' = [approval EXCEPT ![d] = req] /\ wait' = [wait EXCEPT ![d] = keep]
      /\ requests' = n
      /\ UNCHANGED <<account, session, wraps, stored, secret, pending, cmd, made, signins, collected>>
  BY <1>0 DEF put_approval, register, new_approval_request, SetWait, client
<1>3. /\ wait' \in [Devices -> WaitRec] /\ wait'[d].stage = "keep" /\ wait'[d].request = n
      /\ \A e \in Devices \ {d} : wait'[e] = wait[e]
  BY <1>1, <1>2 DEF Types, WaitRec
<1>4. /\ approval' \in [Devices -> Approval \cup {None}]
      /\ approval'[d].public = n /\ approval'[d].wrapped = None
      /\ \A e \in Devices \ {d} : approval'[e] = approval[e]
  BY <1>1, <1>2 DEF Types, Approval
<1>5. Types'
  BY <1>1, <1>2, <1>3, <1>4 DEF Types
<1>6. KeyInv'
  BY <1>2, <1>3, <1>4 DEF KeyInv, Sound
<1>7. PICK own \in [Nat -> Devices \cup {None}] : OwnedBy(own)
  BY DEF OwnInv
<1>8. PICK own2 \in [Nat -> Devices \cup {None}] :
        /\ own2[n] = d
        /\ \A k \in Nat : own[k] # None => own2[k] = own[k]
        /\ \A k \in Nat : k > n => own2[k] = None
  <2> DEFINE o == [own EXCEPT ![n] = d]
  <2>1. /\ o \in [Nat -> Devices \cup {None}] /\ o[n] = d
        /\ \A k \in Nat \ {n} : o[k] = own[k]
    OBVIOUS
  <2>2. own[n] = None /\ \A k \in Nat : k > n => own[k] = None
    BY <1>0, <1>7 DEF OwnedBy, Types
  <2> HIDE DEF o
  <2> QED
    BY <2>1, <2>2
<1> HIDE DEF keep, req
<1>9. \A e : Settled(e) => Settled(e)'
  BY <1>1, <1>2, <1>3, <1>4 DEF Settled
<1>10. OwnedBy(own2)'
  <2>1. \A k \in Nat : own[k] \in Devices => own2[k] = own[k]
    BY <1>8, KeysAssumption
  <2>2. (\A e \in Devices : approval[e] # None =>
          /\ own2[approval[e].public] = e
          /\ approval[e].wrapped # None => own2[approval[e].wrapped.under[1]] = e)'
    <3>1. ASSUME NEW e \in Devices \ {d}, approval[e] # None
          PROVE  /\ own2[approval[e].public] = e
                 /\ approval[e].wrapped # None => own2[approval[e].wrapped.under[1]] = e
      <4>1. /\ approval[e].public \in Nat
            /\ approval[e].wrapped # None => approval[e].wrapped.under[1] \in Nat
        BY <3>1 DEF Types, Approval, Blob
      <4> QED
        BY <1>7, <2>1, <3>1, <4>1 DEF OwnedBy
    <3> QED
      BY <1>4, <1>8, <3>1
  <2>3. /\ \A e \in Devices : pending'[e] # None => own2[pending'[e]] = e
        /\ \A e \in Devices : secret'[e] # None => own2[secret'[e]] = e
    BY <1>2, <1>7, <2>1 DEF OwnedBy, Types
  <2>4. \A e \in Devices :
          wait'[e].stage \in {"poll", "take", "keep", "clear", "save"} /\ wait'[e].request # None =>
             own2[wait'[e].request] = e
    <3>1. ASSUME NEW e \in Devices, wait[e].stage \in {"poll", "take", "keep", "clear", "save"},
                 wait[e].request # None
          PROVE  own2[wait[e].request] = e
      <4>1. wait[e].request \in Nat
        BY <3>1, WaitForms DEF Types
      <4> QED
        BY <1>7, <2>1, <3>1, <4>1 DEF OwnedBy
    <3> QED
      BY <1>3, <1>8, <3>1
  <2>5. \A e \in Devices : cmd'[e].stage = "post" => own2[cmd'[e].blob.under[1]] = cmd'[e].device
    <3>1. ASSUME NEW e \in Devices, cmd[e].stage = "post"
          PROVE  own2[cmd[e].blob.under[1]] = cmd[e].device
      <4>1. cmd[e].blob.under[1] \in Nat /\ cmd[e].device \in Devices
        BY <3>1, CmdForms DEF Types, Blob
      <4> QED
        BY <1>7, <2>1, <3>1, <4>1 DEF OwnedBy
    <3> QED
      BY <1>2, <3>1
  <2>6. (\A r \in collected : Settled(own2[r]))'
    <3>1. \A r \in collected : Settled(own[r]) /\ own2[r] = own[r]
      BY <1>7, <2>1 DEF OwnedBy, Settled, Types
    <3> QED
      BY <1>2, <1>9, <3>1
  <2>7. \A k \in Nat : k > requests' => own2[k] = None
    BY <1>2, <1>8
  <2> QED
    BY <2>2, <2>3, <2>4, <2>5, <2>6, <2>7 DEF OwnedBy
<1> QED
  BY <1>5, <1>6, <1>8, <1>10 DEF OwnInv

\* Every step keeps the invariant.
LEMMA NextKeeps == KeysInv /\ [Next]_vars => KeysInv'
<1> SUFFICES ASSUME KeysInv, [Next]_vars PROVE KeysInv'
  OBVIOUS
<1>1. ASSUME NEW d \in Devices,
             \/ Login(d) \/ sign_out(d) \/ RunOut(d) \/ \E a \in Devices : Revoke(a, d)
      PROVE  KeysInv'
  BY <1>1, SessionsKeep
<1>2. ASSUME NEW d \in Devices, set_passphrase(d) \/ unlock_account_new(d) PROVE KeysInv'
  BY <1>2, SetKeysKeeps DEF set_passphrase, unlock_account_new
<1>3. ASSUME NEW d \in Devices,
             \/ Answered(d) \/ unlock(d) \/ unlock_inner(d) \/ auth_unlock(d)
             \/ change_passphrase(d) \/ auth_change_passphrase(d) \/ run_passphrase(d)
      PROVE  KeysInv'
  BY <1>3, CommandsKeep DEF unlock_inner, auth_unlock, change_passphrase, auth_change_passphrase,
                            run_passphrase
<1>4. ASSUME NEW d \in Devices, unlock_account(d) \/ abandon_approval(d) PROVE KeysInv'
  BY <1>4, UnlockAccountKeeps, AbandonKeeps
<1>5. ASSUME NEW d \in Devices, FinishChange(d) \/ WrapVault(d) \/ approve_device(d) PROVE KeysInv'
  BY <1>5, ChangeKeeps, WrapKeeps, PostKeeps
<1>6. ASSUME NEW d \in Devices, WaitStep(d) \/ StopWaiting(d) \/ Fail(d) PROVE KeysInv'
  BY <1>6, WaitingKeeps, WaitKeeps, SaveTakenKeeps, RegisterKeeps
     DEF WaitStep, register_approval, auth_register_approval
<1>7. ASSUME NEW d \in Devices, NEW a \in Devices,
             approve_device_inner(a, d) \/ auth_approve_device(a, d) \/ approve_device_cli(a, d)
      PROVE  KeysInv'
  BY <1>7, ApproverKeeps DEF approve_device_inner, auth_approve_device, approve_device_cli
<1>8. CASE expire_approvals
  <2>1. \E d \in Devices : TRUE
    BY <1>8 DEF expire_approvals
  <2> QED
    BY <1>8, <2>1, SessionsKeep
<1>9. CASE UNCHANGED vars
  <2>1. Types'
    BY <1>9 DEF vars, KeysInv, Types
  <2> QED
    BY <1>9, <2>1, RequestsGo DEF vars
<1> QED
  BY <1>1, <1>2, <1>3, <1>4, <1>5, <1>6, <1>7, <1>8, <1>9 DEF Next

\* The invariant holds throughout.
LEMMA Invariant == Spec => []KeysInv
BY Initial, NextKeeps, PTL DEF Spec

-----------------------------------------------------------------------------

\* Whichever devices set the passphrase at once, change it, lose an answer or
\* relay a key, no keychain ever holds a key other than the account's under
\* the account's key_id (keys::set, set_passphrase, unlock, take_approved_key).
THEOREM StoredKeys == Spec => []StoredKeyIsTheAccounts
<1>1. KeysInv => StoredKeyIsTheAccounts
  <2> SUFFICES ASSUME KeysInv, NEW d \in Devices, stored[d] # None
               PROVE  /\ account # None /\ stored[d].id = account.id
                      /\ account_verifier(stored[d].key) = account.verifier
    BY DEF StoredKeyIsTheAccounts
  <2>1. Sound(stored[d].key, stored[d].id) /\ account \in Account
    BY DEF KeysInv, KeyInv, Sound, Types
  <2> QED
    BY <2>1 DEF Sound, account_verifier, Account
<1> QED
  BY <1>1, Invariant, PTL

\* Any passphrase that opens the account's blob opens every vault that was
\* ever wrapped, through every change of the passphrase (keys::rewrap asks for
\* the verifier, wrap_vault_key takes the stored key).
THEOREM VaultsOpen == Spec => []VaultsStayOpen
<1>1. KeysInv => VaultsStayOpen
  <2> SUFFICES ASSUME KeysInv, NEW w \in wraps, NEW p \in Passphrases,
                      unlock_account_key(p, account.wrapped) # None
               PROVE  unwrap_vault_key(unlock_account_key(p, account.wrapped), w) # None
    BY DEF VaultsStayOpen
  <2>1. unlock_account_key(p, account.wrapped) = account.wrapped.key
    BY Opens DEF unlock_account_key
  <2>2. /\ account # None /\ w.under = account.verifier.verifies
        /\ account.wrapped.key = account.verifier.verifies /\ w.key \in Devices
    BY DEF KeysInv, KeyInv, Types
  <2> QED
    BY <2>1, <2>2, KeysAssumption DEF unwrap_vault_key, unwrap_key
<1> QED
  BY <1>1, Invariant, PTL

\* A key that was collected is not on the server any more, however many
\* approvers answered and whatever request they answered: a device that has
\* its key makes no further request (take_approved_key, unlock_account).
THEOREM CollectedGone == Spec => []CollectedBlobGone
<1>1. KeysInv => CollectedBlobGone
  <2> SUFFICES ASSUME KeysInv, NEW d \in Devices, approval[d] # None, approval[d].wrapped # None,
                      approval[d].wrapped.under[1] \in collected
               PROVE  FALSE
    BY DEF CollectedBlobGone
  <2>1. PICK own \in [Nat -> Devices \cup {None}] : OwnedBy(own)
    BY DEF KeysInv, OwnInv
  <2>2. own[approval[d].wrapped.under[1]] = d
    BY <2>1 DEF OwnedBy
  <2>3. Settled(d)
    BY <2>1, <2>2 DEF OwnedBy
  <2> QED
    BY <2>3 DEF Settled
<1> QED
  BY <1>1, Invariant, PTL
=============================================================================
