------------------------------- MODULE SignIn -------------------------------
(***************************************************************************)
(* Accounts, one-time codes, invites, devices and sessions: what the       *)
(* server's auth handlers do in their transactions and what a client keeps *)
(* of the answer (server/src/auth, core/src/auth.rs, the hosts).           *)
(*                                                                         *)
(* Malformed input (normalize_email, parse_code, well_formed) is refused   *)
(* before any state is touched and is left out. A code or a token is a     *)
(* number that is never minted twice.                                      *)
(***************************************************************************)
EXTENDS Naturals, FiniteSets

CONSTANTS
    None,
    Emails,
    Founder,                   \* an address nobody signs in with
    Devices,
    Platform,                  \* the host program of each device
    Invites,                   \* the invite codes that can be minted
    OTP_TTL_SECS, OTP_RESEND_COOLDOWN_SECS, OTP_MAX_ATTEMPTS,
    EMAIL_CODE_RETENTION_SECS, INVITE_TTL_SECS, SESSION_TTL_SECS,
    REDEEM_WINDOW, REDEEM_MAX_FAILURES,
    MaxCodes, MaxUsers, MaxTokens, MaxTime      \* bounds

ASSUME SignInAssumption ==
    /\ Platform \in [Devices -> {"cli", "desktop"}]
    /\ None \notin Nat \cup Invites
    /\ OTP_MAX_ATTEMPTS \in Nat \ {0}
    /\ {OTP_TTL_SECS, INVITE_TTL_SECS, SESSION_TTL_SECS, MaxCodes} \subseteq Nat
    /\ OTP_RESEND_COOLDOWN_SECS =< OTP_TTL_SECS

VARIABLES
    clock,
    users,       \* rows of users
    codes,       \* rows of email_codes
    invites,     \* rows of invites
    issued,      \* the invite codes handed out so far
    devices,     \* rows of devices, as <<user, device>>
    sessions,    \* rows of sessions
    limiter,     \* the RedeemLimiter of this server process
    tx,          \* the verify request of each device
    sending,     \* the /auth/email/start requests under way
    known,       \* the codes that reached the owner of an address
    bearer,      \* the token in each device's keychain
    calls,       \* a bearer call each device waits for
    minted,      \* codes and tokens handed out so far
    tokens,
    ids,
    guesses,     \* ghost: wrong codes compared with each code
    uses,        \* ghost: sign-ins with each code
    created      \* ghost: every account ever made and the invite it spent

vars == <<clock, users, codes, invites, issued, devices, sessions, limiter, tx, sending,
          known, bearer, calls, minted, tokens, ids, guesses, uses, created>>

server == <<users, invites, issued, devices, sessions, limiter, ids, tokens, uses, created>>
client == <<known, bearer, calls>>

Code == 1..MaxCodes
Operator == 0                              \* created_by IS NULL
Idle == [stage |-> "idle"]
NoLimit == [start |-> 0, count |-> 0]

Init ==
    /\ clock = 0
    /\ users \in {{}, {[id |-> 1, email |-> Founder]}}   \* a new server, or one in use
    /\ codes = [e \in Emails |-> None]
    /\ invites = [i \in Invites |-> None]
    /\ issued = {}
    /\ devices = {}
    /\ sessions = {}
    /\ limiter = NoLimit
    /\ tx = [d \in Devices |-> Idle]
    /\ sending = {}
    /\ known = [e \in Emails |-> {}]
    /\ bearer = [d \in Devices |-> None]
    /\ calls = [d \in Devices |-> None]
    /\ minted = 0
    /\ tokens = 0
    /\ ids = Cardinality(users)
    /\ guesses = [c \in Code |-> 0]
    /\ uses = [c \in Code |-> 0]
    /\ created = {[user |-> u.id, invite |-> None] : u \in users}

-----------------------------------------------------------------------------
(* Codes. check_code takes the row FOR UPDATE and keeps it until its       *)
(* transaction ends; every other statement on the row waits.               *)

Holding(d) == tx[d].stage \in {"checked", "authorized"}
RowLocked(e) == \E d \in Devices : Holding(d) /\ tx[d].email = e

\* start, up to the mail: the cooldown is read outside any transaction and the
\* mail goes out before the code is stored. A mail that fails changes nothing.
start(e) ==
    /\ minted < MaxCodes
    /\ codes[e] # None => clock - codes[e].last_sent >= OTP_RESEND_COOLDOWN_SECS
    /\ minted' = minted + 1
    /\ known' = [known EXCEPT ![e] = @ \cup {minted + 1}]
    /\ sending' = sending \cup {[email |-> e, code |-> minted + 1, now |-> clock]}
    /\ UNCHANGED <<clock, codes, tx, bearer, calls, server, guesses>>

store_code(e, c, now) ==
    codes' = [codes EXCEPT ![e] = [code |-> c, expires |-> now + OTP_TTL_SECS,
                                   attempts |-> 0, last_sent |-> now]]

StoreSent(s) ==
    /\ ~RowLocked(s.email)
    /\ store_code(s.email, s.code, s.now)
    /\ sending' = sending \ {s}
    /\ UNCHANGED <<clock, tx, client, minted, server, guesses>>

\* `obsink-server code <email>`: no mail, no cooldown
mint_code(e) ==
    /\ minted < MaxCodes
    /\ ~RowLocked(e)
    /\ minted' = minted + 1
    /\ store_code(e, minted + 1, clock)
    /\ known' = [known EXCEPT ![e] = @ \cup {minted + 1}]
    /\ UNCHANGED <<clock, tx, sending, bearer, calls, server, guesses>>

\* Slip: the strikes are counted by the caller, after the comparison
check_code_Uncounted(e, c, now) ==
    LET row == codes[e]
    IN  CASE row = None -> "expired"
          [] row # None /\ (row.code = None \/ row.expires <= now) -> "expired"
          [] OTHER -> IF row.code # c THEN "incorrect" ELSE "valid"

check_code(e, c, now) ==
    LET row == codes[e]
    IN  CASE row = None -> "expired"
          [] row # None /\ (row.code = None \/ row.expires <= now) -> "expired"
          [] OTHER -> IF row.attempts >= OTP_MAX_ATTEMPTS THEN "voided"
                      ELSE IF row.code # c THEN "incorrect" ELSE "valid"

\* the code row after each verdict, committed also when the code is refused
Struck(row, verdict) ==
    CASE verdict = "voided" -> [row EXCEPT !.code = None]
      [] verdict = "incorrect" -> [row EXCEPT !.attempts = @ + 1]
      [] OTHER -> row

consume_code(e) == [codes EXCEPT ![e].code = None]

-----------------------------------------------------------------------------
(* The verify handler: begun, checked (code row locked), authorized        *)
(* (invite row locked), committed.                                         *)

verify(d, e, c, i) ==
    /\ tx[d].stage = "idle"
    /\ tx' = [tx EXCEPT ![d] = [stage |-> "begun", email |-> e, code |-> c, invite |-> i,
                                now |-> clock]]
    /\ UNCHANGED <<clock, codes, sending, client, minted, server, guesses>>

CheckCode(d) ==
    LET t == tx[d]
        verdict == check_code(t.email, t.code, t.now)
    IN  /\ t.stage = "begun"
        /\ ~RowLocked(t.email)
        /\ codes' = [codes EXCEPT ![t.email] = Struck(@, verdict)]
        /\ guesses' = IF verdict = "incorrect"
                      THEN [guesses EXCEPT ![codes[t.email].code] = @ + 1] ELSE guesses
        /\ tx' = [tx EXCEPT ![d] = IF verdict = "valid" THEN [t EXCEPT !.stage = "checked"]
                                   ELSE Idle]
        /\ UNCHANGED <<clock, sending, client, minted, server>>

find_by_email(e) == {u \in users : u.email = e}
count == Cardinality(users)

\* RedeemLimiter::check
limiter_open(now) ==
    now - limiter.start > REDEEM_WINDOW \/ limiter.count < REDEEM_MAX_FAILURES

record_failure ==
    limiter' = IF limiter.count > 0 /\ clock - limiter.start <= REDEEM_WINDOW
               THEN [limiter EXCEPT !.count = IF @ < REDEEM_MAX_FAILURES THEN @ + 1 ELSE @]
               ELSE [start |-> clock, count |-> 1]

\* Slip: only used_by makes a code spent, and it is nulled with its account
usable_AfterDeletion(i, now) ==
    invites[i] # None /\ invites[i].used_by = None /\ invites[i].expires > now

usable(i, now) ==
    /\ invites[i] # None
    /\ invites[i].used_by = None
    /\ invites[i].used_at = None
    /\ invites[i].expires > now

InviteLocked(i) == \E d \in Devices : tx[d].stage = "authorized" /\ tx[d].invite = i

\* account::sign_in up to invites::authorize_signup. The count is read under
\* READ COMMITTED with no lock. A refusal rolls the transaction back.
authorize_signup(d) ==
    LET t == tx[d]
        found == find_by_email(t.email)
        pass(user, i) == tx' = [tx EXCEPT ![d] = [stage |-> "authorized", email |-> t.email,
                              code |-> t.code, invite |-> i, now |-> t.now, user |-> user]]
        refuse == tx' = [tx EXCEPT ![d] = Idle]
    IN  /\ t.stage = "checked"
        /\ \/ /\ found # {}
              /\ \E u \in found : pass(u.id, None)
              /\ UNCHANGED limiter
           \/ /\ found = {} /\ count = 0
              /\ pass(None, None)
              /\ UNCHANGED limiter
           \/ /\ found = {} /\ count > 0
              /\ t.invite = None \/ ~limiter_open(clock)
              /\ refuse
              /\ UNCHANGED limiter
           \/ /\ found = {} /\ count > 0 /\ t.invite # None /\ limiter_open(clock)
              /\ ~InviteLocked(t.invite)
              /\ IF usable(t.invite, t.now)
                 THEN pass(None, t.invite) /\ UNCHANGED limiter
                 ELSE refuse /\ record_failure
        /\ UNCHANGED <<clock, codes, sending, client, minted, users, invites, issued,
                       devices, sessions, ids, tokens, guesses, uses, created>>

insert(id, e) == users' = users \cup {[id |-> id, email |-> e]}

mark_used(i, id, now) ==
    invites' = IF i = None THEN invites
               ELSE [invites EXCEPT ![i].used_by = id, ![i].used_at = now]

\* sessions::create: the device's earlier session goes
create_session(id, d, token, now) ==
    sessions' = {s \in sessions : ~(s.user = id /\ s.device = d)}
        \cup {[token |-> token, user |-> id, device |-> d, expires |-> now + SESSION_TTL_SECS]}

\* the rest of sign_in, consume_code and the commit
sign_in(d) ==
    LET t == tx[d]
        id == IF t.user = None THEN ids + 1 ELSE t.user
        gone == t.user # None /\ \A u \in users : u.id # t.user
    IN  /\ t.stage = "authorized"
        /\ \/ /\ gone                        \* the devices row has no user: rolled back
              /\ tx' = [tx EXCEPT ![d] = Idle]
              /\ UNCHANGED <<codes, server>>
           \/ /\ ~gone
              /\ t.user = None => ids < MaxUsers
              /\ tokens < MaxTokens
              /\ IF t.user = None
                 THEN /\ insert(id, t.email)
                      /\ ids' = ids + 1
                      /\ mark_used(t.invite, id, t.now)
                      /\ created' = created \cup {[user |-> id, invite |-> t.invite]}
                 ELSE UNCHANGED <<users, ids, invites, created>>
              /\ devices' = devices \cup {<<id, d>>}
              /\ create_session(id, d, tokens + 1, t.now)
              /\ tokens' = tokens + 1
              /\ codes' = consume_code(t.email)
              /\ uses' = [uses EXCEPT ![t.code] = @ + 1]
              /\ tx' = [tx EXCEPT ![d] = [stage |-> "answered", token |-> tokens + 1]]
              /\ UNCHANGED <<limiter, issued>>
        /\ UNCHANGED <<clock, sending, client, minted, guesses>>

-----------------------------------------------------------------------------
(* Invites, sign-out, revocation, deletion, retention.                     *)

\* auth::resolve: the user and device behind a token, or nobody
resolve(token) == {s \in sessions : s.token = token /\ s.expires > clock}

create_invite(by) ==
    /\ \E i \in Invites \ issued :
          /\ issued' = issued \cup {i}
          /\ invites' = [invites EXCEPT ![i] = [by |-> by, expires |-> clock + INVITE_TTL_SECS,
                                                used_by |-> None, used_at |-> None]]
    /\ UNCHANGED <<clock, users, codes, devices, sessions, limiter, tx, sending, client,
                   minted, ids, tokens, guesses, uses, created>>

UserInvite(d) == \E s \in resolve(bearer[d]) : create_invite(s.user)

\* Slip: the listing forgets that a code runs out
InviteStatus_UsedOnly(i) == IF invites[i].used_at # None THEN "used" ELSE "active"

\* invites::list
InviteStatus(i) ==
    IF invites[i].used_at # None THEN "used"
    ELSE IF invites[i].expires <= clock THEN "expired" ELSE "active"

\* devices::delete; sessions go by ON DELETE CASCADE
delete_device(user, d) ==
    /\ devices' = devices \ {<<user, d>>}
    /\ sessions' = {s \in sessions : ~(s.user = user /\ s.device = d)}

\* the client forgets its bearer whether or not the request arrived
sign_out(d) ==
    /\ bearer[d] # None /\ tx[d].stage = "idle"
    /\ \/ \E s \in resolve(bearer[d]) : delete_device(s.user, s.device)
       \/ UNCHANGED <<devices, sessions>>
    /\ bearer' = [bearer EXCEPT ![d] = None]
    /\ UNCHANGED <<clock, users, codes, invites, issued, limiter, tx, sending, known, calls, minted,
                   ids, tokens, guesses, uses, created>>

revoke_device(d, other) ==
    /\ \E s \in resolve(bearer[d]) :
          /\ <<s.user, other>> \in devices
          /\ delete_device(s.user, other)
    /\ UNCHANGED <<clock, users, codes, invites, issued, limiter, tx, sending, client, minted,
                   ids, tokens, guesses, uses, created>>

\* invites.created_by cascades, invites.used_by is set to NULL
delete_account(d) ==
    /\ \E s \in resolve(bearer[d]) :
          /\ \A i \in Invites :
                invites[i] # None /\ s.user \in {invites[i].by, invites[i].used_by} => ~InviteLocked(i)
          /\ users' = {u \in users : u.id # s.user}
          /\ devices' = {r \in devices : r[1] # s.user}
          /\ sessions' = {r \in sessions : r.user # s.user}
          /\ invites' = [i \in Invites |->
                IF invites[i] = None \/ invites[i].by = s.user THEN None
                ELSE IF invites[i].used_by = s.user THEN [invites[i] EXCEPT !.used_by = None]
                ELSE invites[i]]
    /\ bearer' = [bearer EXCEPT ![d] = None]
    /\ UNCHANGED <<clock, codes, issued, limiter, tx, sending, known, calls, minted, ids, tokens,
                   guesses, uses, created>>

\* retention::run_once, the sessions and the codes
expire_rows ==
    /\ sessions' = {s \in sessions : s.expires > clock}
    /\ codes' = [e \in Emails |->
          IF codes[e] # None /\ codes[e].last_sent + EMAIL_CODE_RETENTION_SECS < clock
          THEN None ELSE codes[e]]
    /\ \A e \in Emails : codes'[e] # codes[e] => ~RowLocked(e)
    /\ <<sessions, codes>>' # <<sessions, codes>>
    /\ UNCHANGED <<clock, users, invites, issued, devices, limiter, tx, sending, client, minted,
                   ids, tokens, guesses, uses, created>>

-----------------------------------------------------------------------------
(* Clients. A device runs one sign-in at a time and keeps one bearer.      *)

\* a code the owner of the address was given, or a mistyped one (0)
Typed(e) == known[e] \cup {0}

email_verify(d) ==
    \E e \in Emails, i \in Invites \cup {None} : \E c \in Typed(e) : verify(d, e, c, i)

\* the answer arrives and the token is saved, or it is lost
SaveSession(d) ==
    /\ tx[d].stage = "answered"
    /\ bearer' \in {bearer, [bearer EXCEPT ![d] = tx[d].token]}
    /\ tx' = [tx EXCEPT ![d] = Idle]
    /\ UNCHANGED <<clock, codes, sending, known, calls, minted, server, guesses>>

\* obsink login: the bearer and the user id go into the keychain
run_login(d) == Platform[d] = "cli" /\ SaveSession(d)

\* the desktop's auth_email_verify
auth_email_verify(d) == Platform[d] = "desktop" /\ SaveSession(d)

\* any other request with the bearer that is in the keychain when it is sent
bearer_call(d) ==
    /\ Platform[d] = "desktop"
    /\ calls[d] = None /\ bearer[d] # None
    /\ calls' = [calls EXCEPT ![d] = bearer[d]]
    /\ UNCHANGED <<clock, codes, tx, sending, known, bearer, minted, server, guesses>>

\* a 401 makes the host forget the bearer it finds in the keychain
forget_bearer_on_401(d) ==
    /\ calls[d] # None
    /\ calls' = [calls EXCEPT ![d] = None]
    /\ \/ UNCHANGED bearer
       \/ /\ resolve(calls[d]) = {}
          /\ bearer' = [bearer EXCEPT ![d] = None]
    /\ UNCHANGED <<clock, codes, tx, sending, known, minted, server, guesses>>

Tick ==
    /\ clock < MaxTime
    /\ clock' = clock + 1
    /\ UNCHANGED <<codes, tx, sending, client, minted, server, guesses>>

Next ==
    \/ \E e \in Emails : start(e) \/ mint_code(e)
    \/ \E s \in sending : StoreSent(s)
    \/ \E d \in Devices :
          \/ email_verify(d) \/ CheckCode(d) \/ authorize_signup(d) \/ sign_in(d)
          \/ run_login(d) \/ auth_email_verify(d)
          \/ sign_out(d) \/ delete_account(d) \/ UserInvite(d)
          \/ bearer_call(d) \/ forget_bearer_on_401(d)
          \/ \E other \in Devices : revoke_device(d, other)
    \/ create_invite(Operator)
    \/ expire_rows
    \/ Tick

Spec == Init /\ [][Next]_vars

-----------------------------------------------------------------------------
(* Properties.                                                             *)

\* A one-time code signs in at most once and is compared with at most five
\* wrong codes, however its requests overlap (email.rs: check_code holds the
\* row until the transaction ends, consume_code runs in the same one).
CodeBudget ==
    \A c \in Code : uses[c] =< 1 /\ guesses[c] =< OTP_MAX_ATTEMPTS

\* An invite makes one account, ever: two sign-ups that race for it, and a
\* redeemer who deletes the account again, included (authorize_signup takes
\* the row FOR UPDATE; used_at survives what nulls used_by).
InviteMakesOneAccount ==
    \A a, b \in created : a.invite # None /\ a.invite = b.invite => a = b

\* What the listing calls active can be redeemed and nothing else can
\* (invites::list reads used_at and expires, authorize_signup used_by too).
InviteListingHonest ==
    \A i \in Invites : invites[i] # None =>
        (InviteStatus(i) = "active" <=> usable(i, clock))
=============================================================================
