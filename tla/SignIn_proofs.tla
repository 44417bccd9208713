---------------------------- MODULE SignIn_proofs ----------------------------
(***************************************************************************)
(* Proofs about one-time codes and invites, for every number of addresses, *)
(* devices, codes and invites and every setting of the times. What makes   *)
(* the checked properties inductive is where a code or an invite may still *)
(* be (in a request to be stored, in a row, in the hands of the one        *)
(* transaction that has the row locked) and that a spent one is nowhere.   *)
(***************************************************************************)
EXTENDS SignIn, FiniteSetTheorems, TLAPS

CodeRow == [code : Nat \cup {None}, expires : Nat, attempts : Nat, last_sent : Nat]
InviteRow == [by : Nat, expires : Nat, used_by : Nat \cup {None}, used_at : Nat \cup {None}]
Session == [token : Nat, user : Nat, device : Devices, expires : Nat]

Asked == [stage : {"begun", "checked"}, email : Emails, code : Nat,
          invite : Invites \cup {None}, now : Nat]
Authorized == [stage : {"authorized"}, email : Emails, code : Nat,
               invite : Invites \cup {None}, now : Nat, user : Nat \cup {None}]
Tx == [stage : {"idle"}] \cup Asked \cup Authorized \cup [stage : {"answered"}, token : Nat]

Types ==
    /\ clock \in Nat /\ minted \in Nat /\ tokens \in Nat /\ ids \in Nat
    /\ users \subseteq [id : Nat, email : Emails \cup {Founder}]
    /\ codes \in [Emails -> CodeRow \cup {None}]
    /\ invites \in [Invites -> InviteRow \cup {None}]
    /\ sessions \subseteq Session
    /\ tx \in [Devices -> Tx]
    /\ sending \subseteq [email : Emails, code : Nat, now : Nat]
    /\ known \in [Emails -> SUBSET Nat]
    /\ guesses \in [Code -> Nat] /\ uses \in [Code -> Nat]
    /\ created \subseteq [user : Nat, invite : Invites \cup {None}]

\* a row with a code that was not consumed or voided
LiveCode(e) == codes[e] # None /\ codes[e].code # None

\* a code is in one place: about to be stored, or in one row
CodesOnce ==
    /\ minted =< MaxCodes
    /\ \A e \in Emails : LiveCode(e) => codes[e].code \in 1..minted
    /\ \A s \in sending : s.code \in 1..minted
    /\ \A e, f \in Emails :
          LiveCode(e) /\ LiveCode(f) /\ codes[e].code = codes[f].code => e = f
    /\ \A s, t \in sending : s.code = t.code => s = t
    /\ \A s \in sending, e \in Emails : LiveCode(e) => codes[e].code # s.code

\* FOR UPDATE: a transaction past the check has its row to itself, and the
\* row still has the code that was checked
HeldRows ==
    /\ \A d \in Devices : Holding(d) =>
          LiveCode(tx[d].email) /\ codes[tx[d].email].code = tx[d].code
    /\ \A d, e \in Devices : Holding(d) /\ Holding(e) /\ tx[d].email = tx[e].email => d = e

\* a code that may still be stored or checked is unspent, and its row has
\* counted every wrong guess
Unspent ==
    /\ \A c \in Code : c > minted => uses[c] = 0 /\ guesses[c] = 0
    /\ \A s \in sending : uses[s.code] = 0 /\ guesses[s.code] = 0
    /\ \A e \in Emails : LiveCode(e) =>
          uses[codes[e].code] = 0 /\ guesses[codes[e].code] = codes[e].attempts

CodeInv == CodesOnce /\ HeldRows /\ Unspent /\ CodeBudget

\* used_at and used_by are written together; an unused row and a code that
\* was never handed out have made no account; the row an authorized sign-up
\* has locked is unused and locked by nobody else
InviteInv ==
    /\ \A i \in Invites : invites[i] # None /\ invites[i].used_at = None =>
          /\ invites[i].used_by = None
          /\ \A a \in created : a.invite # i
    /\ \A i \in Invites \ issued : invites[i] = None /\ \A a \in created : a.invite # i
    /\ \A d \in Devices : tx[d].stage = "authorized" /\ tx[d].invite # None =>
          invites[tx[d].invite] # None /\ invites[tx[d].invite].used_at = None
    /\ \A d, e \in Devices :
          /\ tx[d].stage = "authorized" /\ tx[e].stage = "authorized"
          /\ tx[d].invite # None /\ tx[d].invite = tx[e].invite
          => d = e
    /\ InviteMakesOneAccount

SignInInv == Types /\ CodeInv /\ InviteInv

-----------------------------------------------------------------------------

\* The invariant holds at the start, on a new server and on one in use.
LEMMA Initial == Init => SignInInv
<1> SUFFICES ASSUME Init PROVE SignInInv
  OBVIOUS
<1>1. ids \in Nat
  <2>1. users = {} \/ users = {[id |-> 1, email |-> Founder]}
    BY DEF Init
  <2>2. Cardinality(users) \in {0, 1}
    BY <2>1, FS_EmptySet, FS_Singleton
  <2> QED
    BY <2>2 DEF Init
<1>2. Types
  BY <1>1 DEF Init, Types, Idle, Tx
<1>3. CodeInv
  BY SignInAssumption
     DEF Init, CodeInv, CodesOnce, HeldRows, Unspent, CodeBudget, LiveCode, Holding, Idle, Code
<1>4. InviteInv
  BY SignInAssumption DEF Init, InviteInv, InviteMakesOneAccount, Idle
<1> QED
  BY <1>2, <1>3, <1>4 DEF SignInInv

\* A request by the fields its stage has.
LEMMA TxForms ==
    ASSUME NEW t \in Tx
    PROVE  /\ t.stage \in {"begun", "checked"} => t \in Asked
           /\ t.stage = "authorized" => t \in Authorized
           /\ t.stage = "answered" => t.token \in Nat
BY DEF Tx, Asked, Authorized

\* The types of a code row after a verdict, and what a verdict does to it.
LEMMA StruckRow ==
    ASSUME NEW row \in CodeRow \cup {None}, NEW verdict,
           verdict \in {"voided", "incorrect"} => row # None
    PROVE  /\ Struck(row, verdict) \in CodeRow \cup {None}
           /\ verdict \notin {"voided", "incorrect"} => Struck(row, verdict) = row
           /\ verdict = "voided" => Struck(row, verdict).code = None
           /\ verdict = "incorrect" =>
                 /\ Struck(row, verdict).code = row.code
                 /\ Struck(row, verdict).attempts = row.attempts + 1
BY DEF Struck, CodeRow

\* What each verdict of check_code says of the row.
LEMMA Verdicts ==
    ASSUME NEW e, NEW c, NEW now
    PROVE  LET row == codes[e]
               verdict == check_code(e, c, now)
           IN  /\ verdict \in {"expired", "voided", "incorrect", "valid"}
               /\ verdict # "expired" => row # None /\ row.code # None
               /\ verdict = "incorrect" => ~(row.attempts >= OTP_MAX_ATTEMPTS)
               /\ verdict = "valid" => row.code = c
BY DEF check_code

\* Every step keeps the types.
LEMMA TypesKeep ==
    ASSUME SignInInv, Next
    PROVE  Types'
<1> USE DEF SignInInv
<1>1. ASSUME NEW e \in Emails, start(e) \/ mint_code(e) PROVE Types'
  BY <1>1, SignInAssumption DEF start, mint_code, store_code, client, server, Types, CodeRow
<1>2. ASSUME NEW s \in sending, StoreSent(s) PROVE Types'
  BY <1>2, SignInAssumption DEF StoreSent, store_code, client, server, Types, CodeRow
<1>3. ASSUME NEW d \in Devices, email_verify(d) PROVE Types'
  BY <1>3 DEF email_verify, verify, Typed, client, server, Types, Tx, Asked
<1>4. ASSUME NEW d \in Devices, CheckCode(d) PROVE Types'
  <2> DEFINE t == tx[d]
             verdict == check_code(t.email, t.code, t.now)
  <2>1. t.stage = "begun" /\ t \in Asked
    BY <1>4, TxForms DEF CheckCode, Types
  <2>2. codes' \in [Emails -> CodeRow \cup {None}]
    <3>1. Struck(codes[t.email], verdict) \in CodeRow \cup {None}
      BY <2>1, StruckRow, Verdicts DEF Types, Asked
    <3> QED
      BY <1>4, <3>1 DEF CheckCode, Types
  <2>3. tx' \in [Devices -> Tx]
    <3>1. [t EXCEPT !.stage = "checked"] \in Tx /\ Idle \in Tx
      BY <2>1 DEF Asked, Tx, Idle
    <3> QED
      BY <1>4, <3>1 DEF CheckCode, Types
  <2>4. guesses' \in [Code -> Nat]
    <3>1. verdict = "incorrect" => codes[t.email].code \in Code
      <4>1. SUFFICES ASSUME verdict = "incorrect" PROVE codes[t.email].code \in Code
        OBVIOUS
      <4>2. LiveCode(t.email) /\ t.email \in Emails
        BY <2>1, <4>1, Verdicts DEF LiveCode, Asked
      <4> QED
        BY <4>2, SignInAssumption DEF CodeInv, CodesOnce, Types, Code
    <3> QED
      BY <1>4, <3>1 DEF CheckCode, Types
  <2> QED
    BY <1>4, <2>2, <2>3, <2>4 DEF CheckCode, client, server, Types
<1>5. ASSUME NEW d \in Devices, authorize_signup(d) PROVE Types'
  <2>1. tx[d].stage = "checked" /\ tx[d] \in Asked
    BY <1>5, TxForms DEF authorize_signup, Types
  <2>2. tx' \in [Devices -> Tx]
    BY <1>5, <2>1 DEF authorize_signup, find_by_email, Types, Asked, Authorized, Tx, Idle
  <2> QED
    BY <1>5, <2>2 DEF authorize_signup, client, Types
<1>6. ASSUME NEW d \in Devices, sign_in(d) PROVE Types'
  <2> DEFINE t == tx[d]
             id == IF t.user = None THEN ids + 1 ELSE t.user
  <2>1. t.stage = "authorized" /\ t \in Authorized
    BY <1>6, TxForms DEF sign_in, Types
  <2>2. LiveCode(t.email) /\ codes[t.email].code = t.code /\ t.email \in Emails
    BY <2>1 DEF CodeInv, HeldRows, Holding, Authorized
  <2>3. t.code \in Code
    BY <2>2, SignInAssumption DEF CodeInv, CodesOnce, Types, Code
  <2>4. id \in Nat
    BY <2>1 DEF Authorized, Types
  <2>5. codes' \in [Emails -> CodeRow \cup {None}]
    BY <1>6, <2>2 DEF sign_in, consume_code, server, LiveCode, Types, CodeRow
  <2>6. tx' \in [Devices -> Tx]
    BY <1>6 DEF sign_in, Types, Tx, Idle
  <2>7. invites' \in [Invites -> InviteRow \cup {None}]
    <3>1. t.invite # None => invites[t.invite] \in InviteRow /\ t.invite \in Invites
      BY <2>1 DEF InviteInv, Types, Authorized
    <3>2. t.now \in Nat
      BY <2>1 DEF Authorized
    <3> HIDE DEF id
    <3>3. \/ invites' = invites
          \/ t.invite # None /\ invites' = [invites EXCEPT ![t.invite].used_by = id,
                                                         ![t.invite].used_at = t.now]
      BY <1>6 DEF sign_in, mark_used, server, id
    <3> QED
      BY <2>4, <3>1, <3>2, <3>3 DEF Types, InviteRow
  <2>8. sessions' \subseteq Session
    <3>1. t.now \in Nat
      BY <2>1 DEF Authorized
    <3> HIDE DEF id
    <3>2. sessions' = sessions \/ create_session(id, d, tokens + 1, t.now)
      BY <1>6 DEF sign_in, server, id
    <3> QED
      BY <2>4, <3>1, <3>2, SignInAssumption DEF create_session, Types, Session
  <2>9. /\ users' \subseteq [id : Nat, email : Emails \cup {Founder}]
        /\ created' \subseteq [user : Nat, invite : Invites \cup {None}]
        /\ ids' \in Nat /\ tokens' \in Nat
    BY <1>6, <2>1 DEF sign_in, insert, server, Types, Authorized
  <2>10. uses' \in [Code -> Nat]
    BY <1>6, <2>3 DEF sign_in, server, Types
  <2> QED
    BY <1>6, <2>5, <2>6, <2>7, <2>8, <2>9, <2>10 DEF sign_in, client, Types
<1>7. ASSUME NEW d \in Devices, SaveSession(d) PROVE Types'
  BY <1>7 DEF SaveSession, server, Types, Tx, Idle
<1>8. ASSUME NEW d \in Devices, NEW other \in Devices, sign_out(d) \/ revoke_device(d, other)
      PROVE  Types'
  BY <1>8 DEF sign_out, revoke_device, delete_device, client, Types
<1>9. ASSUME NEW d \in Devices, delete_account(d) PROVE Types'
  <2>1. PICK s \in sessions :
          invites' = [i \in Invites |->
                IF invites[i] = None \/ invites[i].by = s.user THEN None
                ELSE IF invites[i].used_by = s.user THEN [invites[i] EXCEPT !.used_by = None]
                ELSE invites[i]]
    BY <1>9 DEF delete_account, resolve
  <2>2. invites' \in [Invites -> InviteRow \cup {None}]
    BY <2>1 DEF Types, InviteRow
  <2> QED
    BY <1>9, <2>2 DEF delete_account, Types
<1>10. ASSUME NEW by \in Nat, create_invite(by) PROVE Types'
  BY <1>10, SignInAssumption DEF create_invite, client, Types, InviteRow
<1>11. ASSUME NEW d \in Devices, UserInvite(d) PROVE Types'
  BY <1>11, <1>10 DEF UserInvite, resolve, Types, Session
<1>12. ASSUME NEW d \in Devices, bearer_call(d) \/ forget_bearer_on_401(d) PROVE Types'
  BY <1>12 DEF bearer_call, forget_bearer_on_401, server, Types
<1>13. CASE expire_rows
  BY <1>13 DEF expire_rows, client, Types
<1>14. CASE Tick
  BY <1>14 DEF Tick, client, server, Types
<1> QED
  BY <1>1, <1>2, <1>3, <1>4, <1>5, <1>6, <1>7, <1>8, <1>9, <1>10, <1>11, <1>12, <1>13, <1>14
     DEF Next, run_login, auth_email_verify, Operator

\* A step that leaves the rows, the codes and the ghosts alone and lets no
\* transaction pass the check keeps the invariant of the codes.
LEMMA CodesIdle ==
    ASSUME CodeInv, UNCHANGED <<codes, sending, minted, guesses, uses>>,
           \A d \in Devices : Holding(d)' =>
               Holding(d) /\ tx'[d].email = tx[d].email /\ tx'[d].code = tx[d].code
    PROVE  CodeInv'
BY DEF CodeInv, CodesOnce, HeldRows, Unspent, CodeBudget, LiveCode

\* A new code is in the place it was put and nowhere else.
LEMMA StoreKeeps ==
    ASSUME SignInInv, NEW e \in Emails, NEW c \in 1..minted', NEW now \in Nat,
           ~RowLocked(e), store_code(e, c, now),
           minted' \in Nat, minted =< minted', minted' =< MaxCodes,
           sending' \subseteq sending,
           \A s \in sending' : s.code # c,
           \A f \in Emails : LiveCode(f) => codes[f].code # c,
           uses[c] = 0, guesses[c] = 0,
           UNCHANGED <<tx, uses, guesses>>
    PROVE  CodeInv'
<1> USE DEF SignInInv
<1>1. codes' \in [Emails -> CodeRow \cup {None}] /\ codes'[e].code = c /\ codes'[e].attempts = 0
  BY SignInAssumption DEF store_code, Types, CodeRow
<1>2. \A f \in Emails \ {e} : codes'[f] = codes[f]
  BY DEF store_code, Types
<1>3. CodesOnce'
  BY <1>1, <1>2 DEF CodeInv, CodesOnce, LiveCode, Types
<1>4. HeldRows'
  <2>1. \A d \in Devices : Holding(d) => tx[d].email # e /\ tx[d].email \in Emails
    BY TxForms DEF RowLocked, Holding, Types, Asked, Authorized
  <2> QED
    BY <1>2, <2>1 DEF CodeInv, HeldRows, Holding, LiveCode
<1>5. Unspent'
  <2>1. \A k \in Code : k > minted' => uses'[k] = 0 /\ guesses'[k] = 0
    BY DEF CodeInv, Unspent, Types, Code
  <2>2. \A s \in sending' : uses'[s.code] = 0 /\ guesses'[s.code] = 0
    BY DEF CodeInv, Unspent
  <2>3. \A f \in Emails : LiveCode(f)' =>
           uses'[codes'[f].code] = 0 /\ guesses'[codes'[f].code] = codes'[f].attempts
    BY <1>1, <1>2 DEF CodeInv, Unspent, LiveCode
  <2> QED
    BY <2>1, <2>2, <2>3 DEF Unspent
<1> QED
  BY <1>3, <1>4, <1>5 DEF CodeInv, CodeBudget

\* Every step keeps the invariant of the codes.
LEMMA CodesKeep ==
    ASSUME SignInInv, Next
    PROVE  CodeInv'
<1> USE DEF SignInInv
<1>1. ASSUME NEW e \in Emails, start(e) PROVE CodeInv'
  <2> DEFINE new == [email |-> e, code |-> minted + 1, now |-> clock]
  <2>1. minted' = minted + 1 /\ minted' \in Nat /\ minted' =< MaxCodes /\ minted + 1 \in Code
    BY <1>1, SignInAssumption DEF start, Types, Code
  <2>2. UNCHANGED <<codes, tx, uses, guesses>> /\ sending' = sending \cup {new}
    BY <1>1 DEF start, server
  <2>3. CodesOnce'
    BY <2>1, <2>2 DEF CodeInv, CodesOnce, LiveCode, Types
  <2>4. HeldRows'
    BY <2>2 DEF CodeInv, HeldRows, Holding, LiveCode
  <2>5. Unspent'
    BY <2>1, <2>2 DEF CodeInv, Unspent, LiveCode, Types, Code
  <2> QED
    BY <2>2, <2>3, <2>4, <2>5 DEF CodeInv, CodeBudget
<1>2. ASSUME NEW e \in Emails, mint_code(e) PROVE CodeInv'
  <2>1. minted' = minted + 1 /\ minted' \in Nat /\ minted' =< MaxCodes /\ minted + 1 \in Code
    BY <1>2, SignInAssumption DEF mint_code, Types, Code
  <2>2. /\ \A s \in sending : s.code # minted + 1
        /\ \A f \in Emails : LiveCode(f) => codes[f].code # minted + 1
    BY DEF CodeInv, CodesOnce, Types
  <2>3. uses[minted + 1] = 0 /\ guesses[minted + 1] = 0
    BY <2>1 DEF CodeInv, Unspent, Types
  <2> QED
    BY <1>2, <2>1, <2>2, <2>3, StoreKeeps DEF mint_code, server, Types
<1>3. ASSUME NEW s \in sending, StoreSent(s) PROVE CodeInv'
  <2>1. s.email \in Emails /\ s.now \in Nat /\ s.code \in 1..minted
    BY DEF CodeInv, CodesOnce, Types
  <2>2. /\ sending' = sending \ {s} /\ minted' = minted /\ minted \in Nat /\ minted =< MaxCodes
        /\ ~RowLocked(s.email) /\ store_code(s.email, s.code, s.now)
        /\ UNCHANGED <<tx, uses, guesses>>
    BY <1>3 DEF StoreSent, server, CodeInv, CodesOnce, Types
  <2>3. /\ \A r \in sending' : r.code # s.code
        /\ \A f \in Emails : LiveCode(f) => codes[f].code # s.code
        /\ uses[s.code] = 0 /\ guesses[s.code] = 0
    BY <2>2 DEF CodeInv, CodesOnce, Unspent
  <2> QED
    BY <2>1, <2>2, <2>3, StoreKeeps
<1>4. ASSUME NEW d \in Devices, email_verify(d) PROVE CodeInv'
  BY <1>4, CodesIdle DEF email_verify, verify, server, Types, Holding
<1>5. ASSUME NEW d \in Devices, CheckCode(d) PROVE CodeInv'
  <2> DEFINE t == tx[d]
             verdict == check_code(t.email, t.code, t.now)
  <2>1. t.stage = "begun" /\ t \in Asked /\ ~RowLocked(t.email) /\ t.email \in Emails
    BY <1>5, TxForms DEF CheckCode, Types, Asked
  <2>2. /\ codes' = [codes EXCEPT ![t.email] = Struck(codes[t.email], verdict)]
        /\ tx' = [tx EXCEPT ![d] = IF verdict = "valid" THEN [t EXCEPT !.stage = "checked"] ELSE Idle]
        /\ UNCHANGED <<sending, minted, uses>>
    BY <1>5 DEF CheckCode, server
  <2>3. \A e \in Devices \ {d} : tx'[e] = tx[e]
    BY <2>2 DEF Types
  <2>4. \/ /\ verdict = "valid" /\ tx'[d].stage = "checked"
           /\ tx'[d].email = t.email /\ tx'[d].code = t.code
        \/ verdict # "valid" /\ tx'[d].stage = "idle"
    BY <2>1, <2>2 DEF Types, Idle, Asked
  <2>5. \A f \in Emails \ {t.email} : codes'[f] = codes[f]
    BY <2>2 DEF Types
  <2>6. codes'[t.email] = Struck(codes[t.email], verdict)
    BY <2>1, <2>2 DEF Types
  <2>7. codes[t.email] \in CodeRow \cup {None}
    BY <2>1 DEF Types
  <2> HIDE DEF verdict
  <2>v. /\ verdict \in {"expired", "voided", "incorrect", "valid"}
        /\ verdict # "expired" => LiveCode(t.email)
        /\ verdict = "incorrect" => ~(codes[t.email].attempts >= OTP_MAX_ATTEMPTS)
        /\ verdict = "valid" => codes[t.email].code = t.code
    BY Verdicts DEF verdict, LiveCode
  <2>8. \A e \in Devices : Holding(e) => tx[e].email # t.email /\ tx[e].email \in Emails
    BY <2>1, TxForms DEF RowLocked, Holding, Types, Asked, Authorized
  <2>9. HeldRows'
    <3>1. verdict = "valid" => codes'[t.email] = codes[t.email]
      BY <2>6, <2>7, StruckRow
    <3>2. \A e \in Devices : Holding(e)' => Holding(e) \/ (e = d /\ verdict = "valid")
      BY <2>3, <2>4 DEF Holding
    <3> QED
      BY <2>1, <2>3, <2>4, <2>5, <2>8, <2>v, <3>1, <3>2 DEF CodeInv, HeldRows, Holding, LiveCode
  <2>10. CASE verdict \in {"expired", "valid", "voided"}
    <3>1. codes'[t.email] = codes[t.email] \/ codes'[t.email].code = None
      BY <2>6, <2>7, <2>v, <2>10, StruckRow DEF LiveCode
    <3>2. guesses' = guesses
      BY <1>5, <2>10 DEF CheckCode, verdict
    <3>3. \A f \in Emails : LiveCode(f)' => LiveCode(f) /\ codes'[f] = codes[f]
      BY <2>5, <3>1 DEF LiveCode
    <3>4. CodesOnce' /\ Unspent'
      BY <2>2, <3>2, <3>3 DEF CodeInv, CodesOnce, Unspent
    <3> QED
      BY <2>2, <2>9, <3>2, <3>4 DEF CodeInv, CodeBudget
  <2>11. CASE verdict = "incorrect"
    <3> DEFINE c == codes[t.email].code
    <3>1. c \in 1..minted /\ c \in Code
      BY <2>1, <2>v, <2>11, SignInAssumption DEF CodeInv, CodesOnce, Types, Code
    <3>2. /\ codes'[t.email].code = c
          /\ codes'[t.email].attempts = codes[t.email].attempts + 1
      BY <2>6, <2>7, <2>v, <2>11, StruckRow DEF LiveCode
    <3>3. guesses' = [guesses EXCEPT ![c] = @ + 1]
      BY <1>5, <2>11 DEF CheckCode, verdict
    <3>4. /\ \A f \in Emails : LiveCode(f)' => LiveCode(f) /\ codes'[f].code = codes[f].code
          /\ \A f \in Emails \ {t.email} : LiveCode(f) => codes[f].code # c
      BY <2>1, <2>5, <2>v, <2>11, <3>2 DEF LiveCode, CodeInv, CodesOnce
    <3>5. CodesOnce'
      BY <2>2, <3>4 DEF CodeInv, CodesOnce
    <3>6. guesses[c] = codes[t.email].attempts /\ codes[t.email].attempts \in Nat
      BY <2>1, <2>7, <2>v, <2>11 DEF CodeInv, Unspent, LiveCode, CodeRow
    <3>7. \A s \in sending : s.code # c
      BY <2>1, <2>v, <2>11 DEF CodeInv, CodesOnce
    <3>8. guesses'[c] = guesses[c] + 1 /\ \A k \in Code \ {c} : guesses'[k] = guesses[k]
      BY <3>1, <3>3 DEF Types
    <3>9. Unspent'
      <4>1. \A k \in Code : k > minted' => uses'[k] = 0 /\ guesses'[k] = 0
        BY <2>2, <3>1, <3>8 DEF CodeInv, Unspent, Types, Code
      <4>2. \A s \in sending' : uses'[s.code] = 0 /\ guesses'[s.code] = 0
        BY <2>2, <3>7, <3>8, SignInAssumption DEF CodeInv, CodesOnce, Unspent, Types, Code
      <4>3. \A f \in Emails : LiveCode(f)' =>
               uses'[codes'[f].code] = 0 /\ guesses'[codes'[f].code] = codes'[f].attempts
        <5>1. \A f \in Emails : LiveCode(f) => codes[f].code \in Code
          BY SignInAssumption DEF CodeInv, CodesOnce, Types, Code
        <5> QED
          BY <2>1, <2>2, <2>5, <2>v, <3>2, <3>4, <3>6, <3>8, <5>1 DEF CodeInv, Unspent
      <4> QED
        BY <4>1, <4>2, <4>3 DEF Unspent
    <3>10. CodeBudget'
      BY <2>2, <2>v, <2>11, <3>6, <3>8, SignInAssumption DEF CodeInv, CodeBudget, Types
    <3> QED
      BY <2>9, <3>5, <3>9, <3>10 DEF CodeInv
  <2> QED
    BY <2>v, <2>10, <2>11
<1>6. ASSUME NEW d \in Devices, authorize_signup(d) PROVE CodeInv'
  <2>1. tx[d].stage = "checked" /\ \A e \in Devices \ {d} : tx'[e] = tx[e]
    BY <1>6 DEF authorize_signup, Types
  <2>2. \/ tx'[d].stage = "idle"
        \/ tx'[d].email = tx[d].email /\ tx'[d].code = tx[d].code
    BY <1>6 DEF authorize_signup, Types, Idle
  <2> QED
    BY <1>6, <2>1, <2>2, CodesIdle DEF authorize_signup, Holding
<1>7. ASSUME NEW d \in Devices, sign_in(d) PROVE CodeInv'
  <2> DEFINE t == tx[d]
  <2>1. t.stage = "authorized" /\ t \in Authorized /\ Holding(d) /\ t.email \in Emails
    BY <1>7, TxForms DEF sign_in, Types, Holding, Authorized
  <2>2. LiveCode(t.email) /\ codes[t.email].code = t.code
    BY <2>1 DEF CodeInv, HeldRows
  <2>3. /\ \A e \in Devices \ {d} : tx'[e] = tx[e]
        /\ tx'[d].stage \in {"idle", "answered"}
    BY <1>7 DEF sign_in, Types, Idle
  <2>4. CASE UNCHANGED <<codes, uses>>
    BY <1>7, <2>3, <2>4, CodesIdle DEF sign_in, Holding
  <2>5. CASE codes' = consume_code(t.email) /\ uses' = [uses EXCEPT ![t.code] = @ + 1]
    <3>1. UNCHANGED <<sending, minted, guesses>>
      BY <1>7 DEF sign_in
    <3>2. /\ codes'[t.email].code = None
          /\ \A f \in Emails \ {t.email} : codes'[f] = codes[f]
      BY <2>1, <2>2, <2>5 DEF consume_code, Types, CodeRow, LiveCode
    <3>3. t.code \in Code
      BY <2>1, <2>2, SignInAssumption DEF CodeInv, CodesOnce, Types, Code
    <3>4. uses'[t.code] = uses[t.code] + 1 /\ \A k \in Code \ {t.code} : uses'[k] = uses[k]
      BY <2>5, <3>3 DEF Types
    <3>5. \A f \in Emails : LiveCode(f)' =>
             LiveCode(f) /\ f # t.email /\ codes'[f] = codes[f] /\ codes[f].code # t.code
      BY <2>1, <2>2, <3>2 DEF LiveCode, CodeInv, CodesOnce
    <3>6. CodesOnce'
      BY <3>1, <3>5 DEF CodeInv, CodesOnce
    <3>7. HeldRows'
      <4>1. \A e \in Devices : Holding(e)' => e # d /\ Holding(e) /\ tx[e].email # t.email
        BY <2>1, <2>3 DEF Holding, CodeInv, HeldRows
      <4>2. \A e \in Devices : Holding(e) => tx[e].email \in Emails
        BY TxForms DEF Holding, Types, Asked, Authorized
      <4> QED
        BY <2>3, <3>2, <4>1, <4>2 DEF CodeInv, HeldRows, LiveCode
    <3>8. Unspent'
      <4>1. \A k \in Code : k > minted' => uses'[k] = 0 /\ guesses'[k] = 0
        BY <2>1, <2>2, <3>1, <3>4 DEF CodeInv, CodesOnce, Unspent, Types, Code
      <4>2. \A s \in sending' : uses'[s.code] = 0 /\ guesses'[s.code] = 0
        BY <2>1, <2>2, <3>1, <3>4, SignInAssumption DEF CodeInv, CodesOnce, Unspent, Types, Code
      <4>3. \A f \in Emails : LiveCode(f)' =>
               uses'[codes'[f].code] = 0 /\ guesses'[codes'[f].code] = codes'[f].attempts
        <5>1. \A f \in Emails : LiveCode(f) => codes[f].code \in Code
          BY SignInAssumption DEF CodeInv, CodesOnce, Types, Code
        <5> QED
          BY <3>1, <3>4, <3>5, <5>1 DEF CodeInv, Unspent
      <4> QED
        BY <4>1, <4>2, <4>3 DEF Unspent
    <3>9. CodeBudget'
      BY <2>1, <2>2, <3>1, <3>4 DEF CodeInv, CodeBudget, Unspent, Types
    <3> QED
      BY <3>6, <3>7, <3>8, <3>9 DEF CodeInv
  <2> QED
    BY <1>7, <2>4, <2>5 DEF sign_in, server
<1>8. ASSUME NEW d \in Devices, SaveSession(d) PROVE CodeInv'
  BY <1>8, CodesIdle DEF SaveSession, server, Types, Holding, Idle
<1>9. CASE expire_rows
  <2>1. \A e \in Emails : codes'[e] = codes[e] \/ (codes'[e] = None /\ ~RowLocked(e))
    BY <1>9 DEF expire_rows, Types
  <2>2. UNCHANGED <<tx, sending, minted, guesses, uses>>
    BY <1>9 DEF expire_rows
  <2>3. \A e \in Emails : LiveCode(e)' => LiveCode(e) /\ codes'[e] = codes[e]
    BY <2>1 DEF LiveCode
  <2>4. \A d \in Devices : Holding(d) => tx[d].email \in Emails /\ RowLocked(tx[d].email)
    BY TxForms DEF RowLocked, Holding, Types, Asked, Authorized
  <2>5. HeldRows'
    BY <2>1, <2>2, <2>4 DEF CodeInv, HeldRows, Holding, LiveCode
  <2> QED
    BY <2>2, <2>3, <2>5 DEF CodeInv, CodesOnce, Unspent, CodeBudget
<1>10. CASE UNCHANGED <<codes, sending, minted, guesses, uses, tx>>
  BY <1>10, CodesIdle DEF Holding
<1> QED
  <2>1. ASSUME NEW d \in Devices, NEW other \in Devices,
               \/ sign_out(d) \/ delete_account(d) \/ UserInvite(d) \/ revoke_device(d, other)
               \/ bearer_call(d) \/ forget_bearer_on_401(d)
        PROVE  CodeInv'
    BY <2>1, <1>10 DEF sign_out, delete_account, UserInvite, create_invite, revoke_device,
                       bearer_call, forget_bearer_on_401, server
  <2>2. CASE create_invite(Operator) \/ Tick
    BY <2>2, <1>10 DEF create_invite, Tick, server
  <2> QED
    BY <1>1, <1>2, <1>3, <1>4, <1>5, <1>6, <1>7, <1>8, <1>9, <2>1, <2>2
       DEF Next, run_login, auth_email_verify

\* A step that leaves the invites and the accounts alone and lets no
\* transaction pass the authorization keeps the invariant of the invites.
LEMMA InvitesIdle ==
    ASSUME InviteInv, UNCHANGED <<invites, issued, created>>,
           \A d \in Devices : tx'[d].stage = "authorized" => tx'[d] = tx[d]
    PROVE  InviteInv'
BY DEF InviteInv, InviteMakesOneAccount

\* Every step keeps the invariant of the invites.
LEMMA InvitesKeep ==
    ASSUME SignInInv, Next
    PROVE  InviteInv'
<1> USE DEF SignInInv
<1>1. ASSUME NEW d \in Devices, email_verify(d) \/ SaveSession(d) PROVE InviteInv'
  BY <1>1, InvitesIdle DEF email_verify, verify, SaveSession, server, Types, Idle
<1>2. ASSUME NEW d \in Devices, CheckCode(d) PROVE InviteInv'
  <2>1. tx[d] \in Asked
    BY <1>2, TxForms DEF CheckCode, Types
  <2>2. tx'[d].stage # "authorized" /\ \A e \in Devices \ {d} : tx'[e] = tx[e]
    BY <1>2, <2>1 DEF CheckCode, Types, Idle, Asked
  <2> QED
    BY <1>2, <2>2, InvitesIdle DEF CheckCode, server
<1>3. ASSUME NEW d \in Devices, authorize_signup(d) PROVE InviteInv'
  <2>1. UNCHANGED <<invites, issued, created>> /\ \A e \in Devices \ {d} : tx'[e] = tx[e]
    BY <1>3 DEF authorize_signup, Types
  <2>2. \/ tx'[d].stage = "idle"
        \/ tx'[d].invite = None
        \/ /\ tx'[d].invite = tx[d].invite /\ tx[d].invite # None
           /\ ~InviteLocked(tx[d].invite) /\ usable(tx[d].invite, tx[d].now)
    BY <1>3 DEF authorize_signup, Types, Idle
  <2>3. CASE tx'[d].stage = "idle" \/ tx'[d].invite = None
    BY <2>1, <2>3 DEF InviteInv, InviteMakesOneAccount
  <2>4. CASE /\ tx'[d].invite = tx[d].invite /\ tx[d].invite # None
             /\ ~InviteLocked(tx[d].invite) /\ usable(tx[d].invite, tx[d].now)
    BY <2>1, <2>4 DEF InviteInv, InviteMakesOneAccount, InviteLocked, usable
  <2> QED
    BY <2>2, <2>3, <2>4
<1>4. ASSUME NEW d \in Devices, sign_in(d) PROVE InviteInv'
  <2> DEFINE t == tx[d]
             id == IF t.user = None THEN ids + 1 ELSE t.user
  <2>1. t.stage = "authorized" /\ t.invite \in Invites \cup {None} /\ t.now \in Nat /\ id \in Nat
    BY <1>4, TxForms DEF sign_in, Types, Authorized
  <2>2. /\ \A e \in Devices \ {d} : tx'[e] = tx[e]
        /\ tx'[d].stage # "authorized"
        /\ issued' = issued
    BY <1>4 DEF sign_in, server, Types, Idle
  <2>3. CASE UNCHANGED <<invites, created>>
    BY <2>2, <2>3, InvitesIdle
  <2>4. CASE mark_used(t.invite, id, t.now) /\ created' = created \cup {[user |-> id, invite |-> t.invite]}
    <3> HIDE DEF id
    <3>1. CASE t.invite = None
      BY <2>2, <2>4, <3>1, SignInAssumption DEF mark_used, InviteInv, InviteMakesOneAccount
    <3>2. CASE t.invite # None
      <4>1. /\ t.invite \in Invites /\ invites[t.invite] \in InviteRow
            /\ invites[t.invite] # None /\ invites[t.invite].used_at = None
        BY <2>1, <3>2 DEF InviteInv, Types
      <4>2. /\ invites'[t.invite].used_at = t.now /\ t.now # None
            /\ \A i \in Invites \ {t.invite} : invites'[i] = invites[i]
        BY <2>1, <2>4, <3>2, <4>1, SignInAssumption DEF mark_used, Types, InviteRow
      <4>3. \A a \in created : a.invite # t.invite
        BY <4>1 DEF InviteInv
      <4>4. InviteMakesOneAccount'
        BY <2>4, <4>3 DEF InviteInv, InviteMakesOneAccount
      <4>5. \A e \in Devices : tx'[e].stage = "authorized" =>
               e # d /\ tx'[e] = tx[e] /\ (tx[e].invite # None => tx[e].invite # t.invite)
        BY <2>1, <2>2, <3>2 DEF InviteInv
      <4>6. \A e \in Devices : tx[e].stage = "authorized" => tx[e].invite \in Invites \cup {None}
        BY TxForms DEF Types, Authorized
      <4>7. t.invite \in issued
        BY <4>1 DEF InviteInv
      <4> QED
        BY <2>2, <2>4, <4>1, <4>2, <4>4, <4>5, <4>6, <4>7 DEF InviteInv
    <3> QED
      BY <3>1, <3>2
  <2> QED
    BY <1>4, <2>3, <2>4 DEF sign_in, server
<1>5. ASSUME NEW d \in Devices, delete_account(d) PROVE InviteInv'
  <2>1. PICK s \in sessions :
          /\ \A i \in Invites :
                invites[i] # None /\ s.user \in {invites[i].by, invites[i].used_by} => ~InviteLocked(i)
          /\ invites' = [i \in Invites |->
                IF invites[i] = None \/ invites[i].by = s.user THEN None
                ELSE IF invites[i].used_by = s.user THEN [invites[i] EXCEPT !.used_by = None]
                ELSE invites[i]]
    BY <1>5 DEF delete_account, resolve
  <2>2. UNCHANGED <<tx, issued, created>>
    BY <1>5 DEF delete_account
  <2>3. \A i \in Invites : invites'[i] # None =>
          /\ invites[i] # None /\ invites'[i].used_at = invites[i].used_at
          /\ invites'[i].used_by \in {invites[i].used_by, None}
    BY <2>1 DEF Types, InviteRow
  <2>4. \A i \in Invites : InviteLocked(i) => invites'[i] = invites[i]
    BY <2>1
  <2>5. \A e \in Devices : tx[e].stage = "authorized" /\ tx[e].invite # None =>
           tx[e].invite \in Invites /\ InviteLocked(tx[e].invite)
    BY TxForms DEF Types, Authorized, InviteLocked
  <2> QED
    BY <2>2, <2>3, <2>4, <2>5 DEF InviteInv, InviteMakesOneAccount
<1>6. ASSUME NEW by \in Nat, create_invite(by) PROVE InviteInv'
  <2>1. PICK i \in Invites \ issued :
          /\ issued' = issued \cup {i}
          /\ invites' = [invites EXCEPT ![i] = [by |-> by, expires |-> clock + INVITE_TTL_SECS,
                                                used_by |-> None, used_at |-> None]]
    BY <1>6 DEF create_invite
  <2>2. UNCHANGED <<tx, created>>
    BY <1>6 DEF create_invite
  <2>3. /\ invites'[i].used_by = None
        /\ \A j \in Invites \ {i} : invites'[j] = invites[j]
    BY <2>1 DEF Types
  <2>4. \A e \in Devices : tx[e].stage = "authorized" /\ tx[e].invite # None =>
           tx[e].invite \in Invites /\ tx[e].invite # i
    BY <2>1, TxForms DEF Types, Authorized, InviteInv
  <2> QED
    BY <2>1, <2>2, <2>3, <2>4 DEF InviteInv, InviteMakesOneAccount
<1>7. ASSUME NEW d \in Devices, UserInvite(d) PROVE InviteInv'
  BY <1>7, <1>6 DEF UserInvite, resolve, Types, Session
<1>8. CASE UNCHANGED <<invites, issued, created, tx>>
  BY <1>8, InvitesIdle
<1> QED
  <2>1. ASSUME NEW e \in Emails, start(e) \/ mint_code(e) PROVE InviteInv'
    BY <2>1, <1>8 DEF start, mint_code, server
  <2>2. ASSUME NEW s \in sending, StoreSent(s) PROVE InviteInv'
    BY <2>2, <1>8 DEF StoreSent, server
  <2>3. ASSUME NEW d \in Devices, NEW other \in Devices,
               sign_out(d) \/ revoke_device(d, other) \/ bearer_call(d) \/ forget_bearer_on_401(d)
        PROVE  InviteInv'
    BY <2>3, <1>8 DEF sign_out, revoke_device, bearer_call, forget_bearer_on_401, server
  <2>4. CASE expire_rows \/ Tick
    BY <2>4, <1>8 DEF expire_rows, Tick, server
  <2> QED
    BY <1>1, <1>2, <1>3, <1>4, <1>5, <1>6, <1>7, <2>1, <2>2, <2>3, <2>4
       DEF Next, run_login, auth_email_verify, Operator

\* Every step keeps the invariant.
LEMMA NextKeeps == SignInInv /\ [Next]_vars => SignInInv'
<1> SUFFICES ASSUME SignInInv, [Next]_vars PROVE SignInInv'
  OBVIOUS
<1>1. CASE Next
  BY <1>1, TypesKeep, CodesKeep, InvitesKeep DEF SignInInv
<1>2. CASE UNCHANGED vars
  <2>1. Types'
    BY <1>2 DEF vars, SignInInv, Types
  <2>2. CodeInv'
    BY <1>2, CodesIdle DEF vars, SignInInv, Holding
  <2>3. InviteInv'
    BY <1>2, InvitesIdle DEF vars, SignInInv
  <2> QED
    BY <2>1, <2>2, <2>3 DEF SignInInv
<1> QED
  BY <1>1, <1>2

\* The invariant holds throughout.
LEMMA Invariant == Spec => []SignInInv
BY Initial, NextKeeps, PTL DEF Spec

-----------------------------------------------------------------------------

\* However many devices verify one code at once, it signs in at most once and
\* is compared with at most OTP_MAX_ATTEMPTS wrong codes (check_code keeps the
\* row locked until consume_code and the commit).
THEOREM CodeBudgetHolds == Spec => []CodeBudget
BY Invariant, PTL DEF SignInInv, CodeInv

\* An invite makes one account, ever, whoever races for it and whoever is
\* deleted in between (authorize_signup, mark_used, ON DELETE SET NULL).
THEOREM InviteOnce == Spec => []InviteMakesOneAccount
BY Invariant, PTL DEF SignInInv, InviteInv

\* The listing calls exactly the redeemable codes active: an invite without
\* used_at has no used_by either (invites::list, authorize_signup).
THEOREM InviteListing == Spec => []InviteListingHonest
<1>1. SignInInv => InviteListingHonest
  BY DEF SignInInv, Types, InviteInv, InviteListingHonest, InviteStatus, usable, InviteRow
<1> QED
  BY <1>1, Invariant, PTL
=============================================================================
