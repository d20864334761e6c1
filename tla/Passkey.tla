------------------------------ MODULE Passkey ------------------------------
(***************************************************************************)
(* Passkeys: single-use challenges, registration, login, the signature     *)
(* counter, the sessions that logins issue, and deactivating the account.  *)
(*                                                                         *)
(* Every step of a request is a database session of its own, so others run *)
(* between any two.  Times are ages: a challenge is too old at             *)
(* CHALLENGE_TTL, a session has `left' ticks to live.                      *)
(***************************************************************************)
EXTENDS Naturals

CONSTANTS
  User, Key, Challenge,
  LoginRequest, RegisterRequest,   \* each is one request
  MaxCount,                        \* largest counter an authenticator reports
  CHALLENGE_TTL, SESSION_TTL,
  Nobody

ASSUME PasskeyAssumption ==
  /\ MaxCount \in Nat /\ CHALLENGE_TTL \in Nat \ {0} /\ SESSION_TTL \in Nat \ {0}
  /\ LoginRequest \cap RegisterRequest = {}
  /\ Nobody \notin User \cup LoginRequest \cup RegisterRequest

VARIABLES
  accountActive,        \* app_user.deactivated_at IS NULL
  accountLock,      \* holder of the row lock on app_user
  challenge,     \* auth_challenge
  passkey,       \* webauthn_credential: owner and sign_count
  login,         \* login and registration requests
  sessions       \* session tokens handed out and not expired

passkeyVars == <<accountActive, accountLock, challenge, passkey, login, sessions>>

KeyRequest == LoginRequest \cup RegisterRequest
NoKey == [owner |-> Nobody, count |-> 0]

PasskeyInit ==
  /\ accountActive = [u \in User |-> TRUE]
  /\ accountLock = [u \in User |-> Nobody]
  /\ challenge = [c \in Challenge |-> [state |-> "unissued"]]
  /\ passkey \in [Key -> {NoKey} \cup {[owner |-> u, count |-> 0] : u \in User}]
  /\ login = [r \in KeyRequest |-> [pc |-> "idle"]]
  /\ sessions = {}

createChallenge(u, c, purpose) ==
  /\ challenge[c].state = "unissued"
  /\ challenge' = [challenge EXCEPT ![c] =
       [state |-> "live", user |-> u, purpose |-> purpose, age |-> 0]]
  /\ UNCHANGED <<accountActive, accountLock, passkey, login, sessions>>

\* The two routes that hand one out: with a session, and before there is one.
RegisterChallenge(u, c) == createChallenge(u, c, "register")
LoginChallenge(u, c) == createChallenge(u, c, "login")

\* Mutant: consumed_at is not part of the WHERE clause.
ConsumableAgain(u, c, purpose) ==
  /\ challenge[c].state \in {"live", "consumed"}
  /\ challenge[c].user = u /\ challenge[c].purpose = purpose
  /\ challenge[c].age < CHALLENGE_TTL

\* The WHERE clause of consumeChallenge().
Consumable(u, c, purpose) ==
  /\ challenge[c].state = "live"
  /\ challenge[c].user = u /\ challenge[c].purpose = purpose
  /\ challenge[c].age < CHALLENGE_TTL

KeyGoto(r, pc) == login' = [login EXCEPT ![r].pc = pc]

\* One UPDATE: whoever matches the row spends it.
consumeChallenge(r, purpose, next) ==
  LET q == login[r] IN
  /\ IF Consumable(q.user, q.ch, purpose)
     THEN /\ challenge' = [challenge EXCEPT ![q.ch].state = "consumed"]
          /\ KeyGoto(r, next)
     ELSE KeyGoto(r, "refused") /\ UNCHANGED challenge
  /\ UNCHANGED <<accountActive, accountLock, passkey, sessions>>

-----------------------------------------------------------------------------
(* Logging in. *)

\* The account is looked up first; `count' is what the authenticator signed.
LoginVerify(r, u, c, k, count) ==
  /\ login[r].pc = "idle" /\ accountActive[u]
  /\ login' = [login EXCEPT ![r] =
       [pc |-> "known", user |-> u, ch |-> c, key |-> k, count |-> count]]
  /\ UNCHANGED <<accountActive, accountLock, challenge, passkey, sessions>>

LoginConsume(r) == login[r].pc = "known" /\ consumeChallenge(r, "login", "consumed")

\* A counter that never increases is a cloned key, unless neither side counts.
verifyAssertion(count, stored) == (count = 0 /\ stored = 0) \/ count > stored

\* webauthnCredentialById() reads a snapshot; verifyAssertion() judges by it.
LoginAssert(r) ==
  LET q == login[r] IN
  /\ q.pc = "consumed"
  /\ IF passkey[q.key].owner = q.user /\ verifyAssertion(q.count, passkey[q.key].count)
     THEN KeyGoto(r, "verified") ELSE KeyGoto(r, "refused")
  /\ UNCHANGED <<accountActive, accountLock, challenge, passkey, sessions>>

\* The WHERE clause of updateWebauthnSignCount(); a deleted row matches nothing.
Advances(k, count) ==
  passkey[k].owner # Nobody /\ (count = 0 \/ passkey[k].count < count)

updateWebauthnSignCount(r) ==
  LET q == login[r] IN
  /\ q.pc = "verified"
  /\ IF Advances(q.key, q.count)
     THEN passkey' = [passkey EXCEPT ![q.key].count = q.count] /\ KeyGoto(r, "advanced")
     ELSE KeyGoto(r, "refused") /\ UNCHANGED passkey
  /\ UNCHANGED <<accountActive, accountLock, challenge, sessions>>

issueSession(r) ==
  LET q == login[r] IN
  /\ q.pc = "advanced"
  /\ sessions' = sessions \cup
       {[user |-> q.user, by |-> r, ch |-> q.ch, key |-> q.key, count |-> q.count,
         left |-> SESSION_TTL]}
  /\ KeyGoto(r, "done")
  /\ UNCHANGED <<accountActive, accountLock, challenge, passkey>>

-----------------------------------------------------------------------------
(* Registering a passkey, deactivating, time. *)

RegisterVerify(r, u, c, k) ==
  /\ login[r].pc = "idle"
  /\ login' = [login EXCEPT ![r] = [pc |-> "known", user |-> u, ch |-> c, key |-> k, count |-> 0]]
  /\ UNCHANGED <<accountActive, accountLock, challenge, passkey, sessions>>

RegisterConsume(r) == login[r].pc = "known" /\ consumeChallenge(r, "register", "attested")

\* SELECT deactivated_at ... FOR UPDATE.
StoreLock(r) ==
  LET u == login[r].user IN
  /\ login[r].pc = "attested" /\ accountLock[u] = Nobody
  /\ IF accountActive[u]
     THEN accountLock' = [accountLock EXCEPT ![u] = r] /\ KeyGoto(r, "storing")
     ELSE KeyGoto(r, "refused") /\ UNCHANGED accountLock
  /\ UNCHANGED <<accountActive, challenge, passkey, sessions>>

\* credential_id is unique: a key that is registered already stays as it was.
storeWebauthnCredential(r) ==
  LET q == login[r] IN
  /\ q.pc = "storing"
  /\ passkey' = IF passkey[q.key] = NoKey
                THEN [passkey EXCEPT ![q.key].owner = q.user] ELSE passkey
  /\ accountLock' = [accountLock EXCEPT ![q.user] = Nobody]
  /\ KeyGoto(r, "done")
  /\ UNCHANGED <<accountActive, challenge, sessions>>

\* One transaction behind the row lock of the account.
deactivateAccount(u) ==
  /\ accountLock[u] = Nobody /\ accountActive[u]
  /\ accountActive' = [accountActive EXCEPT ![u] = FALSE]
  /\ passkey' = [k \in Key |-> IF passkey[k].owner = u THEN NoKey ELSE passkey[k]]
  /\ challenge' = [c \in Challenge |->
       IF challenge[c].state # "unissued" /\ challenge[c].user = u
       THEN [challenge[c] EXCEPT !.state = "deleted"] ELSE challenge[c]]
  /\ UNCHANGED <<accountLock, login, sessions>>

\* A token is good until its exp.
TokensLeft == {[s EXCEPT !.left = @ - 1] : s \in {t \in sessions : t.left > 1}}

PasskeyTick ==
  /\ challenge' = [c \in Challenge |->
       IF challenge[c].state = "live" /\ challenge[c].age < CHALLENGE_TTL
       THEN [challenge[c] EXCEPT !.age = @ + 1] ELSE challenge[c]]
  /\ sessions' = TokensLeft
  /\ UNCHANGED <<accountActive, accountLock, passkey, login>>

LoginStep(r) == LoginConsume(r) \/ LoginAssert(r) \/ updateWebauthnSignCount(r) \/ issueSession(r)
RegisterStep(r) == RegisterConsume(r) \/ StoreLock(r) \/ storeWebauthnCredential(r)

PasskeyNext ==
  \/ \E u \in User :
       \/ deactivateAccount(u)
       \/ \E c \in Challenge :
            \/ RegisterChallenge(u, c) \/ LoginChallenge(u, c)
            \/ \E k \in Key :
                 \/ \E r \in LoginRequest, n \in 0..MaxCount : LoginVerify(r, u, c, k, n)
                 \/ \E r \in RegisterRequest : RegisterVerify(r, u, c, k)
  \/ \E r \in LoginRequest : LoginStep(r)
  \/ \E r \in RegisterRequest : RegisterStep(r)
  \/ PasskeyTick

PasskeySpec == PasskeyInit /\ [][PasskeyNext]_passkeyVars

\* A request that was begun runs to its answer, and time passes.
PasskeyFairness ==
  /\ \A r \in LoginRequest : WF_passkeyVars(LoginStep(r))
  /\ \A r \in RegisterRequest : WF_passkeyVars(RegisterStep(r))
  /\ WF_passkeyVars(PasskeyTick)

-----------------------------------------------------------------------------
(* Properties. *)

KeyPcs == {"idle", "known", "consumed", "verified", "advanced", "attested", "storing", "done", "refused"}

\* Values of the variables; whoever holds the row of an account is storing a
\* passkey for it, and it is active.
PasskeyTypeOK ==
  /\ accountActive \in [User -> BOOLEAN]
  /\ passkey \in [Key -> [owner : User \cup {Nobody}, count : 0..MaxCount]]
  /\ \A c \in Challenge : challenge[c].state \in {"unissued", "live", "consumed", "deleted"}
  /\ \A r \in KeyRequest : login[r].pc \in KeyPcs
  /\ \A u \in User : accountLock[u] # Nobody =>
       login[accountLock[u]].pc = "storing" /\ login[accountLock[u]].user = u /\ accountActive[u]

\* auth.ts: no two sessions were earned with one challenge, and the challenge
\* of a session was the account's own, for a login.
OneSessionPerChallenge ==
  \A s \in sessions :
    /\ \A t \in sessions : s.ch = t.ch => s = t
    /\ challenge[s.ch].user = s.user /\ challenge[s.ch].purpose = "login"
    /\ challenge[s.ch].state \in {"consumed", "deleted"}

\* pool.ts, updateWebauthnSignCount: an account's key and its clone that report
\* the same counter do not both get a session, however their requests interleave,
\* unless a login reporting no counter came between them.  (A key that is not its
\* account's any more counts from zero again for whoever registers it next.)
CloneCaught ==
  \A s, t \in sessions :
    /\ s # t /\ s.key = t.key /\ s.count = t.count /\ s.count > 0
    /\ s.user = t.user /\ passkey[s.key].owner = s.user
    => \E z \in LoginRequest : login[z].pc \in {"advanced", "done"} /\ login[z].count = 0

\* pool.ts, storeWebauthnCredential: a deactivated account has no passkey,
\* though a registration was under way when it was deactivated.
NoKeyAfterDeactivation == \A k \in Key : passkey[k].owner # Nobody => accountActive[passkey[k].owner]

\* pool.ts, deactivateAccount: what a deactivated account still holds are
\* sessions from before, and they all end.
DeactivatedLosesAccess ==
  \A u \in User : ~accountActive[u] ~> [](\A s \in sessions : s.user # u)

\* auth.ts and pool.ts: a session was earned with a challenge nobody else used, by
\* a key that was not cloned; and a key goes with its account.
LoginsHold == OneSessionPerChallenge /\ CloneCaught /\ NoKeyAfterDeactivation
=============================================================================
