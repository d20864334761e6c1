------------------------------- MODULE Invites -------------------------------
(***************************************************************************)
(* Guardian invitations: a guardian invites an e-mail address; whoever     *)
(* holds the link accepts, and then opens the account; the inviter may     *)
(* revoke.  Every request reads the clock first, then waits for the row of *)
(* the invite (SELECT ... FOR UPDATE), decides, writes and commits.  The   *)
(* CHECK constraints behind the table are left out: the code is to keep    *)
(* them without their help.                                                *)
(***************************************************************************)
EXTENDS Naturals

CONSTANTS
  Invite, Email, Inviter,
  InviteRequest,      \* each is one HTTP request
  INVITE_TTL,         \* lifetime of an invite
  MaxInviteClock,     \* bound on the clock
  Nil

ASSUME InviteAssumption ==
  /\ INVITE_TTL \in Nat \ {0} /\ MaxInviteClock \in Nat
  /\ Nil \notin Nat \cup InviteRequest \cup Inviter

VARIABLES
  guardian_invite,   \* the table, a row per invite
  inviteLock,        \* holder of the lock on each row
  isLiveGuardian,    \* does the inviter hold a live, unrestricted edge
  app_user,          \* e-mail addresses with an account
  tokens,            \* sessions minted by bootstrap, as <<invite, e-mail>>
  inviteReq,         \* what each request is doing
  inviteClock

inviteVars == <<guardian_invite, inviteLock, isLiveGuardian, app_user, tokens, inviteReq, inviteClock>>
inviteRest == <<isLiveGuardian, inviteClock>>

NoInvite == [by |-> Nil]
InviteIdle == [op |-> "none"]

InviteInit ==
  /\ guardian_invite = [i \in Invite |-> NoInvite]
  /\ inviteLock = [i \in Invite |-> Nil]
  /\ isLiveGuardian = [g \in Inviter |-> TRUE]
  /\ app_user \in SUBSET Email
  /\ tokens = {}
  /\ inviteReq = [r \in InviteRequest |-> InviteIdle]
  /\ inviteClock = 0

Made(i) == guardian_invite[i] # NoInvite
Accepted(i) == guardian_invite[i].accepted_at # Nil
Revoked(i) == guardian_invite[i].revoked_at # Nil
Bootstrapped(i) == guardian_invite[i].bootstrapped_at # Nil
InviteExpired(i, now) == guardian_invite[i].created_at + INVITE_TTL <= now

\* The route looks at the edges of the caller before it inserts anything.
InviteRoute(r, g, i, email) ==
  /\ inviteReq[r] = InviteIdle /\ isLiveGuardian[g] /\ ~Made(i)
  /\ inviteReq' = [inviteReq EXCEPT ![r] = [op |-> "create", by |-> g, inv |-> i, email |-> email]]
  /\ UNCHANGED <<guardian_invite, inviteLock, app_user, tokens, inviteRest>>

createGuardianInvite(r) ==
  LET q == inviteReq[r] IN
  /\ q.op = "create" /\ ~Made(q.inv)
  /\ guardian_invite' = [guardian_invite EXCEPT ![q.inv] =
       [by |-> q.by, email |-> q.email, created_at |-> inviteClock,
        accepted_at |-> Nil, revoked_at |-> Nil, bootstrapped_at |-> Nil]]
  /\ inviteReq' = [inviteReq EXCEPT ![r] = InviteIdle]
  /\ UNCHANGED <<inviteLock, app_user, tokens, inviteRest>>

\* The three other routes: the clock is read when the request arrives.
AskInvite(r, op, i, g) ==
  /\ inviteReq[r] = InviteIdle /\ Made(i)
  /\ inviteReq' = [inviteReq EXCEPT ![r] = [op |-> op, by |-> g, inv |-> i, now |-> inviteClock, held |-> FALSE]]
  /\ UNCHANGED <<guardian_invite, inviteLock, app_user, tokens, inviteRest>>

AcceptRoute(r, i, g) == AskInvite(r, "accept", i, g)
RevokeRoute(r, i, g) == AskInvite(r, "revoke", i, g)
BootstrapRoute(r, i, g) == AskInvite(r, "bootstrap", i, g)

\* Mutant: the row is read without FOR UPDATE.
LockInviteNot(r, op, allowed) ==
  LET q == inviteReq[r] IN
  /\ q.op = op /\ ~q.held
  /\ inviteReq' = [inviteReq EXCEPT ![r] = IF allowed THEN [@ EXCEPT !.held = TRUE] ELSE InviteIdle]
  /\ UNCHANGED <<guardian_invite, inviteLock, app_user, tokens, inviteRest>>

\* SELECT ... FOR UPDATE, and what the function decides of the row: a refusal
\* ends the transaction, anything else keeps the row until it commits.
LockInvite(r, op, allowed) ==
  LET q == inviteReq[r] IN
  /\ q.op = op /\ ~q.held /\ inviteLock[q.inv] = Nil
  /\ IF allowed
     THEN /\ inviteLock' = [inviteLock EXCEPT ![q.inv] = r]
          /\ inviteReq' = [inviteReq EXCEPT ![r].held = TRUE]
     ELSE /\ inviteReq' = [inviteReq EXCEPT ![r] = InviteIdle]
          /\ UNCHANGED inviteLock
  /\ UNCHANGED <<guardian_invite, app_user, tokens, inviteRest>>

InviteCommit(r) ==
  /\ inviteLock' = [i \in Invite |-> IF inviteLock[i] = r THEN Nil ELSE inviteLock[i]]
  /\ inviteReq' = [inviteReq EXCEPT ![r] = InviteIdle]
  /\ UNCHANGED inviteRest

MayAccept(i, now) == ~Revoked(i) /\ ~Accepted(i) /\ ~InviteExpired(i, now)

acceptGuardianInvite(r) ==
  LET q == inviteReq[r] IN
  \/ q.op = "accept" /\ LockInvite(r, "accept", MayAccept(q.inv, q.now))
  \/ /\ q.op = "accept" /\ q.held
     /\ guardian_invite' = [guardian_invite EXCEPT ![q.inv].accepted_at = q.now]
     /\ InviteCommit(r) /\ UNCHANGED <<app_user, tokens>>

\* Mutant: the date is written whether or not there is one already.
RevokedAtAgain(i, now) == now

\* A second revoke is not an error, and does not touch the recorded instant.
RevokedAt(i, now) == IF Revoked(i) THEN guardian_invite[i].revoked_at ELSE now

\* Row-level security shows the row to nobody but its sender.
MayRevoke(i, g) == guardian_invite[i].by = g /\ ~Accepted(i)

revokeGuardianInvite(r) ==
  LET q == inviteReq[r] IN
  \/ q.op = "revoke" /\ LockInvite(r, "revoke", MayRevoke(q.inv, q.by))
  \/ /\ q.op = "revoke" /\ q.held
     /\ guardian_invite' = [guardian_invite EXCEPT ![q.inv].revoked_at = RevokedAt(q.inv, q.now)]
     /\ InviteCommit(r) /\ UNCHANGED <<app_user, tokens>>

MayBootstrap(i, now) ==
  /\ ~Revoked(i) /\ Accepted(i) /\ ~InviteExpired(i, now) /\ ~Bootstrapped(i)
  /\ guardian_invite[i].email \notin app_user

\* Two invites to one address hold two different rows: the UNIQUE constraint on
\* app_user.email decides, and its loser is answered email_already_registered.
InsertUser(r) ==
  LET q == inviteReq[r]
      email == guardian_invite[q.inv].email IN
  IF email \in app_user
  THEN UNCHANGED <<app_user, tokens, guardian_invite>>
  ELSE /\ app_user' = app_user \cup {email}
       /\ tokens' = tokens \cup {<<q.inv, email, FALSE>>}
       /\ guardian_invite' = [guardian_invite EXCEPT ![q.inv].bootstrapped_at = q.now]

bootstrapGuardianInvite(r) ==
  LET q == inviteReq[r] IN
  \/ q.op = "bootstrap" /\ LockInvite(r, "bootstrap", MayBootstrap(q.inv, q.now))
  \/ q.op = "bootstrap" /\ q.held /\ InsertUser(r) /\ InviteCommit(r)

\* Somebody registers by other means; an inviter's edge ends.
RegistersElsewhere(email) ==
  /\ app_user' = app_user \cup {email}
  /\ UNCHANGED <<guardian_invite, inviteLock, tokens, inviteReq, inviteRest>>
GuardianEnds(g) ==
  /\ isLiveGuardian[g]
  /\ isLiveGuardian' = [isLiveGuardian EXCEPT ![g] = FALSE]
  /\ UNCHANGED <<guardian_invite, inviteLock, app_user, tokens, inviteReq, inviteClock>>

InviteTick ==
  /\ inviteClock < MaxInviteClock
  /\ inviteClock' = inviteClock + 1
  /\ UNCHANGED <<guardian_invite, inviteLock, isLiveGuardian, app_user, tokens, inviteReq>>

InviteServe(r) ==
  \/ createGuardianInvite(r) \/ acceptGuardianInvite(r)
  \/ revokeGuardianInvite(r) \/ bootstrapGuardianInvite(r)

InviteNext ==
  \/ \E r \in InviteRequest :
       \/ InviteServe(r)
       \/ \E i \in Invite, g \in Inviter :
            \/ \E email \in Email : InviteRoute(r, g, i, email)
            \/ AcceptRoute(r, i, g) \/ RevokeRoute(r, i, g) \/ BootstrapRoute(r, i, g)
  \/ \E email \in Email : RegistersElsewhere(email)
  \/ \E g \in Inviter : GuardianEnds(g)
  \/ InviteTick

InviteSpec == InviteInit /\ [][InviteNext]_inviteVars

-----------------------------------------------------------------------------
(* Properties. *)

InviteInstants == 0..MaxInviteClock
InviteRows == {NoInvite} \cup
  [by : Inviter, email : Email, created_at : InviteInstants, accepted_at : InviteInstants \cup {Nil},
   revoked_at : InviteInstants \cup {Nil}, bootstrapped_at : InviteInstants \cup {Nil}]
InviteOps == {"accept", "revoke", "bootstrap"}
InviteRequests == {InviteIdle}
  \cup [op : {"create"}, by : Inviter, inv : Invite, email : Email]
  \cup [op : InviteOps, by : Inviter, inv : Invite, now : InviteInstants, held : BOOLEAN]

\* Values of the variables; no row is locked by a request that is over.
InviteTypeOK ==
  /\ guardian_invite \in [Invite -> InviteRows]
  /\ inviteLock \in [Invite -> InviteRequest \cup {Nil}]
  /\ isLiveGuardian \in [Inviter -> BOOLEAN]
  /\ app_user \subseteq Email
  /\ tokens \subseteq Invite \X Email \X BOOLEAN
  /\ inviteReq \in [InviteRequest -> InviteRequests]
  /\ inviteClock \in InviteInstants
  /\ \A i \in Invite : inviteLock[i] # Nil =>
       LET q == inviteReq[inviteLock[i]] IN q.op \in InviteOps /\ q.held /\ q.inv = i

\* pool.ts, accept- and revokeGuardianInvite: however the two race, an invite
\* is accepted or revoked and never both, and only an accepted one that was not
\* revoked ever opened an account.
InviteOneFate ==
  \A i \in Invite : Made(i) =>
    /\ ~(Accepted(i) /\ Revoked(i))
    /\ Bootstrapped(i) => Accepted(i)

\* pool.ts, revokeGuardianInvite: the recorded instants are evidence; none of
\* them is ever rewritten, whatever double taps and retries do.
InviteInstantsFinal ==
  [\A i \in Invite : Made(i) =>
     /\ Accepted(i) => guardian_invite'[i].accepted_at = guardian_invite[i].accepted_at
     /\ Revoked(i) => guardian_invite'[i].revoked_at = guardian_invite[i].revoked_at
     /\ Bootstrapped(i) => guardian_invite'[i].bootstrapped_at = guardian_invite[i].bootstrapped_at]_inviteVars

\* pool.ts, bootstrapGuardianInvite: an invite mints at most one session, an
\* address gets at most one by invitation, and never one for an account that
\* existed already.
OneAccountPerInvite ==
  \A s, t \in tokens : (s[1] = t[1] \/ s[2] = t[2] => s = t) /\ ~s[3]

\* pool.ts: an invite has one fate and opens one account.
InviteHolds == InviteOneFate /\ OneAccountPerInvite
=============================================================================
