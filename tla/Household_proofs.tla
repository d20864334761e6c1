--------------------------- MODULE Household_proofs ---------------------------
(***************************************************************************)
(* A household's server, for any number of rows, people and requests in    *)
(* flight: guardian invitations, live calls, the family's records, the     *)
(* rows several people write (doses and letters, fields, cards and lists)  *)
(* and the day between two homes.  What makes each invariant inductive is  *)
(* the lock or the snapshot a request holds: what it read of the rows is   *)
(* still so when it writes, or the index refuses it.  Then the household   *)
(* as a whole: every step is a step of one component beside the others at  *)
(* rest, so the invariants of the seven parts are one of HouseholdSpec,    *)
(* and it gives HouseholdTypeOK, InviteHolds, CallsHold, RecordsHold,      *)
(* RowsAreWhole and OverIsOver.                                            *)
(***************************************************************************)
EXTENDS MCHousehold, FiniteSetTheorems, SequenceTheorems, TLAPS

-----------------------------------------------------------------------------
(* Invitations. *)

MadeRows ==
  [by : Inviter, email : Email, created_at : InviteInstants, accepted_at : InviteInstants \cup {Nil},
   revoked_at : InviteInstants \cup {Nil}, bootstrapped_at : InviteInstants \cup {Nil}]
Creating == [op : {"create"}, by : Inviter, inv : Invite, email : Email]
Deciding == [op : InviteOps, by : Inviter, inv : Invite, now : InviteInstants, held : BOOLEAN]

Holds(r) == inviteReq[r].op \in InviteOps /\ inviteReq[r].held

\* pool.ts: whoever was let past SELECT ... FOR UPDATE holds the row until it commits,
\* and only asks about rows that exist.
HolderOwnsRow ==
  \A r \in InviteRequest :
    /\ Holds(r) => inviteLock[inviteReq[r].inv] = r
    /\ inviteReq[r].op \in InviteOps => Made(inviteReq[r].inv)

\* pool.ts: what each of the three functions found of its row is so until it writes.
DecisionStands ==
  \A r \in InviteRequest :
    LET i == inviteReq[r].inv IN
    Holds(r) =>
      /\ inviteReq[r].op = "accept" => ~Revoked(i) /\ ~Accepted(i)
      /\ inviteReq[r].op = "revoke" => ~Accepted(i)
      /\ inviteReq[r].op = "bootstrap" => Accepted(i) /\ ~Revoked(i) /\ ~Bootstrapped(i)

\* pool.ts, bootstrapGuardianInvite: a session was minted for an invite that opened
\* an account, for the address it was sent to.
TokensHaveRows ==
  \A t \in tokens :
    /\ Made(t[1]) /\ Bootstrapped(t[1])
    /\ guardian_invite[t[1]].email = t[2]
    /\ t[2] \in app_user

InviteInv ==
  /\ InviteTypeOK /\ HolderOwnsRow /\ DecisionStands /\ TokensHaveRows
  /\ InviteOneFate /\ OneAccountPerInvite

USE InviteAssumption

-----------------------------------------------------------------------------
(* Rows and requests. *)

\* A row of the table is a made invite or none.
LEMMA RowKinds ==
  /\ InviteRows = {NoInvite} \cup MadeRows
  /\ NoInvite \notin MadeRows
<1>1. InviteRows = {NoInvite} \cup MadeRows
  BY DEF InviteRows, MadeRows
<1>2. NoInvite \notin MadeRows
  BY DEF NoInvite, MadeRows
<1> QED
  BY <1>1, <1>2

LEMMA MadeFacts ==
  ASSUME InviteTypeOK, NEW i \in Invite
  PROVE  Made(i) <=> guardian_invite[i] \in MadeRows
BY RowKinds DEF InviteTypeOK, Made

\* Each of the three writes leaves a whole row, and touches one instant of it.
LEMMA RowWrites ==
  ASSUME NEW row \in MadeRows, NEW t \in InviteInstants \cup {Nil}
  PROVE  /\ [row EXCEPT !.accepted_at = t] \in MadeRows
         /\ [row EXCEPT !.revoked_at = t] \in MadeRows
         /\ [row EXCEPT !.bootstrapped_at = t] \in MadeRows
BY DEF MadeRows

\* A request is idle, creating or deciding, and each is told from the others by its op.
LEMMA RequestKinds == InviteRequests = {InviteIdle} \cup Creating \cup Deciding
BY DEF InviteRequests, Creating, Deciding

LEMMA RequestFacts ==
  ASSUME NEW q \in InviteRequests
  PROVE  /\ q.op \in InviteOps => q \in Deciding
         /\ q.op = "create" => q \in Creating
         /\ q = InviteIdle => q.op \notin InviteOps
<1>1. CASE q = InviteIdle
  BY <1>1 DEF InviteIdle, InviteOps
<1>2. CASE q \in Creating
  BY <1>2 DEF Creating, InviteOps, InviteIdle
<1>3. CASE q \in Deciding
  BY <1>3 DEF Deciding, InviteOps, InviteIdle
<1> QED
  BY <1>1, <1>2, <1>3, RequestKinds

\* A deciding request has an instant of the clock, an invite and an inviter.
LEMMA DecidingFacts ==
  ASSUME NEW q \in Deciding
  PROVE  q.op \in InviteOps /\ q.by \in Inviter /\ q.inv \in Invite /\ q.now \in InviteInstants
BY DEF Deciding

\* Taking the row leaves what was asked.
LEMMA TakenRequest ==
  ASSUME NEW q \in Deciding
  PROVE  LET p == [q EXCEPT !.held = TRUE] IN
         p \in Deciding /\ p.op = q.op /\ p.by = q.by /\ p.inv = q.inv /\ p.now = q.now /\ p.held
BY Zenon DEF Deciding

-----------------------------------------------------------------------------
(* Initial states. *)

LEMMA InitInvites == InviteInit => InviteInv
<1> SUFFICES ASSUME InviteInit PROVE InviteInv
  OBVIOUS
<1> USE DEF InviteInit
<1>1. \A i \in Invite : ~Made(i)
  BY DEF Made
<1>2. \A r \in InviteRequest : inviteReq[r].op \notin InviteOps
  BY DEF InviteIdle, InviteOps
<1>3. InviteTypeOK
  <2>1. InviteIdle \in InviteRequests /\ NoInvite \in InviteRows /\ 0 \in InviteInstants
    BY DEF InviteRequests, InviteRows, InviteInstants
  <2>2. inviteReq \in [InviteRequest -> InviteRequests] /\ guardian_invite \in [Invite -> InviteRows]
    BY <2>1
  <2>3. isLiveGuardian \in [Inviter -> BOOLEAN]
    OBVIOUS
  <2>4. app_user \subseteq Email /\ tokens \subseteq Invite \X Email \X BOOLEAN
    OBVIOUS
  <2>5. inviteLock \in [Invite -> InviteRequest \cup {Nil}] /\ \A i \in Invite : inviteLock[i] = Nil
    OBVIOUS
  <2> QED
    BY <2>1, <2>2, <2>3, <2>4, <2>5 DEF InviteTypeOK
<1>4. HolderOwnsRow /\ DecisionStands
  BY <1>2 DEF HolderOwnsRow, DecisionStands, Holds
<1>5. TokensHaveRows /\ OneAccountPerInvite
  BY DEF TokensHaveRows, OneAccountPerInvite
<1>6. InviteOneFate
  BY <1>1 DEF InviteOneFate
<1> QED
  BY <1>3, <1>4, <1>5, <1>6 DEF InviteInv

-----------------------------------------------------------------------------
(* Steps. *)

\* A step that writes no row and mints no session keeps what is true of rows
\* and sessions, and rewrites no instant.
LEMMA RowsUntouched ==
  ASSUME InviteInv, UNCHANGED <<guardian_invite, tokens>>, app_user \subseteq app_user'
  PROVE  /\ TokensHaveRows' /\ InviteOneFate' /\ OneAccountPerInvite'
         /\ InviteInstantsFinal
BY DEF InviteInv, TokensHaveRows, InviteOneFate, OneAccountPerInvite, InviteInstantsFinal,
       Made, Accepted, Revoked, Bootstrapped

\* A request that is quiet, or asks without holding, never breaks what the
\* holders rely on.
LEMMA QuietRequest ==
  ASSUME InviteInv, NEW r \in InviteRequest, NEW q \in InviteRequests,
         inviteReq' = [inviteReq EXCEPT ![r] = q],
         ~Holds(r), ~(q.op \in InviteOps /\ q.held), q.op \in InviteOps => Made(q.inv),
         UNCHANGED <<guardian_invite, inviteLock, tokens>>
  PROVE  /\ inviteReq' \in [InviteRequest -> InviteRequests]
         /\ HolderOwnsRow' /\ DecisionStands'
         /\ \A i \in Invite : inviteLock'[i] # Nil =>
              LET p == inviteReq'[inviteLock'[i]] IN p.op \in InviteOps /\ p.held /\ p.inv = i
<1>1. inviteReq \in [InviteRequest -> InviteRequests]
  BY DEF InviteInv, InviteTypeOK
<1>2. inviteReq' \in [InviteRequest -> InviteRequests]
  BY <1>1
<1>3. inviteReq'[r] = q /\ \A p \in InviteRequest : p # r => inviteReq'[p] = inviteReq[p]
  BY <1>1
<1>4. HolderOwnsRow' /\ DecisionStands'
  BY <1>3 DEF InviteInv, HolderOwnsRow, DecisionStands, Holds, Made, Accepted, Revoked, Bootstrapped
<1>5. ASSUME NEW i \in Invite, inviteLock[i] # Nil
      PROVE  LET p == inviteReq'[inviteLock[i]] IN p.op \in InviteOps /\ p.held /\ p.inv = i
  BY <1>3, <1>5 DEF InviteInv, InviteTypeOK, Holds
<1> QED
  BY <1>2, <1>4, <1>5

\* The four routes.
LEMMA RouteStep ==
  ASSUME InviteInv, NEW r \in InviteRequest, NEW g \in Inviter, NEW i \in Invite,
         NEW email \in Email, InviteRoute(r, g, i, email)
  PROVE  InviteInv' /\ InviteInstantsFinal
<1> DEFINE q == [op |-> "create", by |-> g, inv |-> i, email |-> email]
<1>1. q \in InviteRequests /\ q.op \notin InviteOps
  BY DEF InviteRequests, InviteOps
<1>2. ~Holds(r)
  BY DEF InviteRoute, Holds, InviteIdle, InviteOps
<1>3. inviteReq' = [inviteReq EXCEPT ![r] = q]
  BY DEF InviteRoute
<1>4. UNCHANGED <<guardian_invite, inviteLock, app_user, tokens, inviteRest>>
  BY DEF InviteRoute
<1> HIDE DEF q
<1>5. /\ inviteReq' \in [InviteRequest -> InviteRequests]
      /\ HolderOwnsRow' /\ DecisionStands'
      /\ \A j \in Invite : inviteLock'[j] # Nil =>
           LET p == inviteReq'[inviteLock'[j]] IN p.op \in InviteOps /\ p.held /\ p.inv = j
  BY <1>1, <1>2, <1>3, <1>4, QuietRequest
<1>6. TokensHaveRows' /\ InviteOneFate' /\ OneAccountPerInvite' /\ InviteInstantsFinal
  BY <1>4, RowsUntouched
<1>7. InviteTypeOK'
  BY <1>4, <1>5 DEF InviteInv, InviteTypeOK, inviteRest
<1> QED
  BY <1>5, <1>6, <1>7 DEF InviteInv

LEMMA AskStep ==
  ASSUME InviteInv, NEW r \in InviteRequest, NEW op \in InviteOps, NEW i \in Invite,
         NEW g \in Inviter, AskInvite(r, op, i, g)
  PROVE  InviteInv' /\ InviteInstantsFinal
<1> DEFINE q == [op |-> op, by |-> g, inv |-> i, now |-> inviteClock, held |-> FALSE]
<1>1. q \in InviteRequests
  BY DEF InviteInv, InviteTypeOK, InviteRequests
<1>2. q.inv = i /\ ~q.held
  OBVIOUS
<1>3. ~Holds(r) /\ Made(i)
  BY DEF AskInvite, Holds, InviteIdle, InviteOps
<1>4. inviteReq' = [inviteReq EXCEPT ![r] = q]
  BY DEF AskInvite
<1>5. UNCHANGED <<guardian_invite, inviteLock, app_user, tokens, inviteRest>>
  BY DEF AskInvite
<1> HIDE DEF q
<1>6. /\ inviteReq' \in [InviteRequest -> InviteRequests]
      /\ HolderOwnsRow' /\ DecisionStands'
      /\ \A j \in Invite : inviteLock'[j] # Nil =>
           LET p == inviteReq'[inviteLock'[j]] IN p.op \in InviteOps /\ p.held /\ p.inv = j
  BY <1>1, <1>2, <1>3, <1>4, <1>5, QuietRequest
<1>7. TokensHaveRows' /\ InviteOneFate' /\ OneAccountPerInvite' /\ InviteInstantsFinal
  BY <1>5, RowsUntouched
<1>8. InviteTypeOK'
  BY <1>5, <1>6 DEF InviteInv, InviteTypeOK, inviteRest
<1> QED
  BY <1>6, <1>7, <1>8 DEF InviteInv

\* pool.ts: the row is free, so nobody else holds it; what the function decides
\* of it is what it will rely on when it writes.
LEMMA LockStep ==
  ASSUME InviteInv, NEW r \in InviteRequest, NEW op \in InviteOps, NEW allowed \in BOOLEAN,
         LockInvite(r, op, allowed),
         LET i == inviteReq[r].inv IN
         allowed => /\ op = "accept" => ~Revoked(i) /\ ~Accepted(i)
                    /\ op = "revoke" => ~Accepted(i)
                    /\ op = "bootstrap" => Accepted(i) /\ ~Revoked(i) /\ ~Bootstrapped(i)
  PROVE  InviteInv' /\ InviteInstantsFinal
<1>1. /\ inviteReq \in [InviteRequest -> InviteRequests] /\ inviteReq[r].op = op /\ ~inviteReq[r].held
      /\ inviteLock[inviteReq[r].inv] = Nil
      /\ UNCHANGED <<guardian_invite, app_user, tokens, inviteRest>>
  BY DEF InviteInv, InviteTypeOK, LockInvite
<1>2. inviteReq[r] \in Deciding /\ inviteReq[r].inv \in Invite
  BY <1>1, RequestFacts, DecidingFacts
<1>3. TokensHaveRows' /\ InviteOneFate' /\ OneAccountPerInvite' /\ InviteInstantsFinal
  BY <1>1, RowsUntouched
<1>4. CASE ~allowed
  <2>1. inviteReq' = [inviteReq EXCEPT ![r] = InviteIdle] /\ UNCHANGED inviteLock
    BY <1>4 DEF LockInvite
  <2>2. InviteIdle \in InviteRequests /\ InviteIdle.op \notin InviteOps /\ ~Holds(r)
    BY <1>1 DEF InviteRequests, InviteIdle, InviteOps, Holds
  <2>3. /\ inviteReq' \in [InviteRequest -> InviteRequests]
        /\ HolderOwnsRow' /\ DecisionStands'
        /\ \A j \in Invite : inviteLock'[j] # Nil =>
             LET p == inviteReq'[inviteLock'[j]] IN p.op \in InviteOps /\ p.held /\ p.inv = j
    BY <1>1, <2>1, <2>2, QuietRequest
  <2>4. InviteTypeOK'
    BY <1>1, <2>1, <2>3 DEF InviteInv, InviteTypeOK, inviteRest
  <2> QED
    BY <1>3, <2>3, <2>4 DEF InviteInv
<1>5. CASE allowed
  <2> DEFINE i == inviteReq[r].inv
             q == [inviteReq[r] EXCEPT !.held = TRUE]
  <2>1. inviteLock' = [inviteLock EXCEPT ![i] = r] /\ inviteReq' = [inviteReq EXCEPT ![r] = q]
    BY <1>5 DEF LockInvite
  <2>2. q \in Deciding /\ q.op = op /\ q.inv = i /\ q.held
    BY <1>1, <1>2, TakenRequest
  <2>3. q \in InviteRequests
    BY <2>2, RequestKinds
  <2>4. i \in Invite /\ Made(i) /\ inviteLock[i] = Nil
    BY <1>1, <1>2 DEF InviteInv, HolderOwnsRow
  <2>5. inviteLock \in [Invite -> InviteRequest \cup {Nil}]
    BY DEF InviteInv, InviteTypeOK
  <2> HIDE DEF i, q
  <2>6. /\ inviteReq'[r] = q /\ \A p \in InviteRequest : p # r => inviteReq'[p] = inviteReq[p]
        /\ inviteLock'[i] = r /\ \A j \in Invite : j # i => inviteLock'[j] = inviteLock[j]
        /\ inviteReq' \in [InviteRequest -> InviteRequests]
        /\ inviteLock' \in [Invite -> InviteRequest \cup {Nil}]
    BY <1>1, <2>1, <2>3, <2>4, <2>5
  <2>7. HolderOwnsRow'
    <3> SUFFICES ASSUME NEW p \in InviteRequest
                 PROVE  /\ Holds(p)' => inviteLock'[inviteReq'[p].inv] = p
                        /\ inviteReq'[p].op \in InviteOps => guardian_invite'[inviteReq'[p].inv] # NoInvite
      BY DEF HolderOwnsRow, Made
    <3>1. CASE p = r
      <4>1. inviteReq'[p] = q /\ inviteLock'[i] = p /\ q.inv = i
        BY <2>2, <2>6, <3>1
      <4>2. guardian_invite'[i] # NoInvite
        BY <1>1, <2>4 DEF Made
      <4> QED
        BY <4>1, <4>2
    <3>2. CASE p # r
      <4>0. inviteReq'[p] = inviteReq[p]
        BY <2>6, <3>2
      <4>1. Holds(p)' => Holds(p)
        BY <4>0, Zenon DEF Holds
      <4>2. Holds(p) => inviteReq[p].inv # i /\ inviteReq[p].inv \in Invite
        <5>1. Holds(p) => inviteReq[p] \in Deciding
          BY <1>1, RequestFacts DEF Holds
        <5>2. Holds(p) => inviteLock[inviteReq[p].inv] = p /\ p # Nil
          BY DEF InviteInv, HolderOwnsRow
        <5> QED
          BY <2>4, <5>1, <5>2, DecidingFacts
      <4>3. /\ Holds(p) => inviteLock[inviteReq[p].inv] = p
            /\ inviteReq[p].op \in InviteOps => guardian_invite'[inviteReq[p].inv] # NoInvite
        BY <1>1 DEF InviteInv, HolderOwnsRow, Made
      <4> QED
        BY <2>6, <4>0, <4>1, <4>2, <4>3
    <3> QED
      BY <3>1, <3>2
  <2>8. DecisionStands'
    <3>1. ASSUME NEW p \in InviteRequest, p # r
          PROVE  inviteReq'[p] = inviteReq[p] /\ (Holds(p)' => Holds(p))
      <4>1. inviteReq'[p] = inviteReq[p]
        BY <2>6, <3>1
      <4> QED
        BY <4>1, Zenon DEF Holds
    <3>2. guardian_invite' = guardian_invite
      BY <1>1
    <3>3. /\ op = "accept" => ~Revoked(i) /\ ~Accepted(i)
          /\ op = "revoke" => ~Accepted(i)
          /\ op = "bootstrap" => Accepted(i) /\ ~Revoked(i) /\ ~Bootstrapped(i)
      BY <1>5 DEF i
    <3>4. inviteReq'[r] = q /\ q.op = op /\ q.inv = i
      BY <2>2, <2>6
    <3> SUFFICES ASSUME NEW p \in InviteRequest, Holds(p)'
                 PROVE  LET j == inviteReq'[p].inv IN
                        /\ inviteReq'[p].op = "accept" => ~Revoked(j) /\ ~Accepted(j)
                        /\ inviteReq'[p].op = "revoke" => ~Accepted(j)
                        /\ inviteReq'[p].op = "bootstrap" => Accepted(j) /\ ~Revoked(j) /\ ~Bootstrapped(j)
      BY <3>2 DEF DecisionStands, Accepted, Revoked, Bootstrapped
    <3>5. CASE p = r
      BY <3>3, <3>4, <3>5
    <3>6. CASE p # r
      BY <3>1, <3>6 DEF InviteInv, DecisionStands
    <3> QED
      BY <3>5, <3>6
  <2>9. \A j \in Invite : inviteLock'[j] # Nil =>
          LET p == inviteReq'[inviteLock'[j]] IN p.op \in InviteOps /\ p.held /\ p.inv = j
    <3> SUFFICES ASSUME NEW j \in Invite, inviteLock'[j] # Nil
                 PROVE  LET p == inviteReq'[inviteLock'[j]] IN p.op \in InviteOps /\ p.held /\ p.inv = j
      OBVIOUS
    <3>1. CASE j = i
      <4>1. inviteReq'[inviteLock'[j]] = q
        BY <2>6, <3>1
      <4>2. q.op \in InviteOps /\ q.held /\ q.inv = j
        BY <2>2, <3>1, Zenon
      <4> QED
        BY <4>1, <4>2, Zenon
    <3>2. CASE j # i
      <4>1. LET p == inviteReq[inviteLock[j]] IN p.op \in InviteOps /\ p.held /\ p.inv = j
        BY <2>6, <3>2 DEF InviteInv, InviteTypeOK
      <4>2. inviteLock[j] # r
        BY <1>1, <4>1
      <4>3. inviteLock[j] \in InviteRequest
        BY <2>5, <2>6, <3>2
      <4> QED
        BY <2>6, <3>2, <4>1, <4>2, <4>3
    <3> QED
      BY <3>1, <3>2
  <2>10. InviteTypeOK'
    BY <1>1, <2>6, <2>9 DEF InviteInv, InviteTypeOK, inviteRest
  <2> QED
    BY <1>3, <2>7, <2>8, <2>10 DEF InviteInv
<1> QED
  BY <1>4, <1>5

\* What a write may make of a row: the instants it had stay, and its fate is one.
GoodWrite(old, row) ==
  /\ row \in MadeRows /\ row.email = old.email
  /\ ~(row.accepted_at # Nil /\ row.revoked_at # Nil)
  /\ row.bootstrapped_at # Nil => row.accepted_at # Nil
  /\ old.accepted_at # Nil => row.accepted_at = old.accepted_at
  /\ old.revoked_at # Nil => row.revoked_at = old.revoked_at
  /\ old.bootstrapped_at # Nil => row.bootstrapped_at = old.bootstrapped_at

\* pool.ts: a request that holds its row writes it and commits; nobody else holds
\* that row, and what the others hold is not touched.
LEMMA CommitStep ==
  ASSUME InviteInv, NEW r \in InviteRequest, Holds(r), InviteCommit(r),
         NEW row, GoodWrite(guardian_invite[inviteReq[r].inv], row),
         guardian_invite' = [guardian_invite EXCEPT ![inviteReq[r].inv] = row]
  PROVE  /\ guardian_invite' \in [Invite -> InviteRows]
         /\ inviteLock' \in [Invite -> InviteRequest \cup {Nil}]
         /\ inviteReq' \in [InviteRequest -> InviteRequests]
         /\ \A i \in Invite : inviteLock'[i] # Nil =>
              LET p == inviteReq'[inviteLock'[i]] IN p.op \in InviteOps /\ p.held /\ p.inv = i
         /\ HolderOwnsRow' /\ DecisionStands' /\ InviteOneFate' /\ InviteInstantsFinal
<1> DEFINE i == inviteReq[r].inv
<1>1. /\ inviteReq \in [InviteRequest -> InviteRequests]
      /\ inviteLock \in [Invite -> InviteRequest \cup {Nil}]
      /\ guardian_invite \in [Invite -> InviteRows]
  BY DEF InviteInv, InviteTypeOK
<1>2. inviteReq[r] \in Deciding /\ i \in Invite
  BY <1>1, RequestFacts, DecidingFacts DEF Holds
<1>3. inviteLock[i] = r /\ Made(i)
  BY DEF InviteInv, HolderOwnsRow, Holds
<1>4. /\ inviteLock' = [j \in Invite |-> IF inviteLock[j] = r THEN Nil ELSE inviteLock[j]]
      /\ inviteReq' = [inviteReq EXCEPT ![r] = InviteIdle]
  BY DEF InviteCommit
<1>5. guardian_invite' = [guardian_invite EXCEPT ![i] = row]
  OBVIOUS
<1>6. GoodWrite(guardian_invite[i], row)
  OBVIOUS
<1> HIDE DEF i
<1>7. row \in InviteRows /\ row # NoInvite
  BY <1>6, RowKinds DEF GoodWrite
<1>8. /\ guardian_invite' \in [Invite -> InviteRows]
      /\ guardian_invite'[i] = row
      /\ \A j \in Invite : j # i => guardian_invite'[j] = guardian_invite[j]
  BY <1>1, <1>2, <1>5, <1>7
<1>9. InviteIdle \in InviteRequests /\ InviteIdle.op \notin InviteOps
  BY DEF InviteRequests, InviteIdle, InviteOps
<1>10. /\ inviteReq' \in [InviteRequest -> InviteRequests]
       /\ inviteReq'[r] = InviteIdle
       /\ \A p \in InviteRequest : p # r => inviteReq'[p] = inviteReq[p]
  BY <1>1, <1>4, <1>9
<1>11. /\ inviteLock' \in [Invite -> InviteRequest \cup {Nil}]
       /\ \A j \in Invite : inviteLock[j] # r => inviteLock'[j] = inviteLock[j]
       /\ \A j \in Invite : inviteLock'[j] # r
       /\ \A j \in Invite : inviteLock'[j] # Nil => inviteLock'[j] = inviteLock[j]
  BY <1>1, <1>4
<1>12. ASSUME NEW p \in InviteRequest, p # r
       PROVE  Holds(p) => inviteReq[p].inv \in Invite /\ inviteReq[p].inv # i
  <2>1. Holds(p) => inviteReq[p].inv \in Invite
    BY <1>1, RequestFacts, DecidingFacts DEF Holds
  <2>2. Holds(p) => inviteLock[inviteReq[p].inv] = p
    BY DEF InviteInv, HolderOwnsRow
  <2> QED
    BY <1>3, <1>12, <2>1, <2>2
<1>13. ASSUME NEW p \in InviteRequest
       PROVE  Holds(p)' => p # r /\ inviteReq'[p] = inviteReq[p] /\ Holds(p)
  <2>1. CASE p = r
    <3>1. inviteReq'[p].op \notin InviteOps
      BY <1>9, <1>10, <2>1
    <3> QED
      BY <3>1, Zenon DEF Holds
  <2>2. CASE p # r
    <3>1. inviteReq'[p] = inviteReq[p]
      BY <1>10, <2>2
    <3> QED
      BY <3>1, <2>2, Zenon DEF Holds
  <2> QED
    BY <2>1, <2>2
<1>14. HolderOwnsRow'
  <2> SUFFICES ASSUME NEW p \in InviteRequest
               PROVE  /\ Holds(p)' => inviteLock'[inviteReq'[p].inv] = p
                      /\ inviteReq'[p].op \in InviteOps => guardian_invite'[inviteReq'[p].inv] # NoInvite
    BY DEF HolderOwnsRow, Made
  <2>1. Holds(p)' => inviteLock'[inviteReq'[p].inv] = p
    <3>1. Holds(p) => inviteLock[inviteReq[p].inv] = p
      BY DEF InviteInv, HolderOwnsRow
    <3> QED
      BY <1>11, <1>12, <1>13, <3>1
  <2>2. inviteReq'[p].op \in InviteOps => guardian_invite'[inviteReq'[p].inv] # NoInvite
    <3>1. inviteReq'[p].op \in InviteOps => p # r /\ inviteReq'[p] = inviteReq[p]
      BY <1>9, <1>10
    <3>2. inviteReq[p].op \in InviteOps =>
            inviteReq[p].inv \in Invite /\ guardian_invite[inviteReq[p].inv] # NoInvite
      BY <1>1, RequestFacts, DecidingFacts DEF InviteInv, HolderOwnsRow, Made
    <3> QED
      BY <1>7, <1>8, <3>1, <3>2
  <2> QED
    BY <2>1, <2>2
<1>15. DecisionStands'
  <2> SUFFICES ASSUME NEW p \in InviteRequest, Holds(p)'
               PROVE  LET old == guardian_invite'[inviteReq'[p].inv] IN
                      /\ inviteReq'[p].op = "accept" => ~(old.revoked_at # Nil) /\ ~(old.accepted_at # Nil)
                      /\ inviteReq'[p].op = "revoke" => ~(old.accepted_at # Nil)
                      /\ inviteReq'[p].op = "bootstrap" =>
                           old.accepted_at # Nil /\ ~(old.revoked_at # Nil) /\ ~(old.bootstrapped_at # Nil)
    BY DEF DecisionStands, Accepted, Revoked, Bootstrapped
  <2>1. p # r /\ inviteReq'[p] = inviteReq[p] /\ Holds(p)
    BY <1>13
  <2>2. guardian_invite'[inviteReq[p].inv] = guardian_invite[inviteReq[p].inv]
    BY <1>8, <1>12, <2>1
  <2> QED
    BY <2>1, <2>2 DEF InviteInv, DecisionStands, Accepted, Revoked, Bootstrapped
<1>16. ASSUME NEW j \in Invite, inviteLock'[j] # Nil
       PROVE  LET p == inviteReq'[inviteLock'[j]] IN p.op \in InviteOps /\ p.held /\ p.inv = j
  <2>1. inviteLock'[j] = inviteLock[j] /\ inviteLock[j] # r /\ inviteLock[j] \in InviteRequest
    BY <1>1, <1>11, <1>16
  <2>2. inviteReq'[inviteLock'[j]] = inviteReq[inviteLock[j]]
    BY <1>10, <2>1
  <2>3. LET p == inviteReq[inviteLock[j]] IN p.op \in InviteOps /\ p.held /\ p.inv = j
    BY <1>16, <2>1 DEF InviteInv, InviteTypeOK
  <2> QED
    BY <2>2, <2>3
<1>17. InviteOneFate'
  <2> SUFFICES ASSUME NEW j \in Invite, guardian_invite'[j] # NoInvite
               PROVE  LET new == guardian_invite'[j] IN
                      /\ ~(new.accepted_at # Nil /\ new.revoked_at # Nil)
                      /\ new.bootstrapped_at # Nil => new.accepted_at # Nil
    BY DEF InviteOneFate, Made, Accepted, Revoked, Bootstrapped
  <2>1. CASE j = i
    BY <1>6, <1>8, <2>1 DEF GoodWrite
  <2>2. CASE j # i
    BY <1>8, <2>2 DEF InviteInv, InviteOneFate, Made, Accepted, Revoked, Bootstrapped
  <2> QED
    BY <2>1, <2>2
<1>18. InviteInstantsFinal
  <2> SUFFICES ASSUME NEW j \in Invite
               PROVE  LET old == guardian_invite[j]
                          new == guardian_invite'[j] IN
                      /\ old.accepted_at # Nil => new.accepted_at = old.accepted_at
                      /\ old.revoked_at # Nil => new.revoked_at = old.revoked_at
                      /\ old.bootstrapped_at # Nil => new.bootstrapped_at = old.bootstrapped_at
    BY DEF InviteInstantsFinal, Accepted, Revoked, Bootstrapped
  <2>1. CASE j = i
    BY <1>6, <1>8, <2>1 DEF GoodWrite
  <2>2. CASE j # i
    BY <1>8, <2>2
  <2> QED
    BY <2>1, <2>2
<1> QED
  BY <1>8, <1>10, <1>11, <1>14, <1>15, <1>16, <1>17, <1>18

\* An invite that had opened its account keeps its session's row.
LEMMA SessionsKept ==
  ASSUME InviteInv, NEW r \in InviteRequest, Holds(r), NEW row,
         GoodWrite(guardian_invite[inviteReq[r].inv], row),
         guardian_invite' = [guardian_invite EXCEPT ![inviteReq[r].inv] = row],
         app_user \subseteq app_user'
  PROVE  \A t \in tokens :
           /\ guardian_invite'[t[1]] # NoInvite /\ guardian_invite'[t[1]].bootstrapped_at # Nil
           /\ guardian_invite'[t[1]].email = t[2]
           /\ t[2] \in app_user'
<1> DEFINE i == inviteReq[r].inv
<1> SUFFICES ASSUME NEW t \in tokens
             PROVE  /\ guardian_invite'[t[1]] # NoInvite /\ guardian_invite'[t[1]].bootstrapped_at # Nil
                    /\ guardian_invite'[t[1]].email = t[2]
                    /\ t[2] \in app_user'
  OBVIOUS
<1>1. t[1] \in Invite /\ guardian_invite \in [Invite -> InviteRows]
  BY DEF InviteInv, InviteTypeOK
<1>2. /\ guardian_invite[t[1]] # NoInvite /\ guardian_invite[t[1]].bootstrapped_at # Nil
      /\ guardian_invite[t[1]].email = t[2] /\ t[2] \in app_user
  BY DEF InviteInv, TokensHaveRows, Made, Bootstrapped
<1>3. guardian_invite' = [guardian_invite EXCEPT ![i] = row] /\ GoodWrite(guardian_invite[i], row)
  OBVIOUS
<1> HIDE DEF i
<1>4. CASE t[1] = i
  <2>1. guardian_invite'[t[1]] = row
    BY <1>1, <1>3, <1>4
  <2>2. row # NoInvite /\ row.email = t[2] /\ row.bootstrapped_at # Nil
    BY <1>2, <1>3, <1>4, RowKinds DEF GoodWrite
  <2> QED
    BY <1>2, <2>1, <2>2
<1>5. CASE t[1] # i
  BY <1>1, <1>2, <1>3, <1>5
<1> QED
  BY <1>4, <1>5

\* What a request that holds a row knows of it.
LEMMA HolderFacts ==
  ASSUME InviteInv, NEW r \in InviteRequest, Holds(r)
  PROVE  /\ inviteReq[r].inv \in Invite /\ inviteReq[r].now \in InviteInstants
         /\ guardian_invite[inviteReq[r].inv] \in MadeRows
         /\ Nil \notin InviteInstants
<1>1. inviteReq[r] \in Deciding
  BY RequestFacts DEF InviteInv, InviteTypeOK, Holds
<1>2. inviteReq[r].inv \in Invite /\ inviteReq[r].now \in InviteInstants
  BY <1>1, DecidingFacts
<1>3. Made(inviteReq[r].inv)
  BY DEF InviteInv, HolderOwnsRow, Holds
<1>4. guardian_invite[inviteReq[r].inv] \in MadeRows
  BY <1>2, <1>3, MadeFacts DEF InviteInv
<1> QED
  BY <1>2, <1>4 DEF InviteInstants

\* A write that mints no session.
LEMMA WriteStep ==
  ASSUME InviteInv, NEW r \in InviteRequest, Holds(r), InviteCommit(r),
         UNCHANGED <<app_user, tokens>>, NEW row,
         GoodWrite(guardian_invite[inviteReq[r].inv], row),
         guardian_invite' = [guardian_invite EXCEPT ![inviteReq[r].inv] = row]
  PROVE  InviteInv' /\ InviteInstantsFinal
<1>1. /\ guardian_invite' \in [Invite -> InviteRows]
      /\ inviteLock' \in [Invite -> InviteRequest \cup {Nil}]
      /\ inviteReq' \in [InviteRequest -> InviteRequests]
      /\ \A i \in Invite : inviteLock'[i] # Nil =>
           LET p == inviteReq'[inviteLock'[i]] IN p.op \in InviteOps /\ p.held /\ p.inv = i
      /\ HolderOwnsRow' /\ DecisionStands' /\ InviteOneFate' /\ InviteInstantsFinal
  BY CommitStep
<1>2. InviteTypeOK'
  BY <1>1 DEF InviteInv, InviteTypeOK, InviteCommit, inviteRest
<1>3. TokensHaveRows'
  BY SessionsKept DEF TokensHaveRows, Made, Bootstrapped
<1>4. OneAccountPerInvite'
  BY DEF InviteInv, OneAccountPerInvite
<1> QED
  BY <1>1, <1>2, <1>3, <1>4 DEF InviteInv

LEMMA AcceptStep ==
  ASSUME InviteInv, NEW r \in InviteRequest, acceptGuardianInvite(r)
  PROVE  InviteInv' /\ InviteInstantsFinal
<1> DEFINE i == inviteReq[r].inv
           now == inviteReq[r].now
<1>1. CASE LockInvite(r, "accept", MayAccept(i, now))
  <2>1. MayAccept(i, now) \in BOOLEAN /\ (MayAccept(i, now) => ~Revoked(i) /\ ~Accepted(i))
    BY DEF MayAccept
  <2> QED
    BY <1>1, <2>1, LockStep DEF InviteOps
<1>2. CASE /\ inviteReq[r].op = "accept" /\ inviteReq[r].held
           /\ guardian_invite' = [guardian_invite EXCEPT ![i].accepted_at = now]
           /\ InviteCommit(r) /\ UNCHANGED <<app_user, tokens>>
  <2> DEFINE row == [guardian_invite[i] EXCEPT !.accepted_at = now]
  <2>1. Holds(r)
    BY <1>2, Zenon DEF Holds, InviteOps
  <2>2. i \in Invite /\ now \in InviteInstants /\ guardian_invite[i] \in MadeRows /\ Nil \notin InviteInstants
    BY <2>1, HolderFacts
  <2>3. ~Revoked(i) /\ ~Accepted(i)
    BY <1>2, <2>1 DEF InviteInv, DecisionStands
  <2>4. Made(i)
    BY <1>2, <2>1 DEF InviteInv, HolderOwnsRow, InviteOps
  <2>5. guardian_invite[i].bootstrapped_at = Nil
    BY <2>2, <2>3, <2>4 DEF InviteInv, InviteOneFate, Bootstrapped
  <2>6. GoodWrite(guardian_invite[i], row)
    <3>1. row \in MadeRows
      BY <2>2, RowWrites
    <3>2. /\ row.email = guardian_invite[i].email /\ row.accepted_at = now
          /\ row.revoked_at = guardian_invite[i].revoked_at
          /\ row.bootstrapped_at = guardian_invite[i].bootstrapped_at
      BY <2>2 DEF MadeRows
    <3> QED
      BY <2>2, <2>3, <2>5, <3>1, <3>2 DEF GoodWrite, Revoked, Accepted
  <2>7. guardian_invite' = [guardian_invite EXCEPT ![i] = row]
    BY <1>2
  <2> QED
    BY <1>2, <2>1, <2>6, <2>7, WriteStep
<1> QED
  BY <1>1, <1>2 DEF acceptGuardianInvite

LEMMA RevokeStep ==
  ASSUME InviteInv, NEW r \in InviteRequest, revokeGuardianInvite(r)
  PROVE  InviteInv' /\ InviteInstantsFinal
<1> DEFINE i == inviteReq[r].inv
           now == inviteReq[r].now
<1>1. CASE LockInvite(r, "revoke", MayRevoke(i, inviteReq[r].by))
  <2>1. MayRevoke(i, inviteReq[r].by) \in BOOLEAN /\ (MayRevoke(i, inviteReq[r].by) => ~Accepted(i))
    BY DEF MayRevoke
  <2> QED
    BY <1>1, <2>1, LockStep DEF InviteOps
<1>2. CASE /\ inviteReq[r].op = "revoke" /\ inviteReq[r].held
           /\ guardian_invite' = [guardian_invite EXCEPT ![i].revoked_at = RevokedAt(i, now)]
           /\ InviteCommit(r) /\ UNCHANGED <<app_user, tokens>>
  <2> DEFINE at == RevokedAt(i, now)
             row == [guardian_invite[i] EXCEPT !.revoked_at = at]
  <2>1. Holds(r)
    BY <1>2, Zenon DEF Holds, InviteOps
  <2>2. i \in Invite /\ now \in InviteInstants /\ guardian_invite[i] \in MadeRows /\ Nil \notin InviteInstants
    BY <2>1, HolderFacts
  <2>3. ~Accepted(i)
    BY <1>2, <2>1 DEF InviteInv, DecisionStands
  <2>4. Made(i)
    BY <1>2, <2>1 DEF InviteInv, HolderOwnsRow, InviteOps
  <2>5. guardian_invite[i].bootstrapped_at = Nil
    BY <2>2, <2>3, <2>4 DEF InviteInv, InviteOneFate, Bootstrapped
  <2>6. /\ at \in InviteInstants \cup {Nil}
        /\ guardian_invite[i].revoked_at # Nil => at = guardian_invite[i].revoked_at
    BY <2>2 DEF RevokedAt, Revoked, MadeRows
  <2> HIDE DEF at
  <2>7. GoodWrite(guardian_invite[i], row)
    <3>1. row \in MadeRows
      BY <2>2, <2>6, RowWrites
    <3>2. /\ row.email = guardian_invite[i].email /\ row.revoked_at = at
          /\ row.accepted_at = guardian_invite[i].accepted_at
          /\ row.bootstrapped_at = guardian_invite[i].bootstrapped_at
      BY <2>2 DEF MadeRows
    <3> QED
      BY <2>3, <2>5, <2>6, <3>1, <3>2 DEF GoodWrite, Accepted
  <2>8. guardian_invite' = [guardian_invite EXCEPT ![i] = row]
    BY <1>2 DEF at
  <2> QED
    BY <1>2, <2>1, <2>7, <2>8, WriteStep
<1> QED
  BY <1>1, <1>2 DEF revokeGuardianInvite

\* pool.ts, bootstrapGuardianInvite: the account is new and the invite had opened
\* none, so the session minted shares neither with any other.
LEMMA BootstrapStep ==
  ASSUME InviteInv, NEW r \in InviteRequest, bootstrapGuardianInvite(r)
  PROVE  InviteInv' /\ InviteInstantsFinal
<1> DEFINE i == inviteReq[r].inv
           now == inviteReq[r].now
           email == guardian_invite[i].email
<1>1. CASE LockInvite(r, "bootstrap", MayBootstrap(i, now))
  <2>1. /\ MayBootstrap(i, now) \in BOOLEAN
        /\ MayBootstrap(i, now) => Accepted(i) /\ ~Revoked(i) /\ ~Bootstrapped(i)
    BY DEF MayBootstrap
  <2> QED
    BY <1>1, <2>1, LockStep DEF InviteOps
<1>2. CASE inviteReq[r].op = "bootstrap" /\ inviteReq[r].held /\ InsertUser(r) /\ InviteCommit(r)
  <2>1. Holds(r)
    BY <1>2, Zenon DEF Holds, InviteOps
  <2>2. i \in Invite /\ now \in InviteInstants /\ guardian_invite[i] \in MadeRows /\ Nil \notin InviteInstants
    BY <2>1, HolderFacts
  <2>3. Accepted(i) /\ ~Revoked(i) /\ ~Bootstrapped(i)
    BY <1>2, <2>1 DEF InviteInv, DecisionStands
  <2>4. guardian_invite \in [Invite -> InviteRows]
    BY DEF InviteInv, InviteTypeOK
  <2>5. CASE email \in app_user
    <3>1. UNCHANGED <<app_user, tokens, guardian_invite>>
      BY <1>2, <2>5 DEF InsertUser
    <3>2. guardian_invite' = [guardian_invite EXCEPT ![i] = guardian_invite[i]]
      BY <2>4, <3>1
    <3>3. GoodWrite(guardian_invite[i], guardian_invite[i])
      BY <2>2, <2>3 DEF GoodWrite, Accepted, Revoked
    <3> QED
      BY <1>2, <2>1, <3>1, <3>2, <3>3, WriteStep
  <2>6. CASE email \notin app_user
    <3> DEFINE row == [guardian_invite[i] EXCEPT !.bootstrapped_at = now]
               session == <<i, email, FALSE>>
    <3>1. /\ app_user' = app_user \cup {email} /\ tokens' = tokens \cup {session}
          /\ guardian_invite' = [guardian_invite EXCEPT ![i] = row]
      BY <1>2, <2>6 DEF InsertUser
    <3>2. GoodWrite(guardian_invite[i], row)
      <4>1. row \in MadeRows
        BY <2>2, RowWrites
      <4>2. /\ row.email = email /\ row.bootstrapped_at = now
            /\ row.accepted_at = guardian_invite[i].accepted_at
            /\ row.revoked_at = guardian_invite[i].revoked_at
        BY <2>2 DEF MadeRows
      <4> QED
        BY <2>2, <2>3, <4>1, <4>2 DEF GoodWrite, Accepted, Revoked, Bootstrapped
    <3>3. email \in Email
      BY <2>2 DEF MadeRows
    <3>4. /\ session[1] = i /\ session[2] = email /\ session[3] = FALSE
          /\ session \in Invite \X Email \X BOOLEAN
      BY <2>2, <3>3
    <3>5. row.email = email /\ row.bootstrapped_at # Nil /\ row # NoInvite
      BY <2>2, RowWrites, RowKinds DEF MadeRows
    <3>6. guardian_invite'[i] = row
      BY <2>2, <2>4, <3>1
    <3> HIDE DEF row, session
    <3>7. /\ guardian_invite' \in [Invite -> InviteRows]
          /\ inviteLock' \in [Invite -> InviteRequest \cup {Nil}]
          /\ inviteReq' \in [InviteRequest -> InviteRequests]
          /\ \A j \in Invite : inviteLock'[j] # Nil =>
               LET p == inviteReq'[inviteLock'[j]] IN p.op \in InviteOps /\ p.held /\ p.inv = j
          /\ HolderOwnsRow' /\ DecisionStands' /\ InviteOneFate' /\ InviteInstantsFinal
      BY <1>2, <2>1, <3>1, <3>2, CommitStep
    <3>8. app_user' \subseteq Email /\ tokens' \subseteq Invite \X Email \X BOOLEAN
      BY <3>1, <3>3, <3>4 DEF InviteInv, InviteTypeOK
    <3>9. UNCHANGED inviteRest
      BY <1>2 DEF InviteCommit
    <3>10. InviteTypeOK'
      BY <3>7, <3>8, <3>9 DEF InviteInv, InviteTypeOK, inviteRest
    <3>11. TokensHaveRows'
      <4> SUFFICES ASSUME NEW t \in tokens'
                   PROVE  /\ guardian_invite'[t[1]] # NoInvite /\ guardian_invite'[t[1]].bootstrapped_at # Nil
                          /\ guardian_invite'[t[1]].email = t[2]
                          /\ t[2] \in app_user'
        BY DEF TokensHaveRows, Made, Bootstrapped
      <4>1. CASE t \in tokens
        BY <2>1, <3>1, <3>2, <4>1, SessionsKept
      <4>2. CASE t = session
        BY <3>1, <3>4, <3>5, <3>6, <4>2
      <4> QED
        BY <3>1, <4>1, <4>2
    <3>12. OneAccountPerInvite'
      <4>1. \A t \in tokens : t[1] # i /\ t[2] # email
        BY <2>3, <2>6 DEF InviteInv, TokensHaveRows
      <4>2. \A s, t \in tokens : s[1] = t[1] \/ s[2] = t[2] => s = t
        BY DEF InviteInv, OneAccountPerInvite
      <4>3. \A t \in tokens' : ~t[3]
        <5>1. \A t \in tokens : ~t[3]
          BY DEF InviteInv, OneAccountPerInvite
        <5>2. ~session[3]
          BY <3>4
        <5> QED
          BY <3>1, <5>1, <5>2, Zenon
      <4>4. \A s, t \in tokens' : s[1] = t[1] \/ s[2] = t[2] => s = t
        BY <3>1, <3>4, <4>1, <4>2
      <4> QED
        BY <4>3, <4>4 DEF OneAccountPerInvite
    <3> QED
      BY <3>7, <3>10, <3>11, <3>12 DEF InviteInv
  <2> QED
    BY <2>5, <2>6
<1> QED
  BY <1>1, <1>2 DEF bootstrapGuardianInvite

\* pool.ts, createGuardianInvite: a new row carries no instant, and nobody asked
\* about it before it was there.
LEMMA CreateStep ==
  ASSUME InviteInv, NEW r \in InviteRequest, createGuardianInvite(r)
  PROVE  InviteInv' /\ InviteInstantsFinal
<1> DEFINE q == inviteReq[r]
           i == q.inv
           row == [by |-> q.by, email |-> q.email, created_at |-> inviteClock,
                   accepted_at |-> Nil, revoked_at |-> Nil, bootstrapped_at |-> Nil]
<1>1. /\ inviteReq \in [InviteRequest -> InviteRequests]
      /\ guardian_invite \in [Invite -> InviteRows]
      /\ inviteClock \in InviteInstants
  BY DEF InviteInv, InviteTypeOK
<1>2. /\ q.op = "create" /\ ~Made(i)
      /\ guardian_invite' = [guardian_invite EXCEPT ![i] = row]
      /\ inviteReq' = [inviteReq EXCEPT ![r] = InviteIdle]
      /\ UNCHANGED <<inviteLock, app_user, tokens, inviteRest>>
  BY DEF createGuardianInvite
<1>3. q \in Creating
  BY <1>1, <1>2, RequestFacts
<1>4. i \in Invite /\ q.by \in Inviter /\ q.email \in Email /\ q.op \notin InviteOps
  BY <1>3 DEF Creating, InviteOps
<1>5. row \in MadeRows /\ row.accepted_at = Nil /\ row.revoked_at = Nil /\ row.bootstrapped_at = Nil
  BY <1>1, <1>4 DEF MadeRows
<1> HIDE DEF row, i, q
<1>6. row \in InviteRows /\ row # NoInvite
  BY <1>5, RowKinds
<1>7. InviteIdle \in InviteRequests /\ InviteIdle.op \notin InviteOps
  BY DEF InviteRequests, InviteIdle, InviteOps
<1>8. /\ guardian_invite' \in [Invite -> InviteRows] /\ guardian_invite'[i] = row
      /\ \A j \in Invite : j # i => guardian_invite'[j] = guardian_invite[j]
      /\ inviteReq' \in [InviteRequest -> InviteRequests] /\ inviteReq'[r] = InviteIdle
      /\ \A p \in InviteRequest : p # r => inviteReq'[p] = inviteReq[p]
  BY <1>1, <1>2, <1>4, <1>6, <1>7
<1>9. ASSUME NEW p \in InviteRequest, inviteReq[p].op \in InviteOps
      PROVE  /\ p # r /\ inviteReq[p].inv \in Invite
             /\ guardian_invite[inviteReq[p].inv] # NoInvite /\ inviteReq[p].inv # i
  <2>1. inviteReq[p].inv \in Invite
    BY <1>1, <1>9, RequestFacts, DecidingFacts
  <2>2. Made(inviteReq[p].inv)
    BY <1>9 DEF InviteInv, HolderOwnsRow
  <2> QED
    BY <1>2, <1>4, <1>9, <2>1, <2>2 DEF Made, q
<1>10. ASSUME NEW p \in InviteRequest, inviteReq'[p].op \in InviteOps
       PROVE  /\ inviteReq'[p] = inviteReq[p] /\ inviteReq[p].op \in InviteOps
              /\ guardian_invite'[inviteReq[p].inv] = guardian_invite[inviteReq[p].inv]
  <2>1. p # r
    BY <1>7, <1>8, <1>10
  <2> QED
    BY <1>8, <1>9, <1>10, <2>1
<1>11. HolderOwnsRow'
  <2> SUFFICES ASSUME NEW p \in InviteRequest, inviteReq'[p].op \in InviteOps
               PROVE  /\ Holds(p)' => inviteLock'[inviteReq'[p].inv] = p
                      /\ guardian_invite'[inviteReq'[p].inv] # NoInvite
    BY DEF HolderOwnsRow, Made, Holds
  <2>1. inviteReq'[p] = inviteReq[p]
    BY <1>10
  <2>2. Holds(p)' => Holds(p)
    BY <2>1, Zenon DEF Holds
  <2>3. Holds(p) => inviteLock[inviteReq[p].inv] = p
    BY DEF InviteInv, HolderOwnsRow
  <2> QED
    BY <1>2, <1>9, <1>10, <2>1, <2>2, <2>3
<1>12. DecisionStands'
  <2> SUFFICES ASSUME NEW p \in InviteRequest, Holds(p)'
               PROVE  LET old == guardian_invite'[inviteReq'[p].inv] IN
                      /\ inviteReq'[p].op = "accept" => ~(old.revoked_at # Nil) /\ ~(old.accepted_at # Nil)
                      /\ inviteReq'[p].op = "revoke" => ~(old.accepted_at # Nil)
                      /\ inviteReq'[p].op = "bootstrap" =>
                           old.accepted_at # Nil /\ ~(old.revoked_at # Nil) /\ ~(old.bootstrapped_at # Nil)
    BY DEF DecisionStands, Accepted, Revoked, Bootstrapped
  <2>1. inviteReq'[p].op \in InviteOps
    BY DEF Holds
  <2>2. inviteReq'[p] = inviteReq[p] /\ guardian_invite'[inviteReq[p].inv] = guardian_invite[inviteReq[p].inv]
    BY <1>10, <2>1
  <2>3. Holds(p)
    BY <2>2, Zenon DEF Holds
  <2> QED
    BY <2>2, <2>3 DEF InviteInv, DecisionStands, Accepted, Revoked, Bootstrapped
<1>13. ASSUME NEW j \in Invite, inviteLock'[j] # Nil
       PROVE  LET p == inviteReq'[inviteLock'[j]] IN p.op \in InviteOps /\ p.held /\ p.inv = j
  <2>1. LET p == inviteReq[inviteLock[j]] IN p.op \in InviteOps /\ p.held /\ p.inv = j
    BY <1>2, <1>13 DEF InviteInv, InviteTypeOK
  <2>2. inviteLock[j] \in InviteRequest /\ inviteLock[j] # r
    BY <1>2, <1>4, <1>13, <2>1 DEF InviteInv, InviteTypeOK, q
  <2>3. inviteReq'[inviteLock'[j]] = inviteReq[inviteLock[j]]
    BY <1>2, <1>8, <2>2
  <2> QED
    BY <2>1, <2>3
<1>14. InviteTypeOK'
  BY <1>2, <1>8, <1>13 DEF InviteInv, InviteTypeOK, inviteRest
<1>15. TokensHaveRows'
  <2> SUFFICES ASSUME NEW t \in tokens
               PROVE  /\ guardian_invite'[t[1]] # NoInvite /\ guardian_invite'[t[1]].bootstrapped_at # Nil
                      /\ guardian_invite'[t[1]].email = t[2]
                      /\ t[2] \in app_user'
    BY <1>2 DEF TokensHaveRows, Made, Bootstrapped
  <2>1. t[1] \in Invite
    BY DEF InviteInv, InviteTypeOK
  <2>2. guardian_invite[t[1]] # NoInvite
    BY DEF InviteInv, TokensHaveRows, Made
  <2>3. guardian_invite'[t[1]] = guardian_invite[t[1]]
    BY <1>2, <1>8, <2>1, <2>2 DEF Made
  <2> QED
    BY <1>2, <2>3 DEF InviteInv, TokensHaveRows, Made, Bootstrapped
<1>16. InviteOneFate' /\ OneAccountPerInvite'
  <2>1. OneAccountPerInvite'
    BY <1>2 DEF InviteInv, OneAccountPerInvite
  <2> SUFFICES ASSUME NEW j \in Invite, guardian_invite'[j] # NoInvite
               PROVE  LET new == guardian_invite'[j] IN
                      /\ ~(new.accepted_at # Nil /\ new.revoked_at # Nil)
                      /\ new.bootstrapped_at # Nil => new.accepted_at # Nil
    BY <2>1 DEF InviteOneFate, Made, Accepted, Revoked, Bootstrapped
  <2>2. CASE j = i
    BY <1>5, <1>8, <2>2
  <2>3. CASE j # i
    BY <1>8, <2>3 DEF InviteInv, InviteOneFate, Made, Accepted, Revoked, Bootstrapped
  <2> QED
    BY <2>2, <2>3
<1>17. InviteInstantsFinal
  <2> SUFFICES ASSUME NEW j \in Invite, guardian_invite[j] # NoInvite
               PROVE  guardian_invite'[j] = guardian_invite[j]
    BY DEF InviteInstantsFinal, Made
  <2> QED
    BY <1>2, <1>8 DEF Made
<1> QED
  BY <1>11, <1>12, <1>14, <1>15, <1>16, <1>17 DEF InviteInv

\* What happens around the requests touches no row.
LEMMA AroundStep ==
  ASSUME InviteInv,
         \/ \E email \in Email : RegistersElsewhere(email)
         \/ \E g \in Inviter : GuardianEnds(g)
         \/ InviteTick
  PROVE  InviteInv' /\ InviteInstantsFinal
<1>1. UNCHANGED <<guardian_invite, inviteLock, tokens, inviteReq>> /\ app_user \subseteq app_user'
  BY DEF RegistersElsewhere, GuardianEnds, InviteTick
<1>2. HolderOwnsRow' /\ DecisionStands'
  BY <1>1 DEF InviteInv, HolderOwnsRow, DecisionStands, Holds, Made, Accepted, Revoked, Bootstrapped
<1>3. TokensHaveRows' /\ InviteOneFate' /\ OneAccountPerInvite' /\ InviteInstantsFinal
  BY <1>1, RowsUntouched
<1>4. app_user' \subseteq Email /\ isLiveGuardian' \in [Inviter -> BOOLEAN] /\ inviteClock' \in InviteInstants
  <2>1. app_user' \subseteq Email
    BY DEF InviteInv, InviteTypeOK, RegistersElsewhere, GuardianEnds, InviteTick
  <2>2. isLiveGuardian' \in [Inviter -> BOOLEAN]
    <3>1. isLiveGuardian \in [Inviter -> BOOLEAN]
      BY DEF InviteInv, InviteTypeOK
    <3>2. \/ isLiveGuardian' = isLiveGuardian
          \/ \E g \in Inviter : isLiveGuardian' = [isLiveGuardian EXCEPT ![g] = FALSE]
      BY DEF RegistersElsewhere, GuardianEnds, InviteTick, inviteRest
    <3> QED
      BY <3>1, <3>2
  <2>3. inviteClock' \in InviteInstants
    BY DEF InviteInv, InviteTypeOK, RegistersElsewhere, GuardianEnds, InviteTick, inviteRest, InviteInstants
  <2> QED
    BY <2>1, <2>2, <2>3
<1>5. InviteTypeOK'
  BY <1>1, <1>4 DEF InviteInv, InviteTypeOK
<1> QED
  BY <1>2, <1>3, <1>5 DEF InviteInv

-----------------------------------------------------------------------------
(* Theorems. *)

LEMMA NextInvites == InviteInv /\ [InviteNext]_inviteVars => InviteInv' /\ InviteInstantsFinal
<1> SUFFICES ASSUME InviteInv, [InviteNext]_inviteVars PROVE InviteInv' /\ InviteInstantsFinal
  OBVIOUS
<1>1. ASSUME NEW r \in InviteRequest, InviteServe(r) PROVE InviteInv' /\ InviteInstantsFinal
  BY <1>1, CreateStep, AcceptStep, RevokeStep, BootstrapStep DEF InviteServe
<1>2. ASSUME NEW r \in InviteRequest, NEW i \in Invite, NEW g \in Inviter, NEW email \in Email,
             InviteRoute(r, g, i, email)
      PROVE  InviteInv' /\ InviteInstantsFinal
  BY <1>2, RouteStep
<1>3. ASSUME NEW r \in InviteRequest, NEW i \in Invite, NEW g \in Inviter,
             AcceptRoute(r, i, g) \/ RevokeRoute(r, i, g) \/ BootstrapRoute(r, i, g)
      PROVE  InviteInv' /\ InviteInstantsFinal
  BY <1>3, AskStep DEF AcceptRoute, RevokeRoute, BootstrapRoute, InviteOps
<1>4. CASE UNCHANGED inviteVars
  <2>1. UNCHANGED <<guardian_invite, inviteLock, tokens, inviteReq, isLiveGuardian, inviteClock, app_user>>
    BY <1>4 DEF inviteVars
  <2>2. TokensHaveRows' /\ InviteOneFate' /\ OneAccountPerInvite' /\ InviteInstantsFinal
    BY <2>1, RowsUntouched
  <2>3. InviteTypeOK'
    BY <2>1 DEF InviteInv, InviteTypeOK
  <2>4. HolderOwnsRow' /\ DecisionStands'
    BY <2>1, Zenon DEF InviteInv, HolderOwnsRow, DecisionStands, Holds, Made, Accepted, Revoked, Bootstrapped
  <2> QED
    BY <2>2, <2>3, <2>4 DEF InviteInv
<1> QED
  BY <1>1, <1>2, <1>3, <1>4, AroundStep DEF InviteNext

\* The inductive invariant holds in every behaviour: a request that holds an invite
\* decides alone, and what was decided stands.
THEOREM InviteInvariant == InviteSpec => []InviteInv
BY InitInvites, NextInvites, PTL DEF InviteSpec

\* pool.ts, accept-, revoke- and bootstrapGuardianInvite, however their requests
\* interleave: an invite is accepted or revoked and never both, only an accepted one
\* opens an account, and each opens at most one, for an address that had none.
THEOREM InviteAlwaysHolds == InviteSpec => []InviteHolds
<1>1. InviteInv => InviteHolds
  BY DEF InviteInv, InviteHolds
<1> QED
  BY <1>1, InviteInvariant, PTL

\* pool.ts: the instants of an invite are evidence; no step rewrites one.
THEOREM InstantsAreFinal == InviteSpec => [][InviteInstantsFinal]_inviteVars
BY InviteInvariant, NextInvites, PTL DEF InviteSpec

HIDE InviteAssumption

-----------------------------------------------------------------------------
(* Live calls. *)

StartPcs == {"gated", "minted", "notified", "logged"}
LogRows == [made : {TRUE}, startedBy : Caller, recorded : BOOLEAN, rang : BOOLEAN,
            ended : CallRequest \cup {"no"}]
CallTokens == [call : Call, who : Caller \cup {Child}, grant : Grants, recorded : BOOLEAN, was : Edges]
Gated == [pc : {"gated"}, who : Caller, call : Call, was : Edges]
Started == [pc : StartPcs \ {"gated"}, who : Caller, call : Call, was : Edges, rang : BOOLEAN,
            grant : Grants, recorded : BOOLEAN]
Asked == [pc : {"join", "found", "end"}, who : Caller \cup {Child}, call : Call, ended : BOOLEAN, was : Edges]
CallReqs == {CallIdle} \cup Gated \cup Started \cup Asked

CallTypes ==
  /\ edge \in [Caller -> Edges]
  /\ call_log \in [Call -> {NoCall} \cup LogRows]
  /\ rung \subseteq Call
  /\ callTokens \subseteq CallTokens
  /\ answers \subseteq Call \X {"call_not_found"} \X BOOLEAN
  /\ callReq \in [CallRequest -> CallReqs]

Starting(r) == callReq[r].pc \in StartPcs

\* routes.mjs, POST calls: the session id is new, so one request starts a call.
OneStarter ==
  \A r, s \in CallRequest : Starting(r) /\ Starting(s) /\ callReq[r].call = callReq[s].call => r = s

\* Until that request has answered, what the others find of the call is its own.
FirstWord(q) ==
  /\ Logged(q.call) =>
       q.pc = "logged" /\ call_log[q.call].recorded = q.recorded /\ call_log[q.call].startedBy = q.who
  /\ \A t \in callTokens : t.call = q.call => q.pc = "logged" /\ Logged(q.call)
  /\ q.pc \in {"gated", "minted"} => q.call \notin rung
  /\ q.pc \in {"notified", "logged"} => (q.rang <=> q.call \in rung)

HadTheRight(x) == x.who # Child => x.was.live /\ x.was.ladderStep # "none"

RequestSound(r) ==
  /\ Starting(r) => FirstWord(callReq[r])
  /\ callReq[r].pc = "found" => Logged(callReq[r].call)
  /\ callReq[r].pc # "idle" => HadTheRight(callReq[r])

\* A token says what the row says, and is one of its two parties'.
TokenSound(t) ==
  /\ HadTheRight(t)
  /\ Logged(t.call) =>
       t.recorded = call_log[t.call].recorded /\ t.who \in {Child, call_log[t.call].startedBy}

LogIsTrue == \A c \in Call : Logged(c) => (call_log[c].rang <=> c \in rung)

CallInv ==
  /\ CallTypes /\ OneStarter /\ LogIsTrue /\ RecordingToldAlike
  /\ \A r \in CallRequest : RequestSound(r)
  /\ \A t \in callTokens : TokenSound(t)

\* What a request knows.
LEMMA CallReqFacts ==
  ASSUME NEW q \in CallReqs
  PROVE  /\ q.pc = "idle" => q = CallIdle
         /\ q.pc = "gated" => q \in Gated
         /\ q.pc \in StartPcs \ {"gated"} => q \in Started
         /\ q.pc \in {"join", "found", "end"} => q \in Asked
         /\ q.pc # "idle" => q.call \in Call /\ q.who \in Caller \cup {Child} /\ q.was \in Edges
BY DEF CallReqs, CallIdle, Gated, Started, Asked, StartPcs

\* The request r becomes q and the others stay.
Becomes(r, q) ==
  /\ callReq' \in [CallRequest -> CallReqs]
  /\ callReq'[r] = q
  /\ \A p \in CallRequest : p # r => callReq'[p] = callReq[p]

LEMMA BecomesFacts ==
  ASSUME CallTypes, NEW r \in CallRequest, NEW q \in CallReqs, callReq' = [callReq EXCEPT ![r] = q]
  PROVE  Becomes(r, q)
<1>1. callReq \in [CallRequest -> CallReqs]
  BY DEF CallTypes
<1> QED
  BY <1>1 DEF Becomes

LEMMA AnsweredFacts ==
  ASSUME CallTypes, NEW r \in CallRequest, CallAnswered(r)
  PROVE  Becomes(r, CallIdle)
<1>1. CallIdle \in CallReqs
  BY DEF CallReqs
<1> QED
  BY <1>1, BecomesFacts DEF CallAnswered

LEMMA CallsBegin == CallsInit => CallInv
<1> SUFFICES ASSUME CallsInit PROVE CallInv
  OBVIOUS
<1>1. CallIdle \in CallReqs /\ CallIdle.pc = "idle" /\ ~NoCall.made
  BY DEF CallReqs, CallIdle, NoCall
<1>2. edge \in [Caller -> Edges]
  BY DEF CallsInit, Edges
<1>3. CallTypes
  BY <1>1, <1>2 DEF CallsInit, CallTypes
<1>4. \A r \in CallRequest : callReq[r].pc = "idle"
  BY <1>1 DEF CallsInit
<1>5. \A c \in Call : ~Logged(c)
  BY <1>1 DEF CallsInit, Logged
<1>6. callTokens = {}
  BY DEF CallsInit
<1> QED
  BY <1>3, <1>4, <1>5, <1>6 DEF CallInv, OneStarter, LogIsTrue, RecordingToldAlike, RequestSound, Starting, StartPcs

\* No second request starts a call by moving on.
LEMMA StarterMoves ==
  ASSUME OneStarter, NEW r \in CallRequest, NEW q, Becomes(r, q),
         q.pc \in StartPcs => Starting(r) /\ q.call = callReq[r].call
  PROVE  OneStarter'
<1>1. \A s \in CallRequest : Starting(s)' => Starting(s) /\ callReq'[s].call = callReq[s].call
  BY DEF Becomes, Starting
<1> QED
  BY <1>1 DEF OneStarter

\* A request that is done, or was never starting, leaves the rest as it was.
LEMMA OthersKept ==
  ASSUME CallInv, NEW r \in CallRequest, NEW q \in CallReqs, Becomes(r, q),
         call_log' = call_log, rung' = rung, callTokens' = callTokens,
         q.pc \in StartPcs => Starting(r) /\ q.call = callReq[r].call
  PROVE  /\ OneStarter' /\ LogIsTrue' /\ RecordingToldAlike'
         /\ \A p \in CallRequest : p # r => RequestSound(p)'
         /\ \A t \in callTokens' : TokenSound(t)'
<1>1. /\ OneStarter /\ LogIsTrue /\ RecordingToldAlike
      /\ \A p \in CallRequest : RequestSound(p)
      /\ \A t \in callTokens : TokenSound(t)
  BY DEF CallInv
<1>2. OneStarter'
  BY <1>1 DEF OneStarter, Starting, Becomes
<1>3. LogIsTrue' /\ RecordingToldAlike'
  BY <1>1 DEF LogIsTrue, RecordingToldAlike, Logged
<1>4. \A p \in CallRequest : p # r => RequestSound(p)'
  BY <1>1 DEF RequestSound, Starting, FirstWord, HadTheRight, Logged, Becomes
<1>5. \A t \in callTokens' : TokenSound(t)'
  BY <1>1 DEF TokenSound, HadTheRight, Logged
<1> QED
  BY <1>2, <1>3, <1>4, <1>5

\* Each of the ten steps.  POST calls: the generic gate.
LEMMA StartGateKeeps ==
  ASSUME CallInv, NEW r \in CallRequest, NEW g \in Caller, NEW c \in Call, StartGate(r, g, c)
  PROVE  CallInv'
<1> PICK q : q = [pc |-> "gated", who |-> g, call |-> c, was |-> edge[g]]
  OBVIOUS
<1>1. /\ CallTypes /\ callReq[r] = CallIdle /\ MayCall(g) /\ ~Logged(c) /\ c \notin rung
      /\ \A s \in CallRequest : callReq[s] # CallIdle => callReq[s].call # c
      /\ \A t \in callTokens : t.call # c
      /\ edge' = edge /\ call_log' = call_log /\ rung' = rung /\ callTokens' = callTokens /\ answers' = answers
      /\ callReq' = [callReq EXCEPT ![r] = q]
  BY DEF StartGate, CallInv
<1>2. q \in CallReqs /\ q.pc = "gated" /\ q.call = c /\ q.who = g /\ q.was = edge[g]
  <2>1. edge[g] \in Edges
    BY <1>1 DEF CallTypes
  <2> QED
    BY <2>1 DEF CallReqs, Gated
<1>3. Becomes(r, q)
  BY <1>1, <1>2, BecomesFacts
<1>4. \A s \in CallRequest : s # r /\ Starting(s) => callReq[s].call # c
  BY <1>1 DEF Starting, StartPcs, CallIdle
<1>5. OneStarter'
  BY <1>2, <1>3, <1>4 DEF CallInv, OneStarter, Starting, Becomes
<1>6. LogIsTrue' /\ RecordingToldAlike' /\ \A t \in callTokens' : TokenSound(t)'
  BY <1>1 DEF CallInv, LogIsTrue, RecordingToldAlike, TokenSound, HadTheRight, Logged
<1>7. \A p \in CallRequest : p # r => RequestSound(p)'
  BY <1>1, <1>3 DEF CallInv, RequestSound, Starting, FirstWord, HadTheRight, Logged, Becomes
<1>8. RequestSound(r)'
  <2>1. callReq'[r] = q
    BY <1>3 DEF Becomes
  <2>2. HadTheRight(q)
    BY <1>1, <1>2 DEF HadTheRight, MayCall
  <2>3. FirstWord(q)'
    BY <1>1, <1>2 DEF FirstWord, Logged
  <2> QED
    BY <1>2, <2>1, <2>2, <2>3 DEF RequestSound, HadTheRight
<1>9. CallTypes'
  BY <1>1, <1>3 DEF CallTypes, Becomes
<1> QED
  BY <1>5, <1>6, <1>7, <1>8, <1>9 DEF CallInv

\* A request is done: nothing is asked of it any more.
LEMMA DoneSound ==
  ASSUME NEW r \in CallRequest, Becomes(r, CallIdle)
  PROVE  RequestSound(r)'
<1>1. callReq'[r].pc = "idle"
  BY DEF Becomes, CallIdle
<1> QED
  BY <1>1 DEF RequestSound, Starting, StartPcs

\* createSession() and mintToken().
LEMMA StartSessionKeeps ==
  ASSUME CallInv, NEW r \in CallRequest, StartSession(r)
  PROVE  CallInv'
<1> PICK q : q = callReq[r]
  OBVIOUS
<1> PICK n :
      n = [pc |-> "minted", who |-> q.who, call |-> q.call, was |-> q.was, rang |-> FALSE,
           grant |-> deriveGrant(edge[q.who].observerOnly),
           recorded |-> edge[q.who].ladderStep = "supervised"]
  OBVIOUS
<1>1. /\ CallTypes /\ q.pc = "gated"
      /\ callReq' = [callReq EXCEPT ![r] = IF ~MayCall(q.who) THEN CallIdle ELSE n]
      /\ edge' = edge /\ call_log' = call_log /\ rung' = rung /\ callTokens' = callTokens /\ answers' = answers
  BY DEF StartSession, CallInv
<1>2. q \in Gated /\ q \in CallReqs /\ Starting(r) /\ RequestSound(r)
  <2>1. q \in CallReqs
    BY <1>1 DEF CallTypes
  <2> QED
    BY <1>1, <2>1, CallReqFacts DEF Starting, StartPcs, CallInv
<1>3. CASE ~MayCall(q.who)
  <2>1. Becomes(r, CallIdle)
    BY <1>1, <1>3, AnsweredFacts DEF CallAnswered
  <2>2. CallIdle \in CallReqs /\ CallIdle.pc \notin StartPcs
    BY DEF CallReqs, CallIdle, StartPcs
  <2>3. /\ OneStarter' /\ LogIsTrue' /\ RecordingToldAlike'
        /\ \A p \in CallRequest : p # r => RequestSound(p)'
        /\ \A t \in callTokens' : TokenSound(t)'
    BY <1>1, <2>1, <2>2, OthersKept
  <2>4. RequestSound(r)'
    BY <2>1, DoneSound
  <2>5. CallTypes'
    BY <1>1, <2>1 DEF CallTypes, Becomes
  <2> QED
    BY <2>3, <2>4, <2>5 DEF CallInv
<1>4. CASE MayCall(q.who)
  <2>1. /\ n \in CallReqs /\ n.pc = "minted" /\ n.call = q.call /\ n.who = q.who /\ n.was = q.was
    <3>1. q.who \in Caller /\ q.call \in Call /\ q.was \in Edges
      BY <1>2 DEF Gated
    <3>2. edge[q.who] \in Edges
      BY <1>1, <3>1 DEF CallTypes
    <3>3. deriveGrant(edge[q.who].observerOnly) \in Grants
      BY <3>2 DEF deriveGrant, Grants, Edges
    <3>4. n \in Started
      BY <3>1, <3>3 DEF Started, StartPcs
    <3> QED
      BY <3>4 DEF CallReqs
  <2>2. Becomes(r, n)
    BY <1>1, <1>4, <2>1, BecomesFacts
  <2>3. n.pc \in StartPcs => Starting(r) /\ n.call = callReq[r].call
    BY <1>2, <2>1
  <2>4. /\ OneStarter' /\ LogIsTrue' /\ RecordingToldAlike'
        /\ \A p \in CallRequest : p # r => RequestSound(p)'
        /\ \A t \in callTokens' : TokenSound(t)'
    BY <1>1, <2>1, <2>2, <2>3, OthersKept
  <2>5. RequestSound(r)'
    <3>1. callReq'[r] = n
      BY <2>2 DEF Becomes
    <3>2. FirstWord(q) /\ HadTheRight(q)
      BY <1>1, <1>2 DEF RequestSound
    <3>3. FirstWord(n)'
      BY <1>1, <2>1, <3>2 DEF FirstWord, Logged
    <3>4. HadTheRight(n)
      BY <2>1, <3>2 DEF HadTheRight
    <3> QED
      BY <2>1, <3>1, <3>3, <3>4 DEF RequestSound, HadTheRight
  <2>6. CallTypes'
    BY <1>1, <2>2 DEF CallTypes, Becomes
  <2> QED
    BY <2>4, <2>5, <2>6 DEF CallInv
<1> QED
  BY <1>3, <1>4

\* notifyDevices(): the child's devices ring, or none does.
LEMMA NotifyKeeps ==
  ASSUME CallInv, NEW r \in CallRequest, notifyCall(r)
  PROVE  CallInv'
<1> PICK q : q = callReq[r]
  OBVIOUS
<1>1. PICK rang \in BOOLEAN :
        /\ rung' = IF rang THEN rung \cup {q.call} ELSE rung
        /\ callReq' = [callReq EXCEPT ![r].pc = "notified", ![r].rang = rang]
  BY DEF notifyCall
<1>2. /\ CallTypes /\ q.pc = "minted"
      /\ edge' = edge /\ call_log' = call_log /\ callTokens' = callTokens /\ answers' = answers
  BY DEF notifyCall, CallInv
<1>3. q \in Started /\ q \in CallReqs /\ Starting(r) /\ RequestSound(r)
  <2>1. q \in CallReqs
    BY <1>2 DEF CallTypes
  <2> QED
    BY <1>2, <2>1, CallReqFacts DEF Starting, StartPcs, CallInv
<1> PICK n : n = [q EXCEPT !.pc = "notified", !.rang = rang]
  OBVIOUS
<1>4. /\ n \in CallReqs /\ n.pc = "notified" /\ n.call = q.call /\ n.who = q.who /\ n.was = q.was
      /\ n.rang = rang /\ n.call \in Call
  <2>1. n \in Started
    BY <1>3 DEF Started, StartPcs
  <2> QED
    BY <1>3, <2>1 DEF CallReqs, Started
<1>5. Becomes(r, n)
  <2>1. callReq' = [callReq EXCEPT ![r] = n]
    BY <1>1
  <2> QED
    BY <1>2, <1>4, <2>1, BecomesFacts
<1>6. /\ OneStarter /\ LogIsTrue /\ RecordingToldAlike
      /\ \A p \in CallRequest : RequestSound(p)
      /\ \A t \in callTokens : TokenSound(t)
  BY DEF CallInv
<1>7. FirstWord(q) /\ HadTheRight(q)
  BY <1>2, <1>3, <1>6 DEF RequestSound
<1>8. ~Logged(q.call) /\ q.call \notin rung
  BY <1>2, <1>7 DEF FirstWord
<1>9. OneStarter'
  BY <1>3, <1>4, <1>5, <1>6, StarterMoves
<1>10. LogIsTrue' /\ RecordingToldAlike'
  BY <1>1, <1>2, <1>6, <1>8 DEF LogIsTrue, RecordingToldAlike, Logged
<1>11. ASSUME NEW p \in CallRequest, p # r
       PROVE  RequestSound(p)'
  <2>1. callReq'[p] = callReq[p] /\ (Starting(p) => callReq[p].call # q.call)
    BY <1>3, <1>5, <1>6, <1>11 DEF Becomes, OneStarter
  <2>2. Starting(p) => (callReq[p].call \in rung' <=> callReq[p].call \in rung)
    BY <1>1, <2>1
  <2> QED
    BY <1>2, <1>6, <2>1, <2>2 DEF RequestSound, Starting, FirstWord, HadTheRight, Logged
<1>12. RequestSound(r)'
  <2>1. callReq'[r] = n
    BY <1>5 DEF Becomes
  <2>2. FirstWord(n)'
    BY <1>1, <1>2, <1>4, <1>7, <1>8 DEF FirstWord, Logged
  <2>3. HadTheRight(n)
    BY <1>4, <1>7 DEF HadTheRight
  <2> QED
    BY <1>4, <2>1, <2>2, <2>3 DEF RequestSound, HadTheRight
<1>13. \A t \in callTokens' : TokenSound(t)'
  BY <1>2, <1>6 DEF TokenSound, HadTheRight, Logged
<1>14. CallTypes'
  BY <1>1, <1>2, <1>4, <1>5 DEF CallTypes, Becomes
<1> QED
  BY <1>9, <1>10, <1>11, <1>12, <1>13, <1>14 DEF CallInv

\* recordCallStart(): a row that says what the request knows, or none.
LEMMA RecordStartKeeps ==
  ASSUME CallInv, NEW r \in CallRequest, recordCallStart(r)
  PROVE  CallInv' /\ \A c \in Call : Ended(c) => call_log'[c] = call_log[c]
<1> PICK q : q = callReq[r]
  OBVIOUS
<1> PICK row : row = [made |-> TRUE, startedBy |-> q.who, recorded |-> q.recorded, rang |-> q.rang,
                      ended |-> "no"]
  OBVIOUS
<1>1. /\ CallTypes /\ q.pc = "notified"
      /\ call_log' = [call_log EXCEPT ![q.call] = row] \/ call_log' = call_log
      /\ callReq' = [callReq EXCEPT ![r].pc = "logged"]
      /\ edge' = edge /\ rung' = rung /\ callTokens' = callTokens /\ answers' = answers
  BY DEF recordCallStart, CallInv, CallGoto, LoggedRang
<1>2. q \in Started /\ q \in CallReqs /\ Starting(r) /\ RequestSound(r)
  <2>1. q \in CallReqs
    BY <1>1 DEF CallTypes
  <2> QED
    BY <1>1, <2>1, CallReqFacts DEF Starting, StartPcs, CallInv
<1> PICK n : n = [q EXCEPT !.pc = "logged"]
  OBVIOUS
<1>3. /\ n \in CallReqs /\ n.pc = "logged" /\ n.call = q.call /\ n.who = q.who /\ n.was = q.was
      /\ n.recorded = q.recorded /\ n.rang = q.rang /\ q.call \in Call
  <2>1. n \in Started
    BY <1>2 DEF Started, StartPcs
  <2> QED
    BY <1>2, <2>1 DEF CallReqs, Started
<1>4. Becomes(r, n)
  <2>1. callReq' = [callReq EXCEPT ![r] = n]
    BY <1>1
  <2> QED
    BY <1>1, <1>3, <2>1, BecomesFacts
<1>5. /\ OneStarter /\ LogIsTrue /\ RecordingToldAlike
      /\ \A p \in CallRequest : RequestSound(p)
      /\ \A t \in callTokens : TokenSound(t)
  BY DEF CallInv
<1>6. FirstWord(q) /\ HadTheRight(q)
  BY <1>1, <1>2, <1>5 DEF RequestSound
<1>7. /\ ~Logged(q.call) /\ (q.rang <=> q.call \in rung) /\ \A t \in callTokens : t.call # q.call
  BY <1>1, <1>6 DEF FirstWord
<1>8. /\ \A c \in Call : c # q.call => call_log'[c] = call_log[c]
      /\ call_log'[q.call] = row \/ call_log'[q.call] = call_log[q.call]
  BY <1>1, <1>3 DEF CallTypes
<1>9. row \in LogRows /\ row.startedBy = q.who /\ row.recorded = q.recorded /\ row.rang = q.rang
  BY <1>2 DEF Started, LogRows
<1>10. OneStarter'
  BY <1>2, <1>3, <1>4, <1>5, StarterMoves
<1>11. LogIsTrue'
  <2> SUFFICES ASSUME NEW c \in Call, call_log'[c].made
               PROVE  call_log'[c].rang <=> c \in rung
    BY <1>1 DEF LogIsTrue, Logged
  <2>1. CASE c # q.call
    BY <1>5, <1>8, <2>1 DEF LogIsTrue, Logged
  <2>2. CASE c = q.call
    <3>1. call_log'[c] = row
      BY <1>7, <1>8, <2>2 DEF Logged
    <3> QED
      BY <1>7, <1>9, <2>2, <3>1
  <2> QED
    BY <2>1, <2>2
<1>12. RecordingToldAlike'
  BY <1>1, <1>5 DEF RecordingToldAlike
<1>13. ASSUME NEW p \in CallRequest, p # r
       PROVE  RequestSound(p)'
  <2>1. callReq'[p] = callReq[p] /\ (Starting(p) => callReq[p].call # q.call)
    BY <1>2, <1>4, <1>5, <1>13 DEF Becomes, OneStarter
  <2>2. callReq[p] \in CallReqs /\ RequestSound(p)
    BY <1>1, <1>5 DEF CallTypes
  <2>3. callReq[p].pc # "idle" => callReq[p].call \in Call
    BY <2>2, CallReqFacts
  <2>4. Starting(p) => call_log'[callReq[p].call] = call_log[callReq[p].call]
    BY <1>8, <2>1, <2>3 DEF Starting, StartPcs
  <2>5. Starting(p) => FirstWord(callReq[p])'
    BY <1>1, <2>1, <2>2, <2>4 DEF RequestSound, FirstWord, Logged
  <2>6. callReq[p].pc = "found" => call_log'[callReq[p].call].made
    <3> SUFFICES ASSUME callReq[p].pc = "found"
                 PROVE  call_log'[callReq[p].call].made
      OBVIOUS
    <3>1. call_log[callReq[p].call].made /\ callReq[p].call \in Call
      BY <2>2, <2>3 DEF RequestSound, Logged
    <3>2. callReq[p].call # q.call
      BY <1>7, <3>1 DEF Logged
    <3> QED
      BY <1>8, <3>1, <3>2
  <2> QED
    BY <2>1, <2>2, <2>5, <2>6 DEF RequestSound, Starting, HadTheRight, Logged
<1>14. RequestSound(r)'
  <2>1. callReq'[r] = n
    BY <1>4 DEF Becomes
  <2>2. FirstWord(n)'
    BY <1>1, <1>3, <1>7, <1>8, <1>9 DEF FirstWord, Logged
  <2>3. HadTheRight(n)
    BY <1>3, <1>6 DEF HadTheRight
  <2> QED
    BY <1>3, <2>1, <2>2, <2>3 DEF RequestSound, HadTheRight
<1>15. ASSUME NEW t \in callTokens'
       PROVE  TokenSound(t)'
  <2>1. t \in callTokens /\ TokenSound(t) /\ t.call \in Call /\ t.call # q.call
    BY <1>1, <1>5, <1>7 DEF CallTypes, CallTokens
  <2>2. call_log'[t.call] = call_log[t.call]
    BY <1>8, <2>1
  <2> QED
    BY <2>1, <2>2 DEF TokenSound, HadTheRight, Logged
<1>16. CallTypes'
  <2>1. call_log' \in [Call -> {NoCall} \cup LogRows]
    BY <1>1, <1>9 DEF CallTypes
  <2> QED
    BY <1>1, <1>4, <2>1 DEF CallTypes, Becomes
<1>17. \A c \in Call : Ended(c) => call_log'[c] = call_log[c]
  BY <1>7, <1>8 DEF Ended
<1> QED
  BY <1>10, <1>11, <1>12, <1>13, <1>14, <1>15, <1>16, <1>17 DEF CallInv

\* POST calls: the answer, with a token if LiveKit is there to give one for.
LEMMA StartReplyKeeps ==
  ASSUME CallInv, NEW r \in CallRequest, StartReply(r)
  PROVE  CallInv'
<1> PICK q : q = callReq[r]
  OBVIOUS
<1> PICK tok : tok = [call |-> q.call, who |-> q.who, grant |-> q.grant, recorded |-> q.recorded, was |-> q.was]
  OBVIOUS
<1>1. /\ CallTypes /\ q.pc = "logged" /\ CallAnswered(r)
      /\ callTokens' \subseteq callTokens \cup {tok}
      /\ edge' = edge /\ call_log' = call_log /\ rung' = rung /\ answers' = answers
  BY DEF StartReply, CallInv
<1>2. q \in Started /\ Starting(r) /\ RequestSound(r)
  <2>1. q \in CallReqs
    BY <1>1 DEF CallTypes
  <2> QED
    BY <1>1, <2>1, CallReqFacts DEF Starting, StartPcs, CallInv
<1>3. Becomes(r, CallIdle)
  BY <1>1, AnsweredFacts
<1>4. /\ OneStarter /\ LogIsTrue /\ RecordingToldAlike
      /\ \A p \in CallRequest : RequestSound(p)
      /\ \A t \in callTokens : TokenSound(t)
  BY DEF CallInv
<1>5. FirstWord(q) /\ HadTheRight(q)
  BY <1>1, <1>2, <1>4 DEF RequestSound
<1>6. /\ tok \in CallTokens /\ tok.call = q.call /\ tok.who = q.who /\ tok.recorded = q.recorded /\ tok.was = q.was
  BY <1>2 DEF Started, CallTokens
<1>7. TokenSound(tok)
  BY <1>5, <1>6 DEF TokenSound, HadTheRight, FirstWord
<1>8. \A t \in callTokens : t.call = q.call => t.recorded = q.recorded
  BY <1>4, <1>5 DEF TokenSound, FirstWord
<1>9. RecordingToldAlike'
  BY <1>1, <1>4, <1>6, <1>8 DEF RecordingToldAlike
<1>10. OneStarter' /\ LogIsTrue'
  <2>1. CallIdle.pc \notin StartPcs
    BY DEF CallIdle, StartPcs
  <2> QED
    BY <1>1, <1>3, <1>4, <2>1, StarterMoves DEF LogIsTrue, Logged
<1>11. ASSUME NEW p \in CallRequest, p # r
       PROVE  RequestSound(p)'
  <2>1. callReq'[p] = callReq[p] /\ (Starting(p) => callReq[p].call # q.call)
    BY <1>2, <1>3, <1>4, <1>11 DEF Becomes, OneStarter
  <2>2. Starting(p) => FirstWord(callReq[p])'
    BY <1>1, <1>4, <1>6, <2>1 DEF RequestSound, FirstWord, Logged
  <2> QED
    BY <1>1, <1>4, <2>1, <2>2 DEF RequestSound, Starting, HadTheRight, Logged
<1>12. \A t \in callTokens' : TokenSound(t)'
  BY <1>1, <1>4, <1>7 DEF TokenSound, HadTheRight, Logged
<1>13. CallTypes'
  BY <1>1, <1>3, <1>6 DEF CallTypes, Becomes
<1> QED
  BY <1>3, <1>9, <1>10, <1>11, <1>12, <1>13, DoneSound DEF CallInv

LEMMA EndedIsBoolean == \A c : Ended(c) \in BOOLEAN
BY Zenon DEF Ended

\* POST calls/:sessionId/join or /end: the gate, and what the caller reads of the call.
LEMMA AskCallKeeps ==
  ASSUME CallInv, NEW r \in CallRequest, NEW pc \in {"join", "end"}, NEW who \in Caller \cup {Child},
         NEW c \in Call, AskCall(r, pc, who, c)
  PROVE  CallInv'
<1> PICK q : q = [pc |-> pc, who |-> who, call |-> c, ended |-> Ended(c),
                  was |-> IF who = Child THEN OwnScope ELSE edge[who]]
  OBVIOUS
<1>1. /\ CallTypes /\ (who # Child => MayCall(who)) /\ callReq' = [callReq EXCEPT ![r] = q]
      /\ edge' = edge /\ call_log' = call_log /\ rung' = rung /\ callTokens' = callTokens /\ answers' = answers
  BY DEF AskCall, CallInv
<1>2. q \in CallReqs /\ q.pc = pc /\ q.who = who /\ (who # Child => q.was = edge[who])
  <2>1. (IF who = Child THEN OwnScope ELSE edge[who]) \in Edges
    BY <1>1 DEF CallTypes, OwnScope, Edges, Step
  <2>2. Ended(c) \in BOOLEAN
    BY EndedIsBoolean
  <2>3. q \in Asked
    BY <2>1, <2>2 DEF Asked
  <2> QED
    BY <2>3 DEF CallReqs
<1>3. Becomes(r, q) /\ q.pc \notin StartPcs
  BY <1>1, <1>2, BecomesFacts DEF StartPcs
<1>4. /\ OneStarter' /\ LogIsTrue' /\ RecordingToldAlike'
      /\ \A p \in CallRequest : p # r => RequestSound(p)'
      /\ \A t \in callTokens' : TokenSound(t)'
  BY <1>1, <1>2, <1>3, OthersKept
<1>5. HadTheRight(q)
  BY <1>1, <1>2 DEF HadTheRight, MayCall
<1>6. RequestSound(r)'
  <2>1. callReq'[r] = q
    BY <1>3 DEF Becomes
  <2> QED
    BY <1>2, <1>3, <1>5, <2>1 DEF RequestSound, Starting, HadTheRight
<1>7. CallTypes'
  BY <1>1, <1>3 DEF CallTypes, Becomes
<1> QED
  BY <1>4, <1>6, <1>7 DEF CallInv

\* callSessionFor(): a call that is there and has not ended.
LEMMA SessionForKeeps ==
  ASSUME CallInv, NEW r \in CallRequest, callSessionFor(r)
  PROVE  CallInv'
<1> PICK q : q = callReq[r]
  OBVIOUS
<1>1. /\ CallTypes /\ q.pc = "join" /\ q \in CallReqs /\ q \in Asked /\ q.call \in Call /\ RequestSound(r)
      /\ edge' = edge /\ call_log' = call_log /\ rung' = rung /\ callTokens' = callTokens
  BY CallReqFacts DEF callSessionFor, CallInv, CallTypes
<1>2. CASE Logged(q.call) /\ CallGoto(r, "found") /\ answers' = answers
  <2> PICK n : n = [q EXCEPT !.pc = "found"]
    OBVIOUS
  <2>1. n \in CallReqs /\ n.pc = "found" /\ n.call = q.call /\ n.who = q.who /\ n.was = q.was
    <3>1. n \in Asked
      BY <1>1 DEF Asked
    <3> QED
      BY <1>1, <3>1 DEF CallReqs, Asked
  <2>2. Becomes(r, n) /\ n.pc \notin StartPcs
    <3>1. callReq' = [callReq EXCEPT ![r] = n]
      BY <1>2 DEF CallGoto
    <3> QED
      BY <1>1, <2>1, <3>1, BecomesFacts DEF StartPcs
  <2>3. /\ OneStarter' /\ LogIsTrue' /\ RecordingToldAlike'
        /\ \A p \in CallRequest : p # r => RequestSound(p)'
        /\ \A t \in callTokens' : TokenSound(t)'
    BY <1>1, <2>1, <2>2, OthersKept
  <2>4. RequestSound(r)'
    <3>1. callReq'[r] = n
      BY <2>2 DEF Becomes
    <3>2. HadTheRight(n)
      BY <1>1, <2>1 DEF RequestSound, HadTheRight
    <3> QED
      BY <1>1, <1>2, <2>1, <2>2, <3>1, <3>2 DEF RequestSound, Starting, HadTheRight, Logged
  <2>5. CallTypes'
    BY <1>1, <1>2, <2>2 DEF CallTypes, Becomes
  <2> QED
    BY <2>3, <2>4, <2>5 DEF CallInv
<1>3. CASE /\ answers' = answers \cup {<<q.call, "call_not_found", Ended(q.call)>>}
           /\ CallAnswered(r)
  <2>1. Becomes(r, CallIdle)
    BY <1>1, <1>3, AnsweredFacts
  <2>2. CallIdle \in CallReqs /\ CallIdle.pc \notin StartPcs
    BY DEF CallReqs, CallIdle, StartPcs
  <2>3. /\ OneStarter' /\ LogIsTrue' /\ RecordingToldAlike'
        /\ \A p \in CallRequest : p # r => RequestSound(p)'
        /\ \A t \in callTokens' : TokenSound(t)'
    BY <1>1, <2>1, <2>2, OthersKept
  <2>4. CallTypes'
    <3>1. Ended(q.call) \in BOOLEAN
      BY EndedIsBoolean
    <3>2. answers' \subseteq Call \X {"call_not_found"} \X BOOLEAN
      BY <1>1, <1>3, <3>1 DEF CallTypes
    <3> QED
      BY <1>1, <2>1, <3>2 DEF CallTypes, Becomes
  <2> QED
    BY <2>1, <2>3, <2>4, DoneSound DEF CallInv
<1> QED
  BY <1>1, <1>2, <1>3 DEF callSessionFor

\* mintToken() for one who joins: the row says who she is and what is recorded.
LEMMA JoinMintKeeps ==
  ASSUME CallInv, NEW r \in CallRequest, JoinMint(r)
  PROVE  CallInv'
<1> PICK q : q = callReq[r]
  OBVIOUS
<1> PICK row : row = call_log[q.call]
  OBVIOUS
<1> PICK tok : tok = [call |-> q.call, who |-> q.who, grant |-> deriveGrant(FALSE),
                      recorded |-> row.recorded, was |-> q.was]
  OBVIOUS
<1>1. /\ CallTypes /\ q.pc = "found" /\ CallAnswered(r) /\ RequestSound(r)
      /\ \/ callTokens' = callTokens
         \/ q.who \in {Child, row.startedBy} /\ callTokens' = callTokens \cup {tok}
      /\ edge' = edge /\ call_log' = call_log /\ rung' = rung /\ answers' = answers
  BY DEF JoinMint, CallInv, RecordedOf
<1>2. q \in Asked /\ q.call \in Call /\ Logged(q.call) /\ HadTheRight(q)
  <2>1. q \in CallReqs
    BY <1>1 DEF CallTypes
  <2> QED
    BY <1>1, <2>1, CallReqFacts DEF RequestSound
<1>3. Becomes(r, CallIdle)
  BY <1>1, AnsweredFacts
<1>4. /\ OneStarter /\ LogIsTrue /\ RecordingToldAlike
      /\ \A p \in CallRequest : RequestSound(p)
      /\ \A t \in callTokens : TokenSound(t)
  BY DEF CallInv
<1>5. row \in LogRows
  BY <1>1, <1>2 DEF CallTypes, Logged, NoCall
<1>6. tok \in CallTokens /\ tok.call = q.call /\ tok.who = q.who /\ tok.recorded = row.recorded /\ tok.was = q.was
  <2>1. deriveGrant(FALSE) \in Grants
    BY DEF deriveGrant, Grants
  <2> QED
    BY <1>2, <1>5, <2>1 DEF Asked, CallTokens, LogRows
<1>7. q.who \in {Child, row.startedBy} => TokenSound(tok)
  BY <1>2, <1>6 DEF TokenSound, HadTheRight
<1>8. \A t \in callTokens : t.call = q.call => t.recorded = row.recorded
  BY <1>2, <1>4 DEF TokenSound
<1>9. RecordingToldAlike'
  <2>1. CASE callTokens' = callTokens
    BY <1>4, <2>1 DEF RecordingToldAlike
  <2>2. CASE callTokens' = callTokens \cup {tok}
    <3> SUFFICES ASSUME NEW s \in callTokens', NEW t \in callTokens', s.call = t.call
                 PROVE  s.recorded = t.recorded
      BY DEF RecordingToldAlike
    <3>1. CASE s \in callTokens /\ t \in callTokens
      BY <1>4, <3>1 DEF RecordingToldAlike
    <3>2. CASE s = tok /\ t = tok
      BY <3>2
    <3>3. CASE s = tok /\ t \in callTokens
      BY <1>6, <1>8, <3>3
    <3>4. CASE s \in callTokens /\ t = tok
      BY <1>6, <1>8, <3>4
    <3> QED
      BY <2>2, <3>1, <3>2, <3>3, <3>4
  <2> QED
    BY <1>1, <2>1, <2>2
<1>10. OneStarter' /\ LogIsTrue'
  <2>1. CallIdle.pc \notin StartPcs
    BY DEF CallIdle, StartPcs
  <2> QED
    BY <1>1, <1>3, <1>4, <2>1, StarterMoves DEF LogIsTrue, Logged
<1>11. ASSUME NEW p \in CallRequest, p # r
       PROVE  RequestSound(p)'
  <2>1. callReq'[p] = callReq[p]
    BY <1>3, <1>11 DEF Becomes
  <2>2. Starting(p) => FirstWord(callReq[p])'
    <3> SUFFICES ASSUME Starting(p)
                 PROVE  FirstWord(callReq[p])'
      OBVIOUS
    <3>1. FirstWord(callReq[p])
      BY <1>4 DEF RequestSound
    <3>2. \A t \in callTokens' : t.call = callReq[p].call => callReq[p].pc = "logged" /\ Logged(callReq[p].call)
      BY <1>1, <1>2, <1>6, <3>1 DEF FirstWord
    <3> QED
      BY <1>1, <2>1, <3>1, <3>2 DEF FirstWord, Logged
  <2> QED
    BY <1>1, <1>4, <2>1, <2>2 DEF RequestSound, Starting, HadTheRight, Logged
<1>12. \A t \in callTokens' : TokenSound(t)'
  BY <1>1, <1>4, <1>7 DEF TokenSound, HadTheRight, Logged
<1>13. CallTypes'
  BY <1>1, <1>3, <1>6 DEF CallTypes, Becomes
<1> QED
  BY <1>3, <1>9, <1>10, <1>11, <1>12, <1>13, DoneSound DEF CallInv

\* recordCallEnd(): WHERE ended_at IS NULL.
LEMMA RecordEndKeeps ==
  ASSUME CallInv, NEW r \in CallRequest, recordCallEnd(r)
  PROVE  CallInv' /\ \A c \in Call : Ended(c) => call_log'[c] = call_log[c]
<1> PICK q : q = callReq[r]
  OBVIOUS
<1>1. /\ CallTypes /\ q.pc = "end" /\ CallAnswered(r) /\ q.call \in Call
      /\ call_log' = IF EndsCall(q.call) THEN [call_log EXCEPT ![q.call].ended = r] ELSE call_log
      /\ edge' = edge /\ rung' = rung /\ callTokens' = callTokens /\ answers' = answers
  BY CallReqFacts DEF recordCallEnd, CallInv, CallTypes
<1>2. Becomes(r, CallIdle)
  BY <1>1, AnsweredFacts
<1>3. /\ OneStarter /\ LogIsTrue /\ RecordingToldAlike
      /\ \A p \in CallRequest : RequestSound(p)
      /\ \A t \in callTokens : TokenSound(t)
  BY DEF CallInv
<1>4. ASSUME NEW c \in Call
      PROVE  /\ call_log'[c] \in {NoCall} \cup LogRows
             /\ call_log'[c].made = call_log[c].made
             /\ call_log[c].made => /\ call_log'[c].recorded = call_log[c].recorded
                                    /\ call_log'[c].startedBy = call_log[c].startedBy
                                    /\ call_log'[c].rang = call_log[c].rang
             /\ Ended(c) => call_log'[c] = call_log[c]
  <2> PICK row : row = call_log[c]
    OBVIOUS
  <2>1. row \in {NoCall} \cup LogRows
    BY <1>1 DEF CallTypes
  <2>2. CASE c = q.call /\ EndsCall(q.call)
    <3> PICK n : n = [row EXCEPT !.ended = r]
      OBVIOUS
    <3>1. row \in LogRows /\ ~Ended(c)
      BY <2>1, <2>2 DEF EndsCall, Logged, NoCall
    <3>2. /\ n \in LogRows /\ n.made = row.made /\ n.recorded = row.recorded
          /\ n.startedBy = row.startedBy /\ n.rang = row.rang
      BY <3>1 DEF LogRows
    <3>3. call_log'[c] = n
      BY <1>1, <2>2 DEF CallTypes
    <3> QED
      BY <3>1, <3>2, <3>3
  <2>3. CASE ~(c = q.call /\ EndsCall(q.call))
    <3>1. call_log'[c] = row
      BY <1>1, <2>3 DEF CallTypes
    <3> QED
      BY <2>1, <3>1
  <2> QED
    BY <2>2, <2>3
<1>5. OneStarter' /\ RecordingToldAlike'
  <2>1. CallIdle.pc \notin StartPcs
    BY DEF CallIdle, StartPcs
  <2> QED
    BY <1>1, <1>2, <1>3, <2>1, StarterMoves DEF RecordingToldAlike
<1>6. LogIsTrue'
  BY <1>1, <1>3, <1>4 DEF LogIsTrue, Logged
<1>7. ASSUME NEW p \in CallRequest, p # r
      PROVE  RequestSound(p)'
  <2>1. callReq'[p] = callReq[p] /\ callReq[p] \in CallReqs /\ RequestSound(p)
    BY <1>1, <1>2, <1>3, <1>7 DEF Becomes, CallTypes
  <2>2. callReq[p].pc # "idle" => callReq[p].call \in Call
    BY <2>1, CallReqFacts
  <2>3. Starting(p) => FirstWord(callReq[p])'
    <3> SUFFICES ASSUME Starting(p)
                 PROVE  FirstWord(callReq[p])'
      OBVIOUS
    <3>1. FirstWord(callReq[p]) /\ callReq[p].call \in Call
      BY <2>1, <2>2 DEF RequestSound, Starting, StartPcs
    <3> QED
      BY <1>1, <1>4, <2>1, <3>1 DEF FirstWord, Logged
  <2>4. callReq[p].pc = "found" => call_log'[callReq[p].call].made
    BY <1>4, <2>1, <2>2 DEF RequestSound, Logged
  <2> QED
    BY <2>1, <2>3, <2>4 DEF RequestSound, Starting, HadTheRight, Logged
<1>8. ASSUME NEW t \in callTokens'
      PROVE  TokenSound(t)'
  <2>1. TokenSound(t) /\ t.call \in Call
    BY <1>1, <1>3 DEF CallTypes, CallTokens
  <2> QED
    BY <1>4, <2>1 DEF TokenSound, HadTheRight, Logged
<1>9. CallTypes'
  <2>1. call_log' \in [Call -> {NoCall} \cup LogRows]
    <3>1. DOMAIN call_log' = Call /\ call_log' = [c \in Call |-> call_log'[c]]
      BY <1>1 DEF CallTypes
    <3> QED
      BY <1>4, <3>1
  <2> QED
    BY <1>1, <1>2, <2>1 DEF CallTypes, Becomes
<1> QED
  BY <1>2, <1>4, <1>5, <1>6, <1>7, <1>8, <1>9, DoneSound DEF CallInv

\* An edge changes: what was read of it stands.
LEMMA EdgeChangeKeeps ==
  ASSUME CallInv, NEW g \in Caller, EdgeChanges(g)
  PROVE  CallInv'
<1>1. /\ CallTypes
      /\ \/ edge' = [edge EXCEPT ![g].live = FALSE]
         \/ \E s \in Step : edge' = [edge EXCEPT ![g].ladderStep = s]
      /\ call_log' = call_log /\ rung' = rung /\ callTokens' = callTokens /\ answers' = answers
      /\ callReq' = callReq
  BY DEF EdgeChanges, CallInv
<1>2. edge' \in [Caller -> Edges]
  <2>1. edge[g] \in Edges
    BY <1>1 DEF CallTypes
  <2>2. [edge[g] EXCEPT !.live = FALSE] \in Edges /\ \A s \in Step : [edge[g] EXCEPT !.ladderStep = s] \in Edges
    BY <2>1 DEF Edges
  <2> QED
    BY <1>1, <2>2 DEF CallTypes
<1>3. CallTypes'
  BY <1>1, <1>2 DEF CallTypes
<1> QED
  BY <1>1, <1>3 DEF CallInv, OneStarter, LogIsTrue, RecordingToldAlike, RequestSound, TokenSound, Starting,
    FirstWord, HadTheRight, Logged

LEMMA NextCalls ==
  CallInv /\ [CallsNext]_callVars => CallInv' /\ \A c \in Call : Ended(c) => call_log'[c] = call_log[c]
<1> SUFFICES ASSUME CallInv, [CallsNext]_callVars
             PROVE  CallInv' /\ \A c \in Call : Ended(c) => call_log'[c] = call_log[c]
  OBVIOUS
<1>1. ASSUME NEW r \in CallRequest, CallServe(r)
      PROVE  CallInv' /\ \A c \in Call : Ended(c) => call_log'[c] = call_log[c]
  <2>1. CASE StartSession(r)
    BY <2>1, StartSessionKeeps DEF StartSession
  <2>2. CASE notifyCall(r)
    BY <2>2, NotifyKeeps DEF notifyCall
  <2>3. CASE recordCallStart(r)
    BY <2>3, RecordStartKeeps
  <2>4. CASE StartReply(r)
    BY <2>4, StartReplyKeeps DEF StartReply
  <2>5. CASE callSessionFor(r)
    BY <2>5, SessionForKeeps DEF callSessionFor
  <2>6. CASE JoinMint(r)
    BY <2>6, JoinMintKeeps DEF JoinMint
  <2>7. CASE recordCallEnd(r)
    BY <2>7, RecordEndKeeps
  <2> QED
    BY <1>1, <2>1, <2>2, <2>3, <2>4, <2>5, <2>6, <2>7 DEF CallServe
<1>2. ASSUME NEW r \in CallRequest, NEW c \in Call, NEW g \in Caller, StartGate(r, g, c)
      PROVE  CallInv' /\ call_log' = call_log
  BY <1>2, StartGateKeeps DEF StartGate
<1>3. ASSUME NEW r \in CallRequest, NEW c \in Call, NEW who \in Caller \cup {Child},
             NEW pc \in {"join", "end"}, AskCall(r, pc, who, c)
      PROVE  CallInv' /\ call_log' = call_log
  BY <1>3, AskCallKeeps DEF AskCall
<1>4. ASSUME NEW g \in Caller, EdgeChanges(g)
      PROVE  CallInv' /\ call_log' = call_log
  BY <1>4, EdgeChangeKeeps DEF EdgeChanges
<1>5. CASE UNCHANGED callVars
  <2>1. /\ edge' = edge /\ call_log' = call_log /\ rung' = rung /\ callTokens' = callTokens
        /\ answers' = answers /\ callReq' = callReq
    BY <1>5 DEF callVars
  <2> QED
    BY <2>1 DEF CallInv, CallTypes, OneStarter, LogIsTrue, RecordingToldAlike, RequestSound, TokenSound,
      Starting, FirstWord, HadTheRight, Logged
<1> QED
  BY <1>1, <1>2, <1>3, <1>4, <1>5 DEF CallsNext

\* The calls' inductive invariant holds in every behaviour: one request starts a
\* call, and until it has answered every word of the call is its own.
THEOREM CallInvariant == CallsSpec => []CallInv
BY CallsBegin, NextCalls, PTL DEF CallsSpec

\* The variables of Calls keep their types, and the log says a call rang when it did.
THEOREM CallTypesHold == CallsSpec => []CallsTypeOK
<1>1. CallInv => CallsTypeOK
  BY DEF CallInv, CallTypes, CallsTypeOK, LogRows, CallTokens, LogIsTrue
<1> QED
  BY <1>1, CallInvariant, PTL

\* rooms.ts, mintToken(): however the requests of a call interleave with each other
\* and with changes of the edges, whoever holds a token had the right to it when she
\* asked, is one of the call's two parties, and is told the same of recording.
THEOREM CallsAlwaysHold == CallsSpec => []CallsHold
<1>1. CallInv => CallsHold
  BY DEF CallInv, CallsHold, NoStaleToken, TokenSound, HadTheRight
<1> QED
  BY <1>1, CallInvariant, PTL

\* pool.ts, recordCallEnd(): a call that ended keeps the end it was first given.
THEOREM CallsEndOnce == CallsSpec => [][EndedOnce]_callVars
<1>1. CallInv /\ [CallsNext]_callVars => EndedOnce
  BY NextCalls DEF EndedOnce
<1> QED
  BY <1>1, CallInvariant, PTL DEF CallsSpec

-----------------------------------------------------------------------------
(* Records. *)

LEMMA RecordLimits ==
  /\ FREE_CERTIFIED_PER_YEAR \in Nat \ {0} /\ YEAR \in Nat \ {0} /\ MajorityAt \in Nat
  /\ NoHolder \notin RecordRequest /\ "child" \notin Parent
BY RecordsAssumption

\* A sequence of anything: what a hash is of has no set of its own.
IsList(s) == \E S : s \in Seq(S)

LEMMA EmptyList == IsList(<<>>)
<1>1. <<>> \in Seq({})
  BY EmptySeq
<1> QED
  BY <1>1 DEF IsList

LEMMA ListLength == ASSUME NEW s, IsList(s) PROVE Len(s) \in Nat /\ DOMAIN s = 1 .. Len(s)
<1>1. PICK S : s \in Seq(S)
  BY DEF IsList
<1> QED
  BY <1>1, LenProperties

LEMMA AppendedList ==
  ASSUME NEW s, IsList(s), NEW e
  PROVE  /\ IsList(Append(s, e)) /\ Len(Append(s, e)) = Len(s) + 1 /\ Len(s) \in Nat
         /\ \A i \in 1 .. Len(s) : Append(s, e)[i] = s[i]
         /\ Append(s, e)[Len(s) + 1] = e
<1>1. PICK S : s \in Seq(S)
  BY DEF IsList
<1>2. s \in Seq(S \cup {e})
  <2>1. Len(s) \in Nat /\ s \in [1 .. Len(s) -> S]
    BY <1>1, LenProperties
  <2>2. s \in [1 .. Len(s) -> S \cup {e}]
    BY <2>1
  <2> QED
    BY <1>1, <2>1, <2>2, LenProperties
<1>3. Append(s, e) \in Seq(S \cup {e})
  BY <1>2, AppendProperties
<1> QED
  BY <1>2, <1>3, AppendProperties, LenProperties DEF IsList

-----------------------------------------------------------------------------
(* The requests. *)

Exporting == [op : {"raw", "certified", "raw_read"}, by : Parent, began : Nat]
Taking == [op : {"take", "taking"}, now : Nat]

\* What a request knows, by how far it is.
RequestOK(q) ==
  \/ q = RecordIdle
  \/ q.op = "note" /\ q.by \in Parent
  \/ q.op = "noted" /\ q.by \in Parent
  \/ q \in Exporting
  \/ q.op = "certify" /\ q.by \in Parent /\ q.began \in Nat
  \/ q \in Taking

RecordTypes ==
  /\ DOMAIN recordReq = RecordRequest
  /\ \A r \in RecordRequest : RequestOK(recordReq[r])
  /\ IsList(message_log) /\ IsList(export_record)
  /\ payerLock \in [Parent -> RecordRequest \cup {NoHolder}]
  /\ childRow \in [handedOver : BOOLEAN, deceased : BOOLEAN]
  /\ guardianship \in [Parent -> BOOLEAN]
  /\ recordClock \in Nat

LEMMA RequestFields ==
  ASSUME NEW q, RequestOK(q)
  PROVE  /\ q.op = "none" => q = RecordIdle
         /\ q.op \in {"note", "noted"} => q.by \in Parent
         /\ q.op \in {"raw", "certified", "raw_read"} => q \in Exporting
         /\ q.op = "certify" => q.by \in Parent /\ q.began \in Nat
         /\ q.op \in {"take", "taking"} => q \in Taking
BY DEF RequestOK, RecordIdle, Exporting, Taking

\* The request r goes on as q, and the others stay.
Goes(r, q) ==
  /\ DOMAIN recordReq' = RecordRequest
  /\ recordReq'[r] = q
  /\ \A p \in RecordRequest : p # r => recordReq'[p] = recordReq[p]

LEMMA GoesFacts ==
  ASSUME RecordTypes, NEW r \in RecordRequest, NEW q, RecordGo(r, q)
  PROVE  Goes(r, q)
<1>1. DOMAIN recordReq = RecordRequest /\ recordReq' = [recordReq EXCEPT ![r] = q]
  BY DEF RecordTypes, RecordGo
<1> QED
  BY <1>1 DEF Goes

LEMMA GoesTyped ==
  ASSUME RecordTypes, NEW r \in RecordRequest, NEW q, Goes(r, q), RequestOK(q)
  PROVE  DOMAIN recordReq' = RecordRequest /\ \A p \in RecordRequest : RequestOK(recordReq'[p])
BY DEF RecordTypes, Goes

LEMMA IdleRequest == RequestOK(RecordIdle) /\ RecordIdle.op = "none"
BY DEF RequestOK, RecordIdle

-----------------------------------------------------------------------------
(* The parts of the invariant. *)

\* ledger.ts: every note names the one before it, and is not older.
ChainOK ==
  \A i \in 1 .. Len(message_log) :
    /\ message_log[i].seq = i - 1
    /\ entryHash(message_log[i]) = message_log[i].hash
    /\ message_log[i].at \in Nat /\ message_log[i].at <= recordClock
    /\ i = 1 => message_log[i].prevHash = GENESIS
    /\ i > 1 => /\ message_log[i].prevHash = message_log[i - 1].hash
               /\ message_log[i - 1].at <= message_log[i].at

TipIs(tip) == tip = IF message_log = <<>> THEN NoTip ELSE LastTip

\* pool.ts, appendHandoverNote(): what it read of the log under the lock is so until it commits.
NotedOK(r) ==
  recordReq[r].op = "noted" =>
    /\ logLock = r /\ TipIs(recordReq[r].tip)
    /\ recordReq[r].at \in Nat /\ recordReq[r].at <= recordClock
    /\ message_log # <<>> => message_log[Len(message_log)].at <= recordReq[r].at

NotesInv == ChainOK /\ \A r \in RecordRequest : NotedOK(r)

\* Each bundle holds the notes there were.
BundlesGrow ==
  /\ \A i \in 1 .. Len(export_record) :
       /\ export_record[i].notes \in Nat /\ export_record[i].notes <= Len(message_log)
       /\ export_record[i].at \in Nat
  /\ \A i, j \in 1 .. Len(export_record) : i <= j => export_record[i].notes <= export_record[j].notes

\* pool.ts, certifiedExportBundleFor(): what it counted under the lock is so until it commits.
CertifyOK(r) ==
  recordReq[r].op = "certify" =>
    /\ payerLock[recordReq[r].by] = r
    /\ recordReq[r].free =>
         CertifiedInLastYear(recordReq[r].by, recordReq[r].began) < FREE_CERTIFIED_PER_YEAR

ExportsInv == BundlesGrow /\ FreeOncePerYear /\ \A r \in RecordRequest : CertifyOK(r)

\* pool.ts, takeAndGo(): whoever holds her row found it not handed over.
TakingOK(r) ==
  recordReq[r].op = "taking" =>
    childLock = r /\ ~childRow.handedOver /\ recordReq[r].now >= MajorityAt

EdgesShut == childRow.handedOver => \A p \in Parent : ~guardianship[p]

TakeInv == HandedOverOnce /\ EdgesShut /\ \A r \in RecordRequest : TakingOK(r)

RecordInv == RecordTypes /\ NotesInv /\ ExportsInv /\ TakeInv

LEMMA RecordsBegin == RecordsInit => RecordInv
<1> SUFFICES ASSUME RecordsInit PROVE RecordInv
  OBVIOUS
<1>1. /\ message_log = <<>> /\ export_record = <<>> /\ Len(message_log) = 0 /\ Len(export_record) = 0
      /\ ~childRow.handedOver
  BY DEF RecordsInit
<1>2. DOMAIN recordReq = RecordRequest /\ \A r \in RecordRequest : recordReq[r] = RecordIdle
  BY DEF RecordsInit
<1>3. RecordTypes
  BY <1>1, <1>2, EmptyList, IdleRequest DEF RecordsInit, RecordTypes
<1>4. \A r \in RecordRequest : recordReq[r].op = "none"
  BY <1>2, IdleRequest
<1>5. NotesInv
  BY <1>1, <1>4 DEF NotesInv, ChainOK, NotedOK
<1>6. ExportsInv
  BY <1>1, <1>4 DEF ExportsInv, BundlesGrow, FreeOncePerYear, CertifyOK
<1>7. HandedOverOnce
  <2>1. {i \in 1 .. Len(export_record) : export_record[i].by = "child"} = {}
    BY <1>1
  <2> QED
    BY <1>1, <2>1, FS_EmptySet DEF HandedOverOnce
<1>8. TakeInv
  BY <1>1, <1>4, <1>7 DEF TakeInv, EdgesShut, TakingOK
<1> QED
  BY <1>3, <1>5, <1>6, <1>8 DEF RecordInv

-----------------------------------------------------------------------------
(* What a step must leave alone to keep each part. *)

LEMMA NotesKept ==
  ASSUME NotesInv, NEW r \in RecordRequest, NEW q, Goes(r, q), q.op # "noted",
         message_log' = message_log, logLock' = logLock, recordClock' = recordClock
  PROVE  NotesInv'
<1>1. ChainOK'
  BY DEF NotesInv, ChainOK
<1>2. ASSUME NEW p \in RecordRequest PROVE NotedOK(p)'
  <2>1. CASE p = r
    BY <2>1 DEF Goes, NotedOK
  <2>2. CASE p # r
    BY <2>2 DEF Goes, NotesInv, NotedOK, TipIs, LastTip
  <2> QED
    BY <2>1, <2>2
<1> QED
  BY <1>1, <1>2 DEF NotesInv

LEMMA ExportsKept ==
  ASSUME ExportsInv, NEW r \in RecordRequest, NEW q, Goes(r, q), q.op # "certify",
         export_record' = export_record, payerLock' = payerLock, message_log' = message_log
  PROVE  ExportsInv'
<1>1. BundlesGrow' /\ FreeOncePerYear'
  BY DEF ExportsInv, BundlesGrow, FreeOncePerYear
<1>2. ASSUME NEW p \in RecordRequest PROVE CertifyOK(p)'
  <2>1. CASE p = r
    BY <2>1 DEF Goes, CertifyOK
  <2>2. CASE p # r
    <3>1. \A x, b : CertifiedInLastYear(x, b)' = CertifiedInLastYear(x, b)
      BY DEF CertifiedInLastYear
    <3> QED
      BY <2>2, <3>1 DEF Goes, ExportsInv, CertifyOK
  <2> QED
    BY <2>1, <2>2
<1> QED
  BY <1>1, <1>2 DEF ExportsInv

LEMMA TakeKept ==
  ASSUME TakeInv, NEW r \in RecordRequest, NEW q, Goes(r, q), q.op # "taking",
         export_record' = export_record, childRow' = childRow, childLock' = childLock,
         guardianship' = guardianship
  PROVE  TakeInv'
<1>1. HandedOverOnce' /\ EdgesShut'
  BY DEF TakeInv, HandedOverOnce, EdgesShut
<1>2. ASSUME NEW p \in RecordRequest PROVE TakingOK(p)'
  <2>1. CASE p = r
    BY <2>1 DEF Goes, TakingOK
  <2>2. CASE p # r
    BY <2>2 DEF Goes, TakeInv, TakingOK
  <2> QED
    BY <2>1, <2>2
<1> QED
  BY <1>1, <1>2 DEF TakeInv

\* A request that only reads, and answers or goes on.
LEMMA ReadingKeeps ==
  ASSUME RecordInv, NEW r \in RecordRequest, NEW q, Goes(r, q), RequestOK(q),
         q.op \notin {"noted", "certify", "taking"},
         message_log' = message_log, logLock' = logLock, recordClock' = recordClock,
         export_record' = export_record, payerLock' = payerLock,
         childRow' = childRow, childLock' = childLock, guardianship' = guardianship
  PROVE  RecordInv'
<1>1. RecordTypes /\ NotesInv /\ ExportsInv /\ TakeInv
  BY DEF RecordInv
<1>2. RecordTypes'
  BY <1>1, GoesTyped DEF RecordTypes
<1>3. NotesInv' /\ ExportsInv' /\ TakeInv'
  BY <1>1, NotesKept, ExportsKept, TakeKept
<1> QED
  BY <1>2, <1>3 DEF RecordInv

-----------------------------------------------------------------------------
(* Counting exports. *)

Certs(l, p, b) ==
  {i \in 1 .. Len(l) : l[i].kind = "certified" /\ l[i].by = p /\ l[i].at > b - YEAR}

FreeOnes(l, e) ==
  {j \in 1 .. Len(l) : /\ l[j].kind = "certified" /\ l[j].free /\ l[j].by = e.by
                      /\ l[j].at \in e.at .. (e.at + YEAR - 1)}

FreeOK(l) ==
  \A i \in 1 .. Len(l) :
    l[i].kind = "certified" /\ l[i].free => Cardinality(FreeOnes(l, l[i])) <= FREE_CERTIFIED_PER_YEAR

LEMMA CountsAre ==
  /\ FreeOncePerYear <=> FreeOK(export_record)
  /\ \A p, b : CertifiedInLastYear(p, b) = Cardinality(Certs(export_record, p, b))
BY DEF FreeOncePerYear, FreeOK, FreeOnes, CertifiedInLastYear, Certs

\* An export that is not a certified one counts for nobody.
LEMMA RawCountsNot ==
  ASSUME NEW l, IsList(l), NEW e, e.kind # "certified"
  PROVE  /\ \A p, b : Certs(Append(l, e), p, b) = Certs(l, p, b)
         /\ FreeOK(l) => FreeOK(Append(l, e))
<1> PICK m : m = Append(l, e)
  OBVIOUS
<1>1. /\ Len(l) \in Nat /\ Len(m) = Len(l) + 1
      /\ \A i \in 1 .. Len(l) : m[i] = l[i]
      /\ m[Len(l) + 1] = e
  BY AppendedList
<1>2. 1 .. Len(m) = 1 .. Len(l) \cup {Len(l) + 1}
  BY <1>1
<1>3. \A p, b : Certs(m, p, b) = Certs(l, p, b)
  BY <1>1, <1>2 DEF Certs
<1>4. \A x : FreeOnes(m, x) = FreeOnes(l, x)
  BY <1>1, <1>2 DEF FreeOnes
<1>5. FreeOK(l) => FreeOK(m)
  BY <1>1, <1>2, <1>4 DEF FreeOK
<1> QED
  BY <1>3, <1>5

LEMMA SameYear ==
  ASSUME NEW a \in Nat, NEW y \in Nat \ {0}, NEW b \in a .. (a + y - 1), NEW c \in a .. (a + y - 1)
  PROVE  c > b - y
OBVIOUS

\* The tariff is kept by one more certified export that was counted before.
LEMMA CertifiedOnTariff ==
  ASSUME NEW l, IsList(l), FreeOK(l), \A i \in 1 .. Len(l) : l[i].at \in Nat,
         NEW e, e.kind = "certified", e.at \in Nat,
         e.free => Cardinality(Certs(l, e.by, e.at)) < FREE_CERTIFIED_PER_YEAR
  PROVE  FreeOK(Append(l, e))
<1> PICK m : m = Append(l, e)
  OBVIOUS
<1> PICK n : n = Len(l) + 1
  OBVIOUS
<1>1. /\ Len(l) \in Nat /\ Len(m) = n /\ m[n] = e
      /\ \A i \in 1 .. Len(l) : m[i] = l[i]
  BY AppendedList
<1>2. 1 .. Len(m) = 1 .. Len(l) \cup {n} /\ n \notin 1 .. Len(l)
  BY <1>1
<1> PICK C : C = Certs(l, e.by, e.at)
  OBVIOUS
<1>3. IsFiniteSet(C) /\ Cardinality(C) \in Nat
  <2>1. IsFiniteSet(1 .. Len(l))
    BY <1>1, FS_Interval
  <2>2. C \in SUBSET (1 .. Len(l))
    BY DEF Certs
  <2> QED
    BY <2>1, <2>2, FS_Subset, FS_CardinalityType
<1>4. e.free => /\ IsFiniteSet(C \cup {n})
                /\ Cardinality(C \cup {n}) <= FREE_CERTIFIED_PER_YEAR
  <2>1. n \notin C
    BY <1>2 DEF Certs
  <2>2. IsFiniteSet(C \cup {n}) /\ Cardinality(C \cup {n}) = Cardinality(C) + 1
    BY <1>3, <2>1, FS_AddElement
  <2> QED
    BY <1>3, <2>2, RecordLimits
<1>5. ASSUME NEW i \in 1 .. Len(m), m[i].kind = "certified", m[i].free
      PROVE  Cardinality(FreeOnes(m, m[i])) <= FREE_CERTIFIED_PER_YEAR
  <2>0. m[i].at \in Nat /\ YEAR \in Nat \ {0} /\ FREE_CERTIFIED_PER_YEAR \in Nat
    BY <1>1, <1>2, RecordLimits
  <2>1. CASE n \in FreeOnes(m, m[i])
    <3>1. e.free /\ e.by = m[i].by /\ e.at \in m[i].at .. (m[i].at + YEAR - 1)
      BY <1>1, <2>1 DEF FreeOnes
    <3>2. FreeOnes(m, m[i]) \subseteq C \cup {n}
      <4> SUFFICES ASSUME NEW j \in FreeOnes(m, m[i]), j # n
                   PROVE  j \in C
        OBVIOUS
      <4>1. /\ j \in 1 .. Len(l) /\ m[j] = l[j] /\ l[j].kind = "certified" /\ l[j].by = e.by
            /\ l[j].at \in m[i].at .. (m[i].at + YEAR - 1)
        BY <1>1, <1>2, <3>1 DEF FreeOnes
      <4>2. l[j].at > e.at - YEAR
        BY <2>0, <3>1, <4>1, SameYear
      <4>3. j \in Certs(l, e.by, e.at)
        BY <4>1, <4>2 DEF Certs
      <4> QED
        BY <4>3
    <3> PICK F : F = FreeOnes(m, m[i])
      OBVIOUS
    <3> PICK D : D = C \cup {n}
      OBVIOUS
    <3>3. F \in SUBSET D /\ IsFiniteSet(D) /\ Cardinality(D) <= FREE_CERTIFIED_PER_YEAR
      BY <1>4, <3>1, <3>2
    <3>4. IsFiniteSet(F) /\ Cardinality(F) <= Cardinality(D)
      BY <3>3, FS_Subset
    <3>5. Cardinality(F) \in Nat /\ Cardinality(D) \in Nat
      BY <3>3, <3>4, FS_CardinalityType
    <3>6. Cardinality(F) <= FREE_CERTIFIED_PER_YEAR
      BY <2>0, <3>3, <3>4, <3>5
    <3> QED
      BY <3>6
  <2>2. CASE n \notin FreeOnes(m, m[i])
    <3>1. i # n
      <4> SUFFICES ASSUME i = n PROVE n \in FreeOnes(m, m[i])
        BY <2>2
      <4>1. m[n] = e /\ e.at \in e.at .. (e.at + YEAR - 1) /\ e.free
        BY <1>1, <1>5, <2>0
      <4> QED
        BY <1>1, <1>2, <4>1 DEF FreeOnes
    <3>2. i \in 1 .. Len(l) /\ m[i] = l[i]
      BY <1>1, <1>2, <3>1
    <3>3. FreeOnes(m, m[i]) = FreeOnes(l, l[i])
      BY <1>1, <1>2, <2>2, <3>2 DEF FreeOnes
    <3> QED
      BY <1>5, <3>2, <3>3 DEF FreeOK
  <2> QED
    BY <2>1, <2>2
<1> QED
  BY <1>5 DEF FreeOK

-----------------------------------------------------------------------------
(* One export more. *)

LEMMA Inserted ==
  ASSUME NEW kind, NEW by, NEW free, NEW at, InsertExport(kind, by, free, at)
  PROVE  \E e : /\ export_record' = Append(export_record, e)
                /\ e.kind = kind /\ e.by = by /\ e.free = free /\ e.at = at
                /\ e.notes = Len(message_log)
BY DEF InsertExport, assembleRawExportBundle, loadMessageChain

LEMMA OneMoreExport ==
  ASSUME RecordTypes, NEW e, export_record' = Append(export_record, e)
  PROVE  /\ IsList(export_record')
         /\ Len(export_record') = Len(export_record) + 1 /\ Len(export_record) \in Nat
         /\ \A i \in 1 .. Len(export_record) : export_record'[i] = export_record[i]
         /\ export_record'[Len(export_record) + 1] = e
<1>1. IsList(export_record)
  BY DEF RecordTypes
<1> PICK l : l = export_record
  OBVIOUS
<1> PICK m : m = Append(l, e)
  OBVIOUS
<1>2. /\ IsList(m) /\ Len(m) = Len(l) + 1 /\ Len(l) \in Nat
      /\ \A i \in 1 .. Len(l) : m[i] = l[i]
      /\ m[Len(l) + 1] = e
  BY <1>1, AppendedList
<1>3. export_record' = m
  OBVIOUS
<1> QED
  BY <1>2, <1>3

LEMMA BundlesStillGrow ==
  ASSUME RecordTypes, BundlesGrow, NEW e, e.at \in Nat, e.notes = Len(message_log),
         export_record' = Append(export_record, e), message_log' = message_log
  PROVE  BundlesGrow'
<1> PICK n : n = Len(export_record)
  OBVIOUS
<1>1. /\ n \in Nat /\ Len(export_record') = n + 1
      /\ \A i \in 1 .. n : export_record'[i] = export_record[i]
      /\ export_record'[n + 1] = e
  BY OneMoreExport
<1>2. Len(message_log) \in Nat
  BY ListLength DEF RecordTypes
<1>3. /\ \A i \in 1 .. n : /\ export_record[i].notes \in Nat /\ export_record[i].notes <= Len(message_log)
                          /\ export_record[i].at \in Nat
      /\ \A i, j \in 1 .. n : i <= j => export_record[i].notes <= export_record[j].notes
  BY DEF BundlesGrow
<1>4. 1 .. Len(export_record') = 1 .. n \cup {n + 1}
  BY <1>1
<1>5. ASSUME NEW i \in 1 .. Len(export_record')
      PROVE  /\ export_record'[i].notes \in Nat /\ export_record'[i].notes <= Len(message_log)
             /\ export_record'[i].at \in Nat
  <2>1. CASE i = n + 1
    BY <1>1, <1>2, <2>1
  <2>2. CASE i # n + 1
    BY <1>1, <1>3, <1>4, <2>2
  <2> QED
    BY <2>1, <2>2
<1>6. ASSUME NEW i \in 1 .. Len(export_record'), NEW j \in 1 .. Len(export_record'), i <= j
      PROVE  export_record'[i].notes <= export_record'[j].notes
  <2>1. CASE j = n + 1
    BY <1>1, <1>2, <1>5, <2>1
  <2>2. CASE j # n + 1
    <3>1. j \in 1 .. n /\ i \in 1 .. n
      BY <1>1, <1>4, <1>6, <2>2
    <3> QED
      BY <1>1, <1>3, <1>6, <3>1
  <2> QED
    BY <2>1, <2>2
<1>7. \A i \in 1 .. Len(export_record') :
        /\ export_record'[i].notes \in Nat /\ export_record'[i].notes <= Len(message_log')
        /\ export_record'[i].at \in Nat
  BY <1>5
<1>8. \A i, j \in 1 .. Len(export_record') : i <= j => export_record'[i].notes <= export_record'[j].notes
  BY <1>6
<1> QED
  BY <1>7, <1>8 DEF BundlesGrow

\* An export of a parent's is none of hers.
LEMMA ParentsExport ==
  ASSUME RecordTypes, HandedOverOnce, NEW e, e.by \in Parent,
         export_record' = Append(export_record, e), childRow' = childRow
  PROVE  HandedOverOnce'
<1> PICK n : n = Len(export_record)
  OBVIOUS
<1>1. /\ n \in Nat /\ Len(export_record') = n + 1
      /\ \A i \in 1 .. n : export_record'[i] = export_record[i]
      /\ export_record'[n + 1] = e
  BY OneMoreExport
<1>2. 1 .. Len(export_record') = 1 .. n \cup {n + 1} /\ e.by # "child"
  BY <1>1, RecordLimits
<1> PICK H : H = {i \in 1 .. n : export_record[i].by = "child"}
  OBVIOUS
<1>3. {i \in 1 .. Len(export_record') : export_record'[i].by = "child"} = H
  BY <1>1, <1>2
<1>4. /\ Cardinality(H) = IF childRow.handedOver THEN 1 ELSE 0
      /\ \A i \in H : export_record[i].at >= MajorityAt
  BY DEF HandedOverOnce
<1>5. \A i \in H : export_record'[i].at >= MajorityAt
  BY <1>1, <1>4
<1> QED
  BY <1>3, <1>4, <1>5 DEF HandedOverOnce

\* Her own, when the archive is handed over.
LEMMA HerExport ==
  ASSUME RecordTypes, HandedOverOnce, ~childRow.handedOver,
         NEW e, e.by = "child", e.at \in Nat, e.at >= MajorityAt,
         export_record' = Append(export_record, e), childRow'.handedOver
  PROVE  HandedOverOnce'
<1> PICK n : n = Len(export_record)
  OBVIOUS
<1>1. /\ n \in Nat /\ Len(export_record') = n + 1
      /\ \A i \in 1 .. n : export_record'[i] = export_record[i]
      /\ export_record'[n + 1] = e
  BY OneMoreExport
<1>2. 1 .. Len(export_record') = 1 .. n \cup {n + 1}
  BY <1>1
<1> PICK H : H = {i \in 1 .. n : export_record[i].by = "child"}
  OBVIOUS
<1>3. IsFiniteSet(H)
  <2>1. H \in SUBSET (1 .. n)
    OBVIOUS
  <2>2. IsFiniteSet(1 .. n)
    BY <1>1, FS_Interval
  <2> QED
    BY <2>1, <2>2, FS_Subset
<1>4. H = {}
  <2>1. Cardinality(H) = 0
    BY DEF HandedOverOnce
  <2> QED
    BY <1>3, <2>1, FS_EmptySet
<1>5. {i \in 1 .. Len(export_record') : export_record'[i].by = "child"} = {n + 1}
  <2>1. \A i \in 1 .. n : export_record[i].by # "child"
    BY <1>4
  <2>2. n + 1 \in 1 .. Len(export_record') /\ export_record'[n + 1].by = "child"
    BY <1>1
  <2>3. \A i \in 1 .. Len(export_record') : export_record'[i].by = "child" => i = n + 1
    BY <1>1, <1>2, <2>1
  <2> QED
    BY <2>2, <2>3
<1>6. Cardinality({n + 1}) = 1
  BY FS_Singleton
<1>7. \A i \in {n + 1} : export_record'[i].at >= MajorityAt
  BY <1>1
<1> QED
  BY <1>5, <1>6, <1>7 DEF HandedOverOnce

-----------------------------------------------------------------------------
(* The steps of the note log. *)

LEMMA NoteRouteKeeps ==
  ASSUME RecordInv, NEW r \in RecordRequest, NEW p \in Parent, NoteRoute(r, p)
  PROVE  RecordInv'
<1> PICK q : q = [op |-> "note", by |-> p, asked |-> recordClock]
  OBVIOUS
<1>1. /\ RecordTypes /\ RecordGo(r, q)
      /\ message_log' = message_log /\ logLock' = logLock /\ recordClock' = recordClock
      /\ export_record' = export_record /\ payerLock' = payerLock
      /\ childRow' = childRow /\ childLock' = childLock /\ guardianship' = guardianship
  BY DEF NoteRoute, noteRest, RecordInv
<1>2. Goes(r, q) /\ RequestOK(q) /\ q.op = "note"
  BY <1>1, GoesFacts DEF RequestOK
<1> QED
  BY <1>1, <1>2, ReadingKeeps

LEMMA ReadTipKeeps ==
  ASSUME RecordInv, NEW r \in RecordRequest, ReadTip(r)
  PROVE  RecordInv'
<1> PICK tip : tip = IF message_log = <<>> THEN NoTip ELSE LastTip
  OBVIOUS
<1> PICK q : q = [op |-> "noted", by |-> recordReq[r].by, at |-> recordClock, tip |-> tip]
  OBVIOUS
<1>1. /\ RecordTypes /\ NotesInv /\ ExportsInv /\ TakeInv
      /\ recordReq[r].op = "note" /\ logLock = NoHolder /\ logLock' = r /\ RecordGo(r, q)
      /\ message_log' = message_log /\ recordClock' = recordClock
      /\ export_record' = export_record /\ payerLock' = payerLock
      /\ childRow' = childRow /\ childLock' = childLock /\ guardianship' = guardianship
  BY DEF ReadTip, noteRest, RecordInv, NoteAt
<1>2. Goes(r, q) /\ q.op = "noted" /\ q.tip = tip /\ q.at = recordClock
  BY <1>1, GoesFacts
<1>3. RequestOK(q)
  <2>1. recordReq[r].by \in Parent
    BY <1>1, RequestFields DEF RecordTypes
  <2> QED
    BY <2>1 DEF RequestOK
<1>4. RecordTypes'
  BY <1>1, <1>2, <1>3, GoesTyped DEF RecordTypes
<1>5. ExportsInv' /\ TakeInv'
  BY <1>1, <1>2, ExportsKept, TakeKept
<1>6. ChainOK'
  BY <1>1 DEF NotesInv, ChainOK
<1>7. ASSUME NEW p \in RecordRequest PROVE NotedOK(p)'
  <2>1. CASE p = r
    <3>1. message_log # <<>> => message_log[Len(message_log)].at <= recordClock
      <4> SUFFICES ASSUME message_log # <<>>
                   PROVE  message_log[Len(message_log)].at <= recordClock
        OBVIOUS
      <4>1. Len(message_log) \in 1 .. Len(message_log)
        BY <1>1, ListLength, EmptySeq DEF RecordTypes, IsList
      <4> QED
        BY <1>1, <4>1 DEF NotesInv, ChainOK
    <3>2. recordClock \in Nat /\ recordClock <= recordClock
      BY <1>1 DEF RecordTypes
    <3>3. TipIs(tip)'
      BY <1>1 DEF TipIs, LastTip
    <3> QED
      BY <1>1, <1>2, <2>1, <3>1, <3>2, <3>3 DEF NotedOK, Goes
  <2>2. CASE p # r
    <3>1. recordReq'[p].op # "noted"
      BY <1>1, <1>2, <2>2, RecordLimits DEF Goes, NotesInv, NotedOK
    <3> QED
      BY <3>1 DEF NotedOK
  <2> QED
    BY <2>1, <2>2
<1> QED
  BY <1>4, <1>5, <1>6, <1>7 DEF RecordInv, NotesInv

LEMMA AppendKeeps ==
  ASSUME RecordInv, NEW r \in RecordRequest, appendHandoverNote(r)
  PROVE  RecordInv'
<1> PICK q : q = recordReq[r]
  OBVIOUS
<1> PICK e : e = append(q.tip, q.by, q.at)
  OBVIOUS
<1> PICK n : n = Len(message_log)
  OBVIOUS
<1>1. /\ RecordTypes /\ NotesInv /\ ExportsInv /\ TakeInv
      /\ q.op = "noted" /\ message_log' = Append(message_log, e) /\ RecordGo(r, RecordIdle)
      /\ logLock' = NoHolder /\ recordClock' = recordClock
      /\ export_record' = export_record /\ payerLock' = payerLock
      /\ childRow' = childRow /\ childLock' = childLock /\ guardianship' = guardianship
  BY DEF appendHandoverNote, noteRest, RecordInv, RecordDone
<1>2. Goes(r, RecordIdle) /\ RequestOK(RecordIdle) /\ RecordIdle.op = "none"
  BY <1>1, GoesFacts, IdleRequest
<1>3. /\ n \in Nat /\ Len(message_log') = n + 1 /\ IsList(message_log')
      /\ \A i \in 1 .. n : message_log'[i] = message_log[i]
      /\ message_log'[n + 1] = e
  BY <1>1, AppendedList DEF RecordTypes
<1>4. /\ logLock = r /\ TipIs(q.tip) /\ q.at \in Nat /\ q.at <= recordClock
      /\ message_log # <<>> => message_log[n].at <= q.at
  BY <1>1 DEF NotesInv, NotedOK
<1>5. /\ e.seq = q.tip.seq + 1 /\ e.at = q.at /\ e.prevHash = q.tip.hash /\ entryHash(e) = e.hash
  BY DEF append, entryHash
<1>6. message_log = <<>> <=> n = 0
  BY <1>1, <1>3, EmptySeq DEF RecordTypes, IsList
<1>7. n = 0 => e.seq = 0 /\ e.prevHash = GENESIS
  BY <1>4, <1>5, <1>6 DEF TipIs, NoTip
<1>8. n > 0 => /\ e.seq = n /\ e.prevHash = message_log[n].hash /\ message_log[n].at <= e.at
  <2> SUFFICES ASSUME n > 0
               PROVE  /\ e.seq = n /\ e.prevHash = message_log[n].hash /\ message_log[n].at <= e.at
    OBVIOUS
  <2>1. q.tip.seq = message_log[n].seq /\ q.tip.hash = message_log[n].hash
    BY <1>4, <1>6 DEF TipIs, LastTip
  <2>2. n \in 1 .. n
    BY <1>3
  <2>3. message_log[n].seq = n - 1
    BY <1>1, <2>2 DEF NotesInv, ChainOK
  <2> QED
    BY <1>3, <1>4, <1>5, <1>6, <2>1, <2>3
<1>9. ChainOK'
  <2> SUFFICES ASSUME NEW i \in 1 .. Len(message_log')
               PROVE  /\ message_log'[i].seq = i - 1
                      /\ entryHash(message_log'[i]) = message_log'[i].hash
                      /\ message_log'[i].at \in Nat /\ message_log'[i].at <= recordClock
                      /\ i = 1 => message_log'[i].prevHash = GENESIS
                      /\ i > 1 => /\ message_log'[i].prevHash = message_log'[i - 1].hash
                                 /\ message_log'[i - 1].at <= message_log'[i].at
    BY <1>1 DEF ChainOK, entryHash
  <2>1. CASE i = n + 1
    <3>1. message_log'[i] = e
      BY <1>3, <2>1
    <3>2. e.seq = i - 1
      BY <1>3, <1>7, <1>8, <2>1
    <3>3. i = 1 => e.prevHash = GENESIS
      BY <1>3, <1>7, <2>1
    <3>4. i > 1 => e.prevHash = message_log'[i - 1].hash /\ message_log'[i - 1].at <= e.at
      <4> SUFFICES ASSUME i > 1
                   PROVE  e.prevHash = message_log'[i - 1].hash /\ message_log'[i - 1].at <= e.at
        OBVIOUS
      <4>1. n > 0 /\ i - 1 = n /\ n \in 1 .. n
        BY <1>3, <2>1
      <4>2. message_log'[n] = message_log[n]
        BY <1>3, <4>1
      <4> QED
        BY <1>8, <4>1, <4>2
    <3> QED
      BY <1>4, <1>5, <3>1, <3>2, <3>3, <3>4
  <2>2. CASE i # n + 1
    <3>1. i \in 1 .. n /\ message_log'[i] = message_log[i]
      BY <1>3, <2>2
    <3>2. i > 1 => message_log'[i - 1] = message_log[i - 1]
      BY <1>3, <3>1
    <3> QED
      BY <1>1, <3>1, <3>2 DEF NotesInv, ChainOK
  <2> QED
    BY <2>1, <2>2
<1>10. ASSUME NEW p \in RecordRequest PROVE NotedOK(p)'
  <2>1. recordReq'[p].op # "noted"
    BY <1>1, <1>2, <1>4 DEF Goes, NotesInv, NotedOK
  <2> QED
    BY <2>1 DEF NotedOK
<1>11. RecordTypes'
  BY <1>1, <1>2, <1>3, GoesTyped DEF RecordTypes
<1>12. TakeInv'
  BY <1>1, <1>2, TakeKept
<1>13. ExportsInv'
  <2>1. BundlesGrow'
    <3>1. \A i \in 1 .. Len(export_record) : export_record[i].notes <= Len(message_log')
      BY <1>1, <1>3 DEF ExportsInv, BundlesGrow
    <3> QED
      BY <1>1, <3>1 DEF ExportsInv, BundlesGrow
  <2>2. FreeOncePerYear'
    BY <1>1 DEF ExportsInv, FreeOncePerYear
  <2>3. \A x, b : CertifiedInLastYear(x, b)' = CertifiedInLastYear(x, b)
    BY <1>1 DEF CertifiedInLastYear
  <2>4. \A p \in RecordRequest : CertifyOK(p)'
    BY <1>1, <1>2, <2>3 DEF ExportsInv, CertifyOK, Goes
  <2> QED
    BY <2>1, <2>2, <2>4 DEF ExportsInv
<1> QED
  BY <1>9, <1>10, <1>11, <1>12, <1>13 DEF RecordInv, NotesInv

-----------------------------------------------------------------------------
(* The steps of the exports. *)

\* An export by somebody else counts for nobody but them.
LEMMA OthersCountNot ==
  ASSUME NEW l, IsList(l), NEW e, NEW p, e.by # p, NEW b
  PROVE  Certs(Append(l, e), p, b) = Certs(l, p, b)
<1> PICK m : m = Append(l, e)
  OBVIOUS
<1>1. /\ Len(l) \in Nat /\ Len(m) = Len(l) + 1
      /\ \A i \in 1 .. Len(l) : m[i] = l[i]
      /\ m[Len(l) + 1] = e
  BY AppendedList
<1>2. 1 .. Len(m) = 1 .. Len(l) \cup {Len(l) + 1}
  BY <1>1
<1>3. Certs(m, p, b) = Certs(l, p, b)
  BY <1>1, <1>2 DEF Certs
<1> QED
  BY <1>3

\* What a parent's request inserts leaves the notes and the handover alone.
LEMMA ParentInsertKeeps ==
  ASSUME RecordInv, NEW r \in RecordRequest, Goes(r, RecordIdle),
         NEW e, e.by \in Parent, e.at \in Nat, e.notes = Len(message_log),
         export_record' = Append(export_record, e), UNCHANGED exportRest,
         payerLock' \in [Parent -> RecordRequest \cup {NoHolder}]
  PROVE  RecordTypes' /\ NotesInv' /\ TakeInv' /\ BundlesGrow'
<1>1. /\ RecordTypes /\ NotesInv /\ ExportsInv /\ TakeInv
      /\ message_log' = message_log /\ logLock' = logLock /\ recordClock' = recordClock
      /\ childRow' = childRow /\ childLock' = childLock /\ guardianship' = guardianship
  BY DEF exportRest, RecordInv
<1>2. RecordTypes'
  <2>1. DOMAIN recordReq' = RecordRequest /\ \A p \in RecordRequest : RequestOK(recordReq'[p])
    BY <1>1, GoesTyped, IdleRequest
  <2>2. IsList(export_record')
    BY <1>1, OneMoreExport
  <2> QED
    BY <1>1, <2>1, <2>2 DEF RecordTypes
<1>3. NotesInv'
  BY <1>1, NotesKept, IdleRequest
<1>4. BundlesGrow'
  BY <1>1, BundlesStillGrow DEF ExportsInv
<1>5. HandedOverOnce'
  BY <1>1, ParentsExport DEF TakeInv
<1>6. EdgesShut'
  BY <1>1 DEF TakeInv, EdgesShut
<1>7. ASSUME NEW p \in RecordRequest PROVE TakingOK(p)'
  <2>1. CASE p = r
    BY <2>1, IdleRequest DEF Goes, TakingOK
  <2>2. CASE p # r
    BY <1>1, <2>2 DEF Goes, TakeInv, TakingOK
  <2> QED
    BY <2>1, <2>2
<1> QED
  BY <1>2, <1>3, <1>4, <1>5, <1>6, <1>7 DEF TakeInv

LEMMA ExportRouteKeeps ==
  ASSUME RecordInv, NEW r \in RecordRequest, NEW p \in Parent, NEW kind \in {"raw", "certified"},
         ExportRoute(r, kind, p)
  PROVE  RecordInv'
<1> PICK q : q = [op |-> kind, by |-> p, began |-> recordClock]
  OBVIOUS
<1>1. /\ RecordTypes /\ RecordGo(r, q)
      /\ message_log' = message_log /\ logLock' = logLock /\ recordClock' = recordClock
      /\ export_record' = export_record /\ payerLock' = payerLock
      /\ childRow' = childRow /\ childLock' = childLock /\ guardianship' = guardianship
  BY DEF ExportRoute, noteRest, RecordInv
<1>2. q \in Exporting /\ q.op \in {"raw", "certified"}
  BY <1>1 DEF Exporting, RecordTypes
<1>3. Goes(r, q) /\ RequestOK(q)
  BY <1>1, <1>2, GoesFacts DEF RequestOK
<1> QED
  BY <1>1, <1>2, <1>3, ReadingKeeps

LEMMA CountKeeps ==
  ASSUME RecordInv, NEW r \in RecordRequest, NEW courtTier \in BOOLEAN, CountExports(r, courtTier)
  PROVE  RecordInv'
<1> PICK q : q = recordReq[r]
  OBVIOUS
<1>1. /\ RecordTypes /\ NotesInv /\ ExportsInv /\ TakeInv
      /\ q.op = "certified" /\ payerLock[q.by] = NoHolder
      /\ message_log' = message_log /\ logLock' = logLock /\ recordClock' = recordClock
      /\ export_record' = export_record
      /\ childRow' = childRow /\ childLock' = childLock /\ guardianship' = guardianship
  BY DEF CountExports, exportRest, RecordInv
<1>2. q.by \in Parent /\ q.began \in Nat
  <2>1. q \in Exporting
    BY <1>1, RequestFields DEF RecordTypes
  <2> QED
    BY <2>1 DEF Exporting
<1>3. CASE RecordDone(r) /\ UNCHANGED payerLock
  <2>1. Goes(r, RecordIdle)
    BY <1>1, <1>3, GoesFacts DEF RecordDone
  <2> QED
    BY <1>1, <1>3, <2>1, IdleRequest, ReadingKeeps
<1>4. CASE payerLock' = [payerLock EXCEPT ![q.by] = r] /\ RecordGo(r, Certifying(q))
  <2> PICK c : c = Certifying(q)
    OBVIOUS
  <2>1. /\ c.op = "certify" /\ c.by = q.by /\ c.began = q.began
        /\ c.free = (CertifiedInLastYear(q.by, q.began) < FREE_CERTIFIED_PER_YEAR)
    BY DEF Certifying
  <2>2. Goes(r, c) /\ RequestOK(c)
    BY <1>1, <1>2, <1>4, <2>1, GoesFacts DEF RequestOK
  <2>3. /\ payerLock' \in [Parent -> RecordRequest \cup {NoHolder}] /\ payerLock'[q.by] = r
        /\ \A p \in Parent : p # q.by => payerLock'[p] = payerLock[p]
    BY <1>1, <1>2, <1>4 DEF RecordTypes
  <2>4. RecordTypes'
    BY <1>1, <2>2, <2>3, GoesTyped DEF RecordTypes
  <2>5. NotesInv' /\ TakeInv'
    BY <1>1, <2>1, <2>2, NotesKept, TakeKept
  <2>6. BundlesGrow' /\ FreeOncePerYear'
    BY <1>1 DEF ExportsInv, BundlesGrow, FreeOncePerYear
  <2>7. \A x, b : CertifiedInLastYear(x, b)' = CertifiedInLastYear(x, b)
    BY <1>1 DEF CertifiedInLastYear
  <2>8. ASSUME NEW p \in RecordRequest PROVE CertifyOK(p)'
    <3>1. CASE p = r
      BY <2>1, <2>2, <2>3, <2>7, <3>1 DEF Goes, CertifyOK
    <3>2. CASE p # r
      <4> SUFFICES ASSUME recordReq[p].op = "certify" PROVE CertifyOK(p)'
        BY <2>2, <3>2 DEF Goes, CertifyOK
      <4>1. CertifyOK(p) /\ recordReq[p].by \in Parent
        BY <1>1, RequestFields DEF RecordTypes, ExportsInv
      <4>2. payerLock'[recordReq[p].by] = payerLock[recordReq[p].by]
        BY <1>1, <2>3, <4>1, RecordLimits DEF CertifyOK
      <4> QED
        BY <2>2, <2>7, <3>2, <4>1, <4>2 DEF Goes, CertifyOK
    <3> QED
      BY <3>1, <3>2
  <2> QED
    BY <2>4, <2>5, <2>6, <2>8 DEF RecordInv, ExportsInv
<1> QED
  BY <1>3, <1>4 DEF CountExports

LEMMA CertifyKeeps ==
  ASSUME RecordInv, NEW r \in RecordRequest, certifiedExportBundleFor(r)
  PROVE  RecordInv'
<1> PICK q : q = recordReq[r]
  OBVIOUS
<1>1. /\ RecordTypes /\ NotesInv /\ ExportsInv /\ TakeInv /\ q.op = "certify"
      /\ InsertExport("certified", q.by, q.free, q.began)
      /\ payerLock' = [p \in Parent |-> IF payerLock[p] = r THEN NoHolder ELSE payerLock[p]]
      /\ RecordGo(r, RecordIdle) /\ UNCHANGED exportRest
  BY DEF certifiedExportBundleFor, RecordInv, RecordDone
<1>2. Goes(r, RecordIdle) /\ RecordIdle.op = "none"
  BY <1>1, GoesFacts, IdleRequest
<1>3. q.by \in Parent /\ q.began \in Nat /\ CertifyOK(r)
  BY <1>1, RequestFields DEF RecordTypes, ExportsInv
<1>4. payerLock' \in [Parent -> RecordRequest \cup {NoHolder}]
  BY <1>1 DEF RecordTypes
<1>5. PICK e : /\ export_record' = Append(export_record, e)
               /\ e.kind = "certified" /\ e.by = q.by /\ e.free = q.free /\ e.at = q.began
               /\ e.notes = Len(message_log)
  BY <1>1, Inserted
<1>6. RecordTypes' /\ NotesInv' /\ TakeInv' /\ BundlesGrow'
  BY <1>1, <1>2, <1>3, <1>4, <1>5, ParentInsertKeeps
<1> PICK l : l = export_record
  OBVIOUS
<1>7. IsList(l) /\ FreeOK(l) /\ \A i \in 1 .. Len(l) : l[i].at \in Nat
  BY <1>1, CountsAre DEF RecordTypes, ExportsInv, BundlesGrow
<1>8. e.free => Cardinality(Certs(l, e.by, e.at)) < FREE_CERTIFIED_PER_YEAR
  BY <1>1, <1>3, <1>5, CountsAre DEF CertifyOK
<1>9. FreeOK(Append(l, e))
  BY <1>3, <1>5, <1>7, <1>8, CertifiedOnTariff
<1>10. FreeOncePerYear'
  <2>1. FreeOK(export_record')
    BY <1>5, <1>9
  <2> QED
    BY <2>1 DEF FreeOncePerYear, FreeOK, FreeOnes
<1>11. ASSUME NEW p \in RecordRequest PROVE CertifyOK(p)'
  <2>1. CASE p = r
    BY <1>2, <2>1 DEF Goes, CertifyOK
  <2>2. CASE p # r
    <3> SUFFICES ASSUME recordReq[p].op = "certify" PROVE CertifyOK(p)'
      BY <1>2, <2>2 DEF Goes, CertifyOK
    <3> PICK s : s = recordReq[p]
      OBVIOUS
    <3>1. CertifyOK(p) /\ s.by \in Parent
      BY <1>1, RequestFields DEF RecordTypes, ExportsInv
    <3>2. payerLock[s.by] = p /\ payerLock'[s.by] = p /\ s.by # e.by
      BY <1>1, <1>3, <1>5, <2>2, <3>1 DEF CertifyOK
    <3>3. Certs(Append(l, e), s.by, s.began) = Certs(l, s.by, s.began)
      BY <1>7, <3>2, OthersCountNot
    <3>4. CertifiedInLastYear(s.by, s.began)' = CertifiedInLastYear(s.by, s.began)
      BY <1>5, <3>3 DEF CertifiedInLastYear, Certs
    <3>5. recordReq'[p] = s
      BY <1>2, <2>2 DEF Goes
    <3> QED
      BY <3>1, <3>2, <3>4, <3>5 DEF CertifyOK
  <2> QED
    BY <2>1, <2>2
<1> QED
  BY <1>6, <1>10, <1>11 DEF RecordInv, ExportsInv

\* An export that is not a certified one keeps the tariff as it was counted.
LEMMA RawKeepsTariff ==
  ASSUME RecordTypes, ExportsInv, BundlesGrow', NEW r \in RecordRequest, Goes(r, RecordIdle),
         NEW e, e.kind # "certified", export_record' = Append(export_record, e),
         payerLock' = payerLock
  PROVE  ExportsInv'
<1> PICK l : l = export_record
  OBVIOUS
<1>1. IsList(l) /\ FreeOK(l)
  BY CountsAre DEF RecordTypes, ExportsInv
<1>2. FreeOK(Append(l, e)) /\ \A p, b : Certs(Append(l, e), p, b) = Certs(l, p, b)
  BY <1>1, RawCountsNot
<1>3. FreeOK(export_record')
  BY <1>2
<1>4. FreeOncePerYear'
  BY <1>3 DEF FreeOncePerYear, FreeOK, FreeOnes
<1>5. ASSUME NEW p \in RecordRequest PROVE CertifyOK(p)'
  <2>1. CASE p = r
    BY <2>1, IdleRequest DEF Goes, CertifyOK
  <2>2. CASE p # r
    <3> PICK s : s = recordReq[p]
      OBVIOUS
    <3>1. CertifyOK(p) /\ recordReq'[p] = s
      BY <2>2 DEF Goes, ExportsInv
    <3>2. CertifiedInLastYear(s.by, s.began)' = CertifiedInLastYear(s.by, s.began)
      <4>1. Certs(Append(l, e), s.by, s.began) = Certs(l, s.by, s.began)
        BY <1>2
      <4> QED
        BY <4>1 DEF CertifiedInLastYear, Certs
    <3> QED
      BY <3>1, <3>2 DEF CertifyOK
  <2> QED
    BY <2>1, <2>2
<1> QED
  BY <1>4, <1>5 DEF ExportsInv

LEMMA RawKeeps ==
  ASSUME RecordInv, NEW r \in RecordRequest, rawExportBundleFor(r)
  PROVE  RecordInv'
<1> PICK q : q = recordReq[r]
  OBVIOUS
<1>1. /\ RecordTypes /\ NotesInv /\ ExportsInv /\ TakeInv
      /\ payerLock' = payerLock /\ UNCHANGED exportRest
  BY DEF rawExportBundleFor, RecordInv
<1>2. /\ message_log' = message_log /\ logLock' = logLock /\ recordClock' = recordClock
      /\ childRow' = childRow /\ childLock' = childLock /\ guardianship' = guardianship
  BY <1>1 DEF exportRest
<1>3. q.op \in {"raw", "raw_read"}
  BY DEF rawExportBundleFor
<1>4. q \in Exporting /\ q.by \in Parent /\ q.began \in Nat
  <2>1. q \in Exporting
    BY <1>1, <1>3, RequestFields DEF RecordTypes
  <2> QED
    BY <2>1 DEF Exporting
<1>5. CASE /\ RecordGo(r, IF guardianship[q.by] THEN [q EXCEPT !.op = "raw_read"] ELSE RecordIdle)
           /\ UNCHANGED export_record
  <2> PICK s : s = IF guardianship[q.by] THEN [q EXCEPT !.op = "raw_read"] ELSE RecordIdle
    OBVIOUS
  <2>1. Goes(r, s)
    BY <1>1, <1>5, GoesFacts
  <2>2. CASE guardianship[q.by]
    <3>1. s \in Exporting /\ s.op = "raw_read"
      BY <1>4, <2>2 DEF Exporting
    <3>2. RequestOK(s)
      BY <3>1 DEF RequestOK
    <3> QED
      BY <1>1, <1>2, <1>5, <2>1, <3>1, <3>2, ReadingKeeps
  <2>3. CASE ~guardianship[q.by]
    BY <1>1, <1>2, <1>5, <2>1, <2>3, IdleRequest, ReadingKeeps
  <2> QED
    BY <2>2, <2>3
<1>6. CASE InsertExport("raw", q.by, TRUE, q.began) /\ RecordDone(r)
  <2>1. PICK e : /\ export_record' = Append(export_record, e)
                 /\ e.kind = "raw" /\ e.by = q.by /\ e.at = q.began
                 /\ e.notes = Len(message_log)
    <3>1. \E free : InsertExport("raw", q.by, free, q.began)
      BY <1>6, Zenon
    <3> QED
      BY <3>1, Inserted
  <2>2. Goes(r, RecordIdle)
    BY <1>1, <1>6, GoesFacts DEF RecordDone
  <2>3. payerLock' \in [Parent -> RecordRequest \cup {NoHolder}]
    BY <1>1 DEF RecordTypes
  <2>4. RecordTypes' /\ NotesInv' /\ TakeInv' /\ BundlesGrow'
    BY <1>1, <1>4, <2>1, <2>2, <2>3, ParentInsertKeeps
  <2>5. ExportsInv'
    BY <1>1, <2>1, <2>2, <2>4, RawKeepsTariff
  <2> QED
    BY <2>4, <2>5 DEF RecordInv
<1> QED
  BY <1>5, <1>6 DEF rawExportBundleFor

-----------------------------------------------------------------------------
(* The steps of the handover, and those of nobody's request. *)

LEMMA JournalKeeps ==
  ASSUME RecordInv, NEW r \in RecordRequest, HandoverRoute(r)
  PROVE  RecordInv'
<1> PICK q : q = [op |-> "take", now |-> recordClock]
  OBVIOUS
<1>1. /\ RecordTypes /\ RecordGo(r, q)
      /\ message_log' = message_log /\ logLock' = logLock /\ recordClock' = recordClock
      /\ export_record' = export_record /\ payerLock' = payerLock
      /\ childRow' = childRow /\ childLock' = childLock /\ guardianship' = guardianship
  BY DEF HandoverRoute, ReadJournal, noteRest, RecordInv
<1>2. q \in Taking /\ q.op = "take"
  BY <1>1 DEF Taking, RecordTypes
<1>3. Goes(r, q) /\ RequestOK(q)
  BY <1>1, <1>2, GoesFacts DEF RequestOK
<1> QED
  BY <1>1, <1>2, <1>3, ReadingKeeps

LEMMA LockChildKeeps ==
  ASSUME RecordInv, NEW r \in RecordRequest, LockChild(r)
  PROVE  RecordInv'
<1> PICK q : q = recordReq[r]
  OBVIOUS
<1>1. /\ RecordTypes /\ NotesInv /\ ExportsInv /\ TakeInv
      /\ q.op = "take" /\ childLock = NoHolder
      /\ message_log' = message_log /\ logLock' = logLock /\ recordClock' = recordClock
      /\ export_record' = export_record /\ payerLock' = payerLock
      /\ childRow' = childRow /\ guardianship' = guardianship
  BY DEF LockChild, takeRest, RecordInv
<1>2. q \in Taking
  BY <1>1, RequestFields DEF RecordTypes
<1>3. CASE RecordDone(r) /\ UNCHANGED childLock
  <2>1. Goes(r, RecordIdle)
    BY <1>1, <1>3, GoesFacts DEF RecordDone
  <2> QED
    BY <1>1, <1>3, <2>1, IdleRequest, ReadingKeeps
<1>4. CASE handoverAllowed(q.now) /\ childLock' = r /\ RecordGo(r, [q EXCEPT !.op = "taking"])
  <2> PICK s : s = [q EXCEPT !.op = "taking"]
    OBVIOUS
  <2>1. s \in Taking /\ s.op = "taking" /\ s.now = q.now
    BY <1>2 DEF Taking
  <2>2. Goes(r, s) /\ RequestOK(s)
    BY <1>1, <1>4, <2>1, GoesFacts DEF RequestOK
  <2>3. RecordTypes'
    BY <1>1, <2>2, GoesTyped DEF RecordTypes
  <2>4. NotesInv' /\ ExportsInv'
    BY <1>1, <2>1, <2>2, NotesKept, ExportsKept
  <2>5. HandedOverOnce' /\ EdgesShut'
    BY <1>1 DEF TakeInv, HandedOverOnce, EdgesShut
  <2>6. ASSUME NEW p \in RecordRequest PROVE TakingOK(p)'
    <3>1. CASE p = r
      BY <1>1, <1>4, <2>1, <2>2, <3>1 DEF Goes, TakingOK, handoverAllowed
    <3>2. CASE p # r
      <4>1. recordReq'[p].op # "taking"
        BY <1>1, <2>2, <3>2, RecordLimits DEF Goes, TakeInv, TakingOK
      <4> QED
        BY <4>1 DEF TakingOK
    <3> QED
      BY <3>1, <3>2
  <2> QED
    BY <2>3, <2>4, <2>5, <2>6 DEF RecordInv, TakeInv
<1> QED
  BY <1>3, <1>4 DEF LockChild

LEMMA TakeAndGoKeeps ==
  ASSUME RecordInv, NEW r \in RecordRequest, takeAndGo(r)
  PROVE  RecordInv'
<1> PICK q : q = recordReq[r]
  OBVIOUS
<1>1. /\ RecordTypes /\ NotesInv /\ ExportsInv /\ TakeInv
      /\ q.op = "taking" /\ InsertExport("raw", "child", TRUE, q.now)
      /\ guardianship' = [p \in Parent |-> FALSE]
      /\ childRow' = [childRow EXCEPT !.handedOver = TRUE] /\ childLock' = NoHolder
      /\ RecordGo(r, RecordIdle)
      /\ message_log' = message_log /\ logLock' = logLock /\ payerLock' = payerLock
      /\ recordClock' = recordClock
  BY DEF takeAndGo, takeRest, RecordInv, RecordDone, EdgesClosed
<1>2. Goes(r, RecordIdle) /\ RecordIdle.op = "none"
  BY <1>1, GoesFacts, IdleRequest
<1>3. q \in Taking /\ TakingOK(r)
  BY <1>1, RequestFields DEF RecordTypes, TakeInv
<1>4. q.now \in Nat /\ childLock = r /\ ~childRow.handedOver /\ q.now >= MajorityAt
  BY <1>1, <1>3 DEF Taking, TakingOK
<1>5. childRow' \in [handedOver : BOOLEAN, deceased : BOOLEAN] /\ childRow'.handedOver
  BY <1>1 DEF RecordTypes
<1>6. PICK e : /\ export_record' = Append(export_record, e)
               /\ e.kind = "raw" /\ e.by = "child" /\ e.at = q.now
               /\ e.notes = Len(message_log)
  <2>1. \E free : InsertExport("raw", "child", free, q.now)
    BY <1>1, Zenon
  <2> QED
    BY <2>1, Inserted
<1>7. RecordTypes'
  <2>1. DOMAIN recordReq' = RecordRequest /\ \A p \in RecordRequest : RequestOK(recordReq'[p])
    BY <1>1, <1>2, GoesTyped, IdleRequest
  <2>2. IsList(export_record')
    BY <1>1, <1>6, OneMoreExport
  <2> QED
    BY <1>1, <1>5, <2>1, <2>2 DEF RecordTypes
<1>8. NotesInv'
  BY <1>1, <1>2, NotesKept
<1>9. BundlesGrow'
  BY <1>1, <1>4, <1>6, BundlesStillGrow DEF ExportsInv
<1>10. ExportsInv'
  BY <1>1, <1>2, <1>6, <1>9, RawKeepsTariff
<1>11. HandedOverOnce'
  BY <1>1, <1>4, <1>5, <1>6, HerExport DEF TakeInv
<1>12. EdgesShut'
  BY <1>1 DEF EdgesShut
<1>13. ASSUME NEW p \in RecordRequest PROVE TakingOK(p)'
  <2>1. recordReq'[p].op # "taking"
    BY <1>1, <1>2, <1>4 DEF Goes, TakeInv, TakingOK
  <2> QED
    BY <2>1 DEF TakingOK
<1> QED
  BY <1>7, <1>8, <1>10, <1>11, <1>12, <1>13 DEF RecordInv, TakeInv

LEMMA ChildDiesKeeps ==
  ASSUME RecordInv, ChildDies
  PROVE  RecordInv'
<1>1. /\ RecordTypes /\ NotesInv /\ ExportsInv /\ TakeInv
      /\ childLock = NoHolder /\ childRow' = [childRow EXCEPT !.deceased = TRUE]
      /\ message_log' = message_log /\ logLock' = logLock /\ payerLock' = payerLock
      /\ export_record' = export_record /\ recordReq' = recordReq /\ childLock' = childLock
      /\ guardianship' = guardianship /\ recordClock' = recordClock
  BY DEF ChildDies, RecordInv
<1>2. /\ childRow' \in [handedOver : BOOLEAN, deceased : BOOLEAN]
      /\ childRow'.handedOver = childRow.handedOver
  BY <1>1 DEF RecordTypes
<1>3. RecordTypes'
  BY <1>1, <1>2 DEF RecordTypes
<1>4. NotesInv'
  BY <1>1 DEF NotesInv, ChainOK, NotedOK, TipIs, LastTip
<1>5. ExportsInv'
  BY <1>1 DEF ExportsInv, BundlesGrow, FreeOncePerYear, CertifyOK, CertifiedInLastYear
<1>6. HandedOverOnce' /\ EdgesShut'
  BY <1>1, <1>2 DEF TakeInv, HandedOverOnce, EdgesShut
<1>7. ASSUME NEW p \in RecordRequest PROVE TakingOK(p)'
  BY <1>1, RecordLimits DEF TakeInv, TakingOK
<1> QED
  BY <1>3, <1>4, <1>5, <1>6, <1>7 DEF RecordInv, TakeInv

LEMMA RecordTickKeeps ==
  ASSUME RecordInv, RecordTick
  PROVE  RecordInv'
<1>1. /\ RecordTypes /\ NotesInv /\ ExportsInv /\ TakeInv
      /\ recordClock' = recordClock + 1
      /\ message_log' = message_log /\ logLock' = logLock /\ payerLock' = payerLock
      /\ export_record' = export_record /\ recordReq' = recordReq /\ childLock' = childLock
      /\ guardianship' = guardianship /\ childRow' = childRow
  BY DEF RecordTick, RecordInv
<1>2. RecordTypes' /\ recordClock \in Nat
  BY <1>1 DEF RecordTypes
<1>3. ChainOK'
  <2> SUFFICES ASSUME NEW i \in 1 .. Len(message_log)
               PROVE  message_log[i].at <= recordClock + 1
    BY <1>1 DEF ChainOK, NotesInv, entryHash
  <2>1. message_log[i].at \in Nat /\ message_log[i].at <= recordClock
    BY <1>1 DEF ChainOK, NotesInv
  <2> QED
    BY <1>2, <2>1
<1>4. ASSUME NEW p \in RecordRequest PROVE NotedOK(p)'
  <2> SUFFICES ASSUME recordReq[p].op = "noted" PROVE NotedOK(p)'
    BY <1>1 DEF NotedOK
  <2>1. /\ logLock = p /\ TipIs(recordReq[p].tip)
        /\ recordReq[p].at \in Nat /\ recordReq[p].at <= recordClock
        /\ message_log # <<>> => message_log[Len(message_log)].at <= recordReq[p].at
    BY <1>1 DEF NotesInv, NotedOK
  <2>2. recordReq[p].at <= recordClock + 1
    BY <1>2, <2>1
  <2> QED
    BY <1>1, <2>1, <2>2 DEF NotedOK, TipIs, LastTip
<1>5. ExportsInv'
  BY <1>1 DEF ExportsInv, BundlesGrow, FreeOncePerYear, CertifyOK, CertifiedInLastYear
<1>6. TakeInv'
  BY <1>1 DEF TakeInv, HandedOverOnce, EdgesShut, TakingOK
<1> QED
  BY <1>2, <1>3, <1>4, <1>5, <1>6 DEF RecordInv, NotesInv

LEMMA NothingRecorded ==
  ASSUME RecordInv, UNCHANGED recordVars
  PROVE  RecordInv'
<1>1. /\ RecordTypes /\ NotesInv /\ ExportsInv /\ TakeInv
      /\ message_log' = message_log /\ logLock' = logLock /\ payerLock' = payerLock
      /\ export_record' = export_record /\ recordReq' = recordReq /\ childLock' = childLock
      /\ guardianship' = guardianship /\ childRow' = childRow /\ recordClock' = recordClock
  BY DEF recordVars, RecordInv
<1>2. RecordTypes'
  BY <1>1 DEF RecordTypes
<1>3. NotesInv'
  BY <1>1 DEF NotesInv, ChainOK, NotedOK, TipIs, LastTip
<1>4. ExportsInv'
  BY <1>1 DEF ExportsInv, BundlesGrow, FreeOncePerYear, CertifyOK, CertifiedInLastYear
<1>5. TakeInv'
  BY <1>1 DEF TakeInv, HandedOverOnce, EdgesShut, TakingOK
<1> QED
  BY <1>2, <1>3, <1>4, <1>5 DEF RecordInv

LEMMA NextRecords ==
  ASSUME RecordInv, RecordsNext
  PROVE  RecordInv'
<1>1. CASE ChildDies
  BY <1>1, ChildDiesKeeps
<1>2. CASE RecordTick
  BY <1>2, RecordTickKeeps
<1>3. ASSUME NEW r \in RecordRequest, RecordServe(r) PROVE RecordInv'
  BY <1>3, ReadTipKeeps, AppendKeeps, CountKeeps, CertifyKeeps, RawKeeps, LockChildKeeps,
     TakeAndGoKeeps DEF RecordServe
<1>4. ASSUME NEW r \in RecordRequest, HandoverRoute(r) PROVE RecordInv'
  BY <1>4, JournalKeeps
<1>5. ASSUME NEW r \in RecordRequest, NEW p \in Parent,
             NoteRoute(r, p) \/ \E kind \in {"raw", "certified"} : ExportRoute(r, kind, p)
      PROVE  RecordInv'
  BY <1>5, NoteRouteKeeps, ExportRouteKeeps
<1> QED
  BY <1>1, <1>2, <1>3, <1>4, <1>5 DEF RecordsNext

-----------------------------------------------------------------------------

\* The inductive invariant: whoever works on what it read holds the lock it read
\* it under, and the rows are what the locked readers wrote.
THEOREM RecordInvariant == RecordsSpec => []RecordInv
<1>1. RecordInv /\ [RecordsNext]_recordVars => RecordInv'
  BY NextRecords, NothingRecorded
<1> QED
  BY <1>1, RecordsBegin, PTL DEF RecordsSpec

\* The chain of the invariant is one that verifies, read in its order.
LEMMA ChainIsVerified == RecordInv => ChainVerifies
<1> SUFFICES ASSUME RecordInv PROVE ChainVerifies
  OBVIOUS
<1>1. /\ ChainOK /\ BundlesGrow /\ DOMAIN message_log = 1 .. Len(message_log)
      /\ DOMAIN export_record = 1 .. Len(export_record) /\ Len(message_log) \in Nat
  BY ListLength DEF RecordInv, NotesInv, ExportsInv, RecordTypes
<1>2. \A i \in 1 .. Len(message_log) :
        /\ message_log[i].seq = i - 1 /\ entryHash(message_log[i]) = message_log[i].hash
        /\ message_log[i].at \in Nat
        /\ i = 1 => message_log[i].prevHash = GENESIS
  BY <1>1 DEF ChainOK
<1>3. \A i \in 2 .. Len(message_log) :
        /\ message_log[i].prevHash = message_log[i - 1].hash
        /\ message_log[i].seq = message_log[i - 1].seq + 1
        /\ ~(message_log[i].at < message_log[i - 1].at)
  <2> SUFFICES ASSUME NEW i \in 2 .. Len(message_log)
               PROVE  /\ message_log[i].prevHash = message_log[i - 1].hash
                      /\ message_log[i].seq = message_log[i - 1].seq + 1
                      /\ ~(message_log[i].at < message_log[i - 1].at)
    OBVIOUS
  <2>1. i \in 1 .. Len(message_log) /\ i - 1 \in 1 .. Len(message_log) /\ i > 1
    BY <1>1
  <2>2. message_log[i].seq = i - 1 /\ message_log[i - 1].seq = i - 2
    BY <1>2, <2>1
  <2>3. /\ message_log[i].prevHash = message_log[i - 1].hash
        /\ message_log[i - 1].at <= message_log[i].at
    BY <1>1, <2>1 DEF ChainOK
  <2> QED
    BY <1>2, <2>1, <2>2, <2>3
<1>4. verifyChain(loadMessageChain) = {}
  BY <1>2, <1>3 DEF verifyChain, loadMessageChain
<1>5. \A i \in DOMAIN handoverNotesFor : handoverNotesFor[i].seq = i - 1
  BY <1>1, <1>2 DEF handoverNotesFor
<1> QED
  BY <1>1, <1>4, <1>5 DEF ChainVerifies, BundlesGrow

\* ledger.ts and pool.ts: of however many requests, the log verifies, the tariff
\* is kept and the archive is handed over once.
THEOREM RecordsAlwaysHold == RecordsSpec => []RecordsHold
<1>1. RecordInv => RecordsHold
  BY ChainIsVerified DEF RecordInv, RecordsHold, ExportsInv, TakeInv
<1> QED
  BY <1>1, RecordInvariant, PTL

\* Her archive taken, no edge lets a parent's request in.
LEMMA AccessEnds == RecordInv /\ [RecordsNext]_recordVars => NoAccessAfterHandover
<1> SUFFICES ASSUME RecordInv, RecordsNext, childRow.handedOver,
                    NEW r \in RecordRequest, ~ServedForAParent(r)
             PROVE  ~ServedForAParent(r)'
  BY DEF NoAccessAfterHandover
<1>1. RecordTypes /\ \A p \in Parent : ~guardianship[p]
  BY DEF RecordInv, TakeInv, EdgesShut
<1>2. recordReq[r].op \in {"none", "take", "taking"}
  BY DEF ServedForAParent
<1>3. ASSUME NEW s \in RecordRequest, NEW q, Goes(s, q),
             s = r => q.op \in {"none", "take", "taking"}
      PROVE  ~ServedForAParent(r)'
  BY <1>2, <1>3 DEF Goes, ServedForAParent
<1>4. CASE ChildDies \/ RecordTick
  BY <1>2, <1>4 DEF ChildDies, RecordTick, ServedForAParent
<1>5. ASSUME NEW s \in RecordRequest, RecordServe(s) PROVE ~ServedForAParent(r)'
  <2>1. CASE s # r
    <3>1. \E q : RecordGo(s, q)
      BY <1>5 DEF RecordServe, ReadTip, appendHandoverNote, CountExports,
         certifiedExportBundleFor, rawExportBundleFor, LockChild, takeAndGo, RecordDone
    <3> QED
      BY <1>1, <1>3, <2>1, <3>1, GoesFacts
  <2>2. CASE s = r
    <3>1. LockChild(r) \/ takeAndGo(r)
      BY <1>2, <1>5, <2>2 DEF RecordServe, ReadTip, appendHandoverNote, CountExports,
         certifiedExportBundleFor, rawExportBundleFor
    <3>2. CASE takeAndGo(r)
      BY <1>1, <1>3, <2>2, <3>2, GoesFacts, IdleRequest DEF takeAndGo, RecordDone
    <3>3. CASE LockChild(r)
      <4>1. recordReq[r] \in Taking
        BY <1>1, <3>3, RequestFields DEF LockChild, RecordTypes
      <4>2. [recordReq[r] EXCEPT !.op = "taking"].op = "taking"
        BY <4>1 DEF Taking
      <4> QED
        BY <1>1, <1>3, <2>2, <3>3, <4>2, GoesFacts, IdleRequest DEF LockChild, RecordDone
    <3> QED
      BY <3>1, <3>2, <3>3
  <2> QED
    BY <2>1, <2>2
<1>6. ASSUME NEW s \in RecordRequest, HandoverRoute(s) PROVE ~ServedForAParent(r)'
  BY <1>1, <1>3, <1>6, GoesFacts DEF HandoverRoute, ReadJournal
<1>7. ASSUME NEW s \in RecordRequest, NEW p \in Parent,
             NoteRoute(s, p) \/ \E kind \in {"raw", "certified"} : ExportRoute(s, kind, p)
      PROVE  FALSE
  BY <1>1, <1>7 DEF NoteRoute, ExportRoute
<1> QED
  BY <1>4, <1>5, <1>6, <1>7 DEF RecordsNext

\* pool.ts, takeAndGo(): once she has taken her archive no request of a parent
\* is let in, for any number of parents and of requests.
THEOREM AccessEndsWithHandover == RecordsSpec => [][NoAccessAfterHandover]_recordVars
BY AccessEnds, RecordInvariant, PTL DEF RecordsSpec
-----------------------------------------------------------------------------
(* The values of the variables, and who holds the locks. *)

\* The requests that may still append a note.
Noting == {r \in RecordRequest : recordReq[r].op \in {"note", "noted"}}

\* Every lock is held by a request that has something to write under it.
LocksHeld ==
  /\ logLock # NoHolder => logLock \in RecordRequest /\ recordReq[logLock].op = "noted"
  /\ childLock # NoHolder => childLock \in RecordRequest /\ recordReq[childLock].op = "taking"
  /\ \A p \in Parent : payerLock[p] # NoHolder =>
       /\ payerLock[p] \in RecordRequest
       /\ recordReq[payerLock[p]].op = "certify" /\ recordReq[payerLock[p]].by = p

RowsNamed ==
  /\ \A i \in 1 .. Len(message_log) : message_log[i].author \in Parent
  /\ \A i \in 1 .. Len(export_record) : export_record[i].by \in Parent \cup {"child"}

\* Each request appends one note, and is let in only while there is room.
RoomForNotes == Len(message_log) + Cardinality(Noting) <= MaxNotes + Cardinality(RecordRequest)

RecordHolders == LocksHeld /\ RowsNamed /\ RoomForNotes /\ recordClock <= MaxRecordClock

LEMMA NotingFinite ==
  /\ IsFiniteSet(Noting) /\ Cardinality(Noting) \in Nat
  /\ Cardinality(RecordRequest) \in Nat /\ Cardinality(Noting) <= Cardinality(RecordRequest)
<1>1. Noting \subseteq RecordRequest /\ IsFiniteSet(RecordRequest)
  BY RecordsAssumption DEF Noting
<1> QED
  BY <1>1, FS_Subset, FS_CardinalityType

LEMMA HoldersBegin == RecordsInit => RecordHolders
<1> SUFFICES ASSUME RecordsInit PROVE RecordHolders
  OBVIOUS
<1>1. message_log = <<>> /\ export_record = <<>> /\ Len(message_log) = 0 /\ Len(export_record) = 0
  BY DEF RecordsInit
<1>2. LocksHeld /\ RowsNamed
  BY <1>1 DEF RecordsInit, LocksHeld, RowsNamed
<1>3. RoomForNotes
  BY <1>1, NotingFinite, RecordsAssumption DEF RoomForNotes
<1>4. recordClock <= MaxRecordClock
  BY RecordsAssumption DEF RecordsInit
<1> QED
  BY <1>2, <1>3, <1>4 DEF RecordHolders

\* A request that goes on keeps, gives back or takes locks of its own only.
LEMMA LocksPass ==
  ASSUME LocksHeld, NEW r \in RecordRequest, NEW q, Goes(r, q),
         \/ logLock' = logLock /\ logLock # r
         \/ logLock' = NoHolder
         \/ logLock' = r /\ q.op = "noted",
         \/ childLock' = childLock /\ childLock # r
         \/ childLock' = NoHolder
         \/ childLock' = r /\ q.op = "taking",
         \A p \in Parent :
           \/ payerLock'[p] = payerLock[p] /\ payerLock[p] # r
           \/ payerLock'[p] = NoHolder
           \/ payerLock'[p] = r /\ q.op = "certify" /\ q.by = p
  PROVE  LocksHeld'
<1>1. logLock' # NoHolder => logLock' \in RecordRequest /\ recordReq'[logLock'].op = "noted"
  BY DEF LocksHeld, Goes
<1>2. childLock' # NoHolder => childLock' \in RecordRequest /\ recordReq'[childLock'].op = "taking"
  BY DEF LocksHeld, Goes
<1>3. ASSUME NEW p \in Parent, payerLock'[p] # NoHolder
      PROVE  /\ payerLock'[p] \in RecordRequest
             /\ recordReq'[payerLock'[p]].op = "certify" /\ recordReq'[payerLock'[p]].by = p
  <2>1. CASE payerLock'[p] = payerLock[p] /\ payerLock[p] # r
    BY <1>3, <2>1 DEF LocksHeld, Goes
  <2>2. CASE payerLock'[p] = r /\ q.op = "certify" /\ q.by = p
    BY <2>2 DEF Goes
  <2> QED
    BY <1>3, <2>1, <2>2
<1> QED
  BY <1>1, <1>2, <1>3 DEF LocksHeld

\* A request that does something else than a lock is held for holds none.
LEMMA HoldsNoLock ==
  ASSUME LocksHeld, NEW r \in RecordRequest
  PROVE  /\ recordReq[r].op # "noted" => logLock # r
         /\ recordReq[r].op # "taking" => childLock # r
         /\ recordReq[r].op # "certify" => \A p \in Parent : payerLock[p] # r
BY RecordsAssumption DEF LocksHeld

LEMMA NotingStays ==
  ASSUME NEW r \in RecordRequest, NEW q, Goes(r, q),
         q.op \in {"note", "noted"} <=> recordReq[r].op \in {"note", "noted"}
  PROVE  Noting' = Noting
<1>1. \A p \in RecordRequest :
        recordReq'[p].op \in {"note", "noted"} <=> recordReq[p].op \in {"note", "noted"}
  BY DEF Goes
<1> QED
  BY <1>1 DEF Noting

LEMMA RoomStays ==
  ASSUME RoomForNotes, NEW r \in RecordRequest, NEW q, Goes(r, q), message_log' = message_log,
         q.op \in {"note", "noted"} <=> recordReq[r].op \in {"note", "noted"}
  PROVE  RoomForNotes'
BY NotingStays DEF RoomForNotes

\* A request that reads under no lock, or inserts a bundle.
LEMMA OtherHoldersKept ==
  ASSUME RecordTypes, RecordHolders, NEW r \in RecordRequest, NEW q, Goes(r, q),
         q.op \notin {"note", "noted"}, recordReq[r].op \notin {"note", "noted"},
         message_log' = message_log, logLock' = logLock, recordClock' = recordClock, RowsNamed',
         \/ childLock' = childLock /\ childLock # r
         \/ childLock' = NoHolder
         \/ childLock' = r /\ q.op = "taking",
         \A p \in Parent :
           \/ payerLock'[p] = payerLock[p] /\ payerLock[p] # r
           \/ payerLock'[p] = NoHolder
           \/ payerLock'[p] = r /\ q.op = "certify" /\ q.by = p
  PROVE  RecordHolders'
<1>1. logLock # r
  BY HoldsNoLock DEF RecordHolders
<1>2. LocksHeld'
  BY <1>1, LocksPass DEF RecordHolders
<1>3. RoomForNotes'
  BY RoomStays DEF RecordHolders
<1> QED
  BY <1>2, <1>3 DEF RecordHolders

LEMMA RowsStay ==
  ASSUME RecordHolders, message_log' = message_log, export_record' = export_record
  PROVE  RowsNamed'
BY DEF RecordHolders, RowsNamed

LEMMA BundleNamed ==
  ASSUME RecordTypes, RecordHolders, NEW kind, NEW by \in Parent \cup {"child"}, NEW free, NEW at,
         message_log' = message_log, InsertExport(kind, by, free, at)
  PROVE  RowsNamed'
<1> DEFINE e == [kind |-> kind, by |-> by, free |-> free, at |-> at, notes |-> assembleRawExportBundle]
<1>1. export_record' = Append(export_record, e)
  BY DEF InsertExport
<1>2. e.by = by
  OBVIOUS
<1> HIDE DEF e
<1>3. /\ Len(export_record') = Len(export_record) + 1 /\ Len(export_record) \in Nat
      /\ \A i \in 1 .. Len(export_record) : export_record'[i] = export_record[i]
      /\ export_record'[Len(export_record) + 1] = e
  BY <1>1, AppendedList DEF RecordTypes
<1>4. \A i \in 1 .. Len(export_record') : export_record'[i].by \in Parent \cup {"child"}
  BY <1>2, <1>3 DEF RecordHolders, RowsNamed
<1> QED
  BY <1>4 DEF RecordHolders, RowsNamed

LEMMA NoteRouteHolds ==
  ASSUME RecordTypes, RecordHolders, NEW r \in RecordRequest, NEW p \in Parent, NoteRoute(r, p)
  PROVE  RecordHolders'
<1> PICK q : q = [op |-> "note", by |-> p, asked |-> recordClock]
  OBVIOUS
<1>1. /\ RecordGo(r, q) /\ recordReq[r] = RecordIdle /\ Len(message_log) < MaxNotes
      /\ message_log' = message_log /\ logLock' = logLock /\ recordClock' = recordClock
      /\ export_record' = export_record /\ payerLock' = payerLock /\ childLock' = childLock
  BY DEF NoteRoute, noteRest
<1>2. Goes(r, q) /\ q.op = "note"
  BY <1>1, GoesFacts
<1>3. logLock # r /\ childLock # r /\ \A x \in Parent : payerLock[x] # r
  BY <1>1, IdleRequest, HoldsNoLock DEF RecordHolders
<1>4. LocksHeld'
  BY <1>1, <1>2, <1>3, LocksPass DEF RecordHolders
<1>5. RoomForNotes'
  <2>1. /\ Cardinality(Noting') \in Nat /\ Cardinality(RecordRequest) \in Nat
        /\ Cardinality(Noting') <= Cardinality(RecordRequest)
    <3>1. Noting' \subseteq RecordRequest /\ IsFiniteSet(RecordRequest)
      BY RecordsAssumption DEF Noting
    <3> QED
      BY <3>1, FS_Subset, FS_CardinalityType
  <2>2. Len(message_log) \in Nat /\ MaxNotes \in Nat
    BY ListLength, RecordsAssumption DEF RecordTypes
  <2> QED
    BY <1>1, <2>1, <2>2 DEF RoomForNotes
<1> QED
  BY <1>1, <1>4, <1>5, RowsStay DEF RecordHolders

LEMMA ReadTipHolds ==
  ASSUME RecordTypes, RecordHolders, NEW r \in RecordRequest, ReadTip(r)
  PROVE  RecordHolders'
<1> PICK tip : tip = IF message_log = <<>> THEN NoTip ELSE LastTip
  OBVIOUS
<1> PICK q : q = [op |-> "noted", by |-> recordReq[r].by, at |-> recordClock, tip |-> tip]
  OBVIOUS
<1>1. /\ RecordGo(r, q) /\ recordReq[r].op = "note" /\ logLock' = r
      /\ message_log' = message_log /\ recordClock' = recordClock
      /\ export_record' = export_record /\ payerLock' = payerLock /\ childLock' = childLock
  BY DEF ReadTip, noteRest, NoteAt
<1>2. Goes(r, q) /\ q.op = "noted"
  BY <1>1, GoesFacts
<1>3. childLock # r /\ \A x \in Parent : payerLock[x] # r
  BY <1>1, HoldsNoLock DEF RecordHolders
<1>4. LocksHeld'
  BY <1>1, <1>2, <1>3, LocksPass DEF RecordHolders
<1>5. RoomForNotes'
  BY <1>1, <1>2, RoomStays DEF RecordHolders
<1> QED
  BY <1>1, <1>4, <1>5, RowsStay DEF RecordHolders

LEMMA AppendHolds ==
  ASSUME RecordTypes, RecordHolders, NEW r \in RecordRequest, appendHandoverNote(r)
  PROVE  RecordHolders'
<1> PICK q : q = recordReq[r]
  OBVIOUS
<1> PICK e : e = append(q.tip, q.by, q.at)
  OBVIOUS
<1>1. /\ q.op = "noted" /\ message_log' = Append(message_log, e) /\ RecordGo(r, RecordIdle)
      /\ logLock' = NoHolder /\ recordClock' = recordClock
      /\ export_record' = export_record /\ payerLock' = payerLock /\ childLock' = childLock
  BY DEF appendHandoverNote, noteRest, RecordDone
<1>2. Goes(r, RecordIdle) /\ RecordIdle.op = "none"
  BY <1>1, GoesFacts, IdleRequest
<1>3. childLock # r /\ \A x \in Parent : payerLock[x] # r
  BY <1>1, HoldsNoLock DEF RecordHolders
<1>4. LocksHeld'
  BY <1>1, <1>2, <1>3, LocksPass DEF RecordHolders
<1>5. /\ Len(message_log') = Len(message_log) + 1 /\ Len(message_log) \in Nat
      /\ \A i \in 1 .. Len(message_log) : message_log'[i] = message_log[i]
      /\ message_log'[Len(message_log) + 1] = e
  BY <1>1, AppendedList DEF RecordTypes
<1>6. RowsNamed'
  <2>1. e.author = q.by /\ q.by \in Parent
    BY <1>1, RequestFields DEF append, RecordTypes
  <2>2. \A i \in 1 .. Len(message_log') : message_log'[i].author \in Parent
    BY <1>5, <2>1 DEF RecordHolders, RowsNamed
  <2> QED
    BY <1>1, <2>2 DEF RecordHolders, RowsNamed
<1>7. RoomForNotes'
  <2>1. Noting' = Noting \ {r} /\ r \in Noting
    BY <1>1, <1>2 DEF Noting, Goes
  <2>2. Cardinality(Noting') = Cardinality(Noting) - 1
    BY <2>1, NotingFinite, FS_RemoveElement
  <2> QED
    BY <1>5, <2>2, NotingFinite, RecordsAssumption DEF RoomForNotes, RecordHolders
<1> QED
  BY <1>1, <1>4, <1>6, <1>7 DEF RecordHolders

LEMMA CountHolds ==
  ASSUME RecordTypes, RecordHolders, NEW r \in RecordRequest, NEW courtTier \in BOOLEAN,
         CountExports(r, courtTier)
  PROVE  RecordHolders'
<1> PICK q : q = recordReq[r]
  OBVIOUS
<1>1. /\ q.op = "certified"
      /\ message_log' = message_log /\ logLock' = logLock /\ recordClock' = recordClock
      /\ export_record' = export_record /\ childLock' = childLock
  BY DEF CountExports, exportRest
<1>2. childLock # r /\ \A x \in Parent : payerLock[x] # r
  BY <1>1, HoldsNoLock DEF RecordHolders
<1>3. CASE RecordDone(r) /\ UNCHANGED payerLock
  <2>1. Goes(r, RecordIdle)
    BY <1>1, <1>3, GoesFacts DEF RecordDone
  <2> QED
    BY <1>1, <1>2, <1>3, <2>1, IdleRequest, OtherHoldersKept, RowsStay
<1>4. CASE payerLock' = [payerLock EXCEPT ![q.by] = r] /\ RecordGo(r, Certifying(q))
  <2> PICK c : c = Certifying(q)
    OBVIOUS
  <2>1. c.op = "certify" /\ c.by = q.by
    BY DEF Certifying
  <2>2. Goes(r, c)
    BY <1>1, <1>4, <2>1, GoesFacts
  <2>3. q.by \in Parent
    BY <1>1, RequestFields DEF RecordTypes, Exporting
  <2>4. /\ payerLock'[q.by] = r
        /\ \A p \in Parent : p # q.by => payerLock'[p] = payerLock[p]
    BY <1>4, <2>3 DEF RecordTypes
  <2> QED
    BY <1>1, <1>2, <2>1, <2>2, <2>4, OtherHoldersKept, RowsStay
<1> QED
  BY <1>3, <1>4 DEF CountExports

LEMMA CertifyHolds ==
  ASSUME RecordTypes, RecordHolders, NEW r \in RecordRequest, certifiedExportBundleFor(r)
  PROVE  RecordHolders'
<1> PICK q : q = recordReq[r]
  OBVIOUS
<1>1. /\ q.op = "certify" /\ InsertExport("certified", q.by, q.free, q.began)
      /\ payerLock' = [p \in Parent |-> IF payerLock[p] = r THEN NoHolder ELSE payerLock[p]]
      /\ RecordGo(r, RecordIdle)
      /\ message_log' = message_log /\ logLock' = logLock /\ recordClock' = recordClock
      /\ childLock' = childLock
  BY DEF certifiedExportBundleFor, RecordDone, exportRest
<1>2. Goes(r, RecordIdle) /\ RecordIdle.op = "none"
  BY <1>1, GoesFacts, IdleRequest
<1>3. childLock # r
  BY <1>1, HoldsNoLock DEF RecordHolders
<1>4. \A p \in Parent : (payerLock'[p] = payerLock[p] /\ payerLock[p] # r) \/ payerLock'[p] = NoHolder
  BY <1>1
<1>5. q.by \in Parent
  BY <1>1, RequestFields DEF RecordTypes
<1>6. RowsNamed'
  BY <1>1, <1>5, BundleNamed
<1> QED
  BY <1>1, <1>2, <1>3, <1>4, <1>6, OtherHoldersKept

LEMMA RawHolds ==
  ASSUME RecordTypes, RecordHolders, NEW r \in RecordRequest, rawExportBundleFor(r)
  PROVE  RecordHolders'
<1> PICK q : q = recordReq[r]
  OBVIOUS
<1>1. /\ q.op \in {"raw", "raw_read"}
      /\ payerLock' = payerLock /\ message_log' = message_log /\ logLock' = logLock
      /\ recordClock' = recordClock /\ childLock' = childLock
  BY DEF rawExportBundleFor, exportRest
<1>2. childLock # r /\ \A x \in Parent : payerLock[x] # r
  BY <1>1, HoldsNoLock DEF RecordHolders
<1>3. q \in Exporting /\ q.by \in Parent
  <2>1. q \in Exporting
    BY <1>1, RequestFields DEF RecordTypes
  <2> QED
    BY <2>1 DEF Exporting
<1>4. CASE /\ RecordGo(r, IF guardianship[q.by] THEN [q EXCEPT !.op = "raw_read"] ELSE RecordIdle)
           /\ UNCHANGED export_record
  <2> PICK s : s = IF guardianship[q.by] THEN [q EXCEPT !.op = "raw_read"] ELSE RecordIdle
    OBVIOUS
  <2>1. Goes(r, s)
    BY <1>4, GoesFacts
  <2>2. s.op \in {"raw_read", "none"}
    BY <1>3, IdleRequest DEF Exporting
  <2> QED
    BY <1>1, <1>2, <1>4, <2>1, <2>2, OtherHoldersKept, RowsStay
<1>5. CASE InsertExport("raw", q.by, TRUE, q.began) /\ RecordDone(r)
  <2>1. Goes(r, RecordIdle) /\ RecordIdle.op = "none"
    BY <1>5, GoesFacts, IdleRequest DEF RecordDone
  <2>2. RowsNamed'
    BY <1>1, <1>3, <1>5, BundleNamed
  <2> QED
    BY <1>1, <1>2, <2>1, <2>2, OtherHoldersKept
<1> QED
  BY <1>4, <1>5 DEF rawExportBundleFor

\* A request that is let in: it reads nothing yet.
LEMMA LetInHolds ==
  ASSUME RecordTypes, RecordHolders, NEW r \in RecordRequest,
         \/ HandoverRoute(r)
         \/ \E p \in Parent, kind \in {"raw", "certified"} : ExportRoute(r, kind, p)
  PROVE  RecordHolders'
<1>1. PICK q : RecordGo(r, q) /\ q.op \in {"raw", "certified", "take"}
  <2>1. CASE HandoverRoute(r)
    <3> PICK q : q = [op |-> "take", now |-> recordClock]
      OBVIOUS
    <3>1. RecordGo(r, q)
      BY <2>1 DEF HandoverRoute, ReadJournal
    <3>2. q.op = "take"
      OBVIOUS
    <3> QED
      BY <3>1, <3>2
  <2>2. ASSUME NEW p \in Parent, NEW kind \in {"raw", "certified"}, ExportRoute(r, kind, p)
        PROVE  \E q : RecordGo(r, q) /\ q.op \in {"raw", "certified", "take"}
    <3> PICK q : q = [op |-> kind, by |-> p, began |-> recordClock]
      OBVIOUS
    <3>1. RecordGo(r, q)
      BY <2>2 DEF ExportRoute
    <3>2. q.op \in {"raw", "certified"}
      OBVIOUS
    <3> QED
      BY <3>1, <3>2
  <2> QED
    BY <2>1, <2>2
<1>2. /\ recordReq[r] = RecordIdle
      /\ message_log' = message_log /\ logLock' = logLock /\ recordClock' = recordClock
      /\ export_record' = export_record /\ payerLock' = payerLock /\ childLock' = childLock
  BY DEF HandoverRoute, ReadJournal, ExportRoute, noteRest
<1>3. Goes(r, q)
  BY <1>1, GoesFacts
<1>4. childLock # r /\ \A x \in Parent : payerLock[x] # r
  BY <1>2, IdleRequest, HoldsNoLock DEF RecordHolders
<1> QED
  BY <1>1, <1>2, <1>3, <1>4, IdleRequest, OtherHoldersKept, RowsStay

LEMMA LockChildHolds ==
  ASSUME RecordTypes, RecordHolders, NEW r \in RecordRequest, LockChild(r)
  PROVE  RecordHolders'
<1> PICK q : q = recordReq[r]
  OBVIOUS
<1>1. /\ q.op = "take"
      /\ message_log' = message_log /\ logLock' = logLock /\ recordClock' = recordClock
      /\ export_record' = export_record /\ payerLock' = payerLock
  BY DEF LockChild, takeRest
<1>2. childLock # r /\ \A x \in Parent : payerLock[x] # r
  BY <1>1, HoldsNoLock DEF RecordHolders
<1>3. CASE RecordDone(r) /\ UNCHANGED childLock
  <2>1. Goes(r, RecordIdle)
    BY <1>3, GoesFacts DEF RecordDone
  <2> QED
    BY <1>1, <1>2, <1>3, <2>1, IdleRequest, OtherHoldersKept, RowsStay
<1>4. CASE childLock' = r /\ RecordGo(r, [q EXCEPT !.op = "taking"])
  <2> PICK s : s = [q EXCEPT !.op = "taking"]
    OBVIOUS
  <2>1. s.op = "taking"
    <3>1. q \in Taking
      BY <1>1, RequestFields DEF RecordTypes
    <3> QED
      BY <3>1 DEF Taking
  <2>2. Goes(r, s)
    BY <1>4, GoesFacts
  <2> QED
    BY <1>1, <1>2, <1>4, <2>1, <2>2, OtherHoldersKept, RowsStay
<1> QED
  BY <1>3, <1>4 DEF LockChild

LEMMA TakeAndGoHolds ==
  ASSUME RecordTypes, RecordHolders, NEW r \in RecordRequest, takeAndGo(r)
  PROVE  RecordHolders'
<1> PICK q : q = recordReq[r]
  OBVIOUS
<1>1. /\ q.op = "taking" /\ InsertExport("raw", "child", TRUE, q.now)
      /\ childLock' = NoHolder /\ RecordGo(r, RecordIdle)
      /\ message_log' = message_log /\ logLock' = logLock /\ payerLock' = payerLock
      /\ recordClock' = recordClock
  BY DEF takeAndGo, takeRest, RecordDone
<1>2. Goes(r, RecordIdle) /\ RecordIdle.op = "none"
  BY <1>1, GoesFacts, IdleRequest
<1>3. \A x \in Parent : payerLock[x] # r
  BY <1>1, HoldsNoLock DEF RecordHolders
<1>4. RowsNamed'
  BY <1>1, BundleNamed
<1> QED
  BY <1>1, <1>2, <1>3, <1>4, OtherHoldersKept

\* The clock, her death, and no step at all, are of no request.
LEMMA AsideHolds ==
  ASSUME RecordTypes, RecordHolders, ChildDies \/ RecordTick \/ UNCHANGED recordVars
  PROVE  RecordHolders'
<1>1. /\ message_log' = message_log /\ logLock' = logLock /\ payerLock' = payerLock
      /\ export_record' = export_record /\ recordReq' = recordReq /\ childLock' = childLock
  BY Zenon DEF ChildDies, RecordTick, recordVars
<1>2. recordClock' <= MaxRecordClock
  BY RecordsAssumption DEF ChildDies, RecordTick, recordVars, RecordTypes, RecordHolders
<1>3. LocksHeld' /\ RowsNamed'
  BY <1>1 DEF RecordHolders, LocksHeld, RowsNamed
<1>4. Noting' = Noting
  BY <1>1 DEF Noting
<1>5. RoomForNotes'
  BY <1>1, <1>4 DEF RecordHolders, RoomForNotes
<1> QED
  BY <1>2, <1>3, <1>5 DEF RecordHolders

LEMMA NextHolders ==
  ASSUME RecordInv, RecordHolders, [RecordsNext]_recordVars
  PROVE  RecordHolders'
<1>0. RecordTypes
  BY DEF RecordInv
<1>1. ASSUME NEW r \in RecordRequest, RecordServe(r) PROVE RecordHolders'
  BY <1>0, <1>1, ReadTipHolds, AppendHolds, CountHolds, CertifyHolds, RawHolds, LockChildHolds,
     TakeAndGoHolds DEF RecordServe
<1>2. ASSUME NEW r \in RecordRequest, HandoverRoute(r) PROVE RecordHolders'
  BY <1>0, <1>2, LetInHolds
<1>3. ASSUME NEW r \in RecordRequest, NEW p \in Parent,
             NoteRoute(r, p) \/ \E kind \in {"raw", "certified"} : ExportRoute(r, kind, p)
      PROVE  RecordHolders'
  BY <1>0, <1>3, NoteRouteHolds, LetInHolds
<1> QED
  BY <1>0, <1>1, <1>2, <1>3, AsideHolds DEF RecordsNext

LEMMA RecordsTyped == RecordInv /\ RecordHolders => RecordsTypeOK
<1> SUFFICES ASSUME RecordInv, RecordHolders PROVE RecordsTypeOK
  OBVIOUS
<1>1. Len(message_log) <= MaxNotes + Cardinality(RecordRequest)
  <2>1. Len(message_log) \in Nat /\ MaxNotes \in Nat
    BY ListLength, RecordsAssumption DEF RecordInv, RecordTypes
  <2> QED
    BY <2>1, NotingFinite DEF RecordHolders, RoomForNotes
<1>2. recordClock \in RecordInstants
  BY RecordsAssumption DEF RecordInv, RecordTypes, RecordHolders, RecordInstants
<1>3. \A i \in 1 .. Len(message_log) :
        message_log[i].author \in Parent /\ message_log[i].at \in RecordInstants
  <2> SUFFICES ASSUME NEW i \in 1 .. Len(message_log)
               PROVE  message_log[i].author \in Parent /\ message_log[i].at \in RecordInstants
    OBVIOUS
  <2>1. message_log[i].at \in Nat /\ message_log[i].at <= recordClock
    BY DEF RecordInv, NotesInv, ChainOK
  <2>2. message_log[i].at \in RecordInstants
    BY <1>2, <2>1, RecordsAssumption DEF RecordInstants
  <2> QED
    BY <2>2 DEF RecordHolders, RowsNamed
<1>4. /\ \A i \in 1 .. Len(export_record) : export_record[i].by \in Parent \cup {"child"}
      /\ guardianship \in [Parent -> BOOLEAN]
  BY DEF RecordInv, RecordTypes, RecordHolders, RowsNamed
<1> QED
  BY <1>1, <1>2, <1>3, <1>4 DEF RecordsTypeOK, RecordHolders, LocksHeld

\* pool.ts: the values of the rows, for any number of parents and requests; and a lock
\* is always that of a request with something left to write under it.
THEOREM RecordTypesHold == RecordsSpec => []RecordsTypeOK
<1>1. RecordInv /\ RecordHolders /\ [RecordsNext]_recordVars => (RecordInv /\ RecordHolders)'
  BY NextRecords, NothingRecorded, NextHolders
<1> QED
  BY <1>1, RecordsBegin, HoldersBegin, RecordsTyped, PTL DEF RecordsSpec


-----------------------------------------------------------------------------
(* Doses. *)

DoseRequests ==
  [pc : {"idle"}] \cup [pc : {"inserted", "ok", "failed", "clashed"}, status : DoseStatus]
  \cup [pc : {"refused"}, status : DoseStatus, blockedBy : DoseRequest \cup {Unset}]

\* In the index of given doses, committed or not.
Entered(r) == doseReq[r].pc \in {"inserted", "ok"} /\ doseReq[r].status = "given"

DoseOf(r) == [by |-> r, status |-> doseReq[r].status]

\* The rows of the table are those of the requests that committed.
DosesWereLogged ==
  /\ \A d \in medication_dose : \E r \in DoseRequest : doseReq[r].pc = "ok" /\ d = DoseOf(r)
  /\ \A r \in DoseRequest : doseReq[r].pc = "ok" => DoseOf(r) \in medication_dose

\* The index lets in one given dose at a time, and turns away only for a row.
IndexIsUnique ==
  /\ \A r, s \in DoseRequest : Entered(r) /\ Entered(s) => r = s
  /\ \A r \in DoseRequest : doseReq[r].pc = "clashed" => \E d \in medication_dose : d.status = "given"

DoseInv ==
  /\ doseReq \in [DoseRequest -> DoseRequests]
  /\ DosesWereLogged /\ IndexIsUnique /\ RefusedByARealDose

\* A request that is in the index ends with the status it asked for.
LEMMA EndedDose ==
  ASSUME NEW q \in DoseRequests, q.pc = "inserted", NEW pc \in {"ok", "failed"}
  PROVE  /\ [q EXCEPT !.pc = pc] \in DoseRequests
         /\ [q EXCEPT !.pc = pc].pc = pc /\ [q EXCEPT !.pc = pc].status = q.status
BY DEF DoseRequests, DoseStatus

\* A dose has the status its request asked for.
LEMMA DoseFields ==
  ASSUME NEW r PROVE DoseOf(r).by = r /\ DoseOf(r).status = doseReq[r].status
BY DEF DoseOf

LEMMA DosesBegin == ChildRecordsInit => DoseInv
<1> SUFFICES ASSUME ChildRecordsInit PROVE DoseInv
  OBVIOUS
<1>1. doseReq = [r \in DoseRequest |-> [pc |-> "idle"]] /\ medication_dose = {}
  BY DEF ChildRecordsInit
<1>2. doseReq \in [DoseRequest -> DoseRequests]
  BY <1>1 DEF DoseRequests
<1>3. \A r \in DoseRequest : doseReq[r].pc = "idle"
  BY <1>1
<1> QED
  BY <1>1, <1>2, <1>3 DEF DoseInv, DosesWereLogged, IndexIsUnique, RefusedByARealDose, Entered

\* A request that enters the index finds nobody in it, or no committed row.
LEMMA InsertKeeps ==
  ASSUME DoseInv, NEW r \in DoseRequest, NEW status \in DoseStatus, InsertDose(r, status)
  PROVE  DoseInv'
<1> DEFINE q == [pc |-> IF status = "given" /\ \E d \in medication_dose : d.status = "given"
                        THEN "clashed" ELSE "inserted", status |-> status]
<1>1. doseReq[r].pc = "idle" /\ doseReq' = [doseReq EXCEPT ![r] = q] /\ medication_dose' = medication_dose
  BY DEF InsertDose
<1>2. q \in DoseRequests /\ q.pc \in {"clashed", "inserted"} /\ q.status = status
  BY DEF DoseRequests
<1>3. doseReq' \in [DoseRequest -> DoseRequests] /\ doseReq'[r] = q
      /\ \A s \in DoseRequest \ {r} : doseReq'[s] = doseReq[s]
  BY <1>1, <1>2 DEF DoseInv
<1> HIDE DEF q
<1>4. DosesWereLogged'
  BY <1>1, <1>2, <1>3 DEF DoseInv, DosesWereLogged, DoseOf
<1>5. RefusedByARealDose'
  BY <1>1, <1>2, <1>3 DEF DoseInv, RefusedByARealDose, dosesForDate
<1>6. q.pc = "clashed" => \E d \in medication_dose : d.status = "given"
  BY DEF q
<1>7. ASSUME q.pc = "inserted", status = "given", NEW s \in DoseRequest PROVE ~Entered(s)
  <2>1. ~\E d \in medication_dose : d.status = "given"
    BY <1>7 DEF q
  <2>2. doseReq[s].pc = "ok" => doseReq[s].status # "given"
    BY <2>1, DoseFields DEF DoseInv, DosesWereLogged
  <2>3. ~(doseReq[s].pc = "inserted" /\ doseReq[s].status = "given")
    BY <1>7 DEF InsertDose, GivenBy
  <2> QED
    BY <2>2, <2>3 DEF Entered
<1>8. IndexIsUnique'
  <2>1. ~Entered(r)
    BY <1>1 DEF Entered
  <2>2. \A s \in DoseRequest \ {r} : Entered(s)' <=> Entered(s)
    BY <1>3 DEF Entered
  <2>3. Entered(r)' => q.pc = "inserted" /\ status = "given"
    BY <1>2, <1>3 DEF Entered
  <2>4. \A s, t \in DoseRequest : Entered(s)' /\ Entered(t)' => s = t
    BY <1>7, <2>1, <2>2, <2>3 DEF DoseInv, IndexIsUnique
  <2> QED
    BY <1>1, <1>3, <1>6, <2>4 DEF DoseInv, IndexIsUnique
<1> QED
  BY <1>3, <1>4, <1>5, <1>8 DEF DoseInv

\* A commit adds the row of who is in the index; a broken connection adds none.
LEMMA EndKeeps ==
  ASSUME DoseInv, NEW r \in DoseRequest, CommitDose(r) \/ AbortDose(r)
  PROVE  DoseInv'
<1>1. PICK pc \in {"ok", "failed"} :
        /\ doseReq' = [doseReq EXCEPT ![r].pc = pc]
        /\ pc = "ok" => medication_dose' = medication_dose \cup {DoseOf(r)}
        /\ pc = "failed" => medication_dose' = medication_dose
  BY Zenon DEF CommitDose, AbortDose, DoseOf
<1>2. doseReq[r].pc = "inserted" /\ doseReq[r] \in DoseRequests
  BY DEF CommitDose, AbortDose, DoseInv
<1> DEFINE q == [doseReq[r] EXCEPT !.pc = pc]
<1>3. q \in DoseRequests /\ q.pc = pc /\ q.status = doseReq[r].status
  BY <1>2, EndedDose
<1>4. doseReq' \in [DoseRequest -> DoseRequests] /\ doseReq'[r] = q
      /\ \A s \in DoseRequest \ {r} : doseReq'[s] = doseReq[s]
  BY <1>1, <1>3 DEF DoseInv
<1> HIDE DEF q
<1>5. medication_dose \subseteq medication_dose'
  BY <1>1
<1>6. \A s \in DoseRequest : DoseOf(s)' = DoseOf(s)
  BY <1>3, <1>4 DEF DoseOf
<1>7. DosesWereLogged'
  <2>1. ASSUME NEW d \in medication_dose'
        PROVE  \E s \in DoseRequest : doseReq'[s].pc = "ok" /\ d = DoseOf(s)'
    <3>1. CASE d \in medication_dose
      <4>1. PICK s \in DoseRequest : doseReq[s].pc = "ok" /\ d = DoseOf(s)
        BY <3>1 DEF DoseInv, DosesWereLogged
      <4> QED
        BY <1>2, <1>4, <1>6, <4>1
    <3>2. CASE d \notin medication_dose
      <4>1. pc = "ok" /\ d = DoseOf(r)
        BY <1>1, <2>1, <3>2
      <4> QED
        BY <1>3, <1>4, <1>6, <4>1
    <3> QED
      BY <3>1, <3>2
  <2>2. ASSUME NEW s \in DoseRequest, doseReq'[s].pc = "ok" PROVE DoseOf(s)' \in medication_dose'
    BY <1>1, <1>3, <1>4, <1>5, <1>6, <2>2 DEF DoseInv, DosesWereLogged
  <2> QED
    BY <2>1, <2>2 DEF DosesWereLogged
<1>8. IndexIsUnique'
  <2>1. \A s \in DoseRequest : Entered(s)' => Entered(s)
    BY <1>2, <1>3, <1>4 DEF Entered
  <2> QED
    BY <1>1, <1>3, <1>4, <1>5, <2>1 DEF DoseInv, IndexIsUnique
<1>9. RefusedByARealDose'
  BY <1>1, <1>3, <1>4, <1>5 DEF DoseInv, RefusedByARealDose, dosesForDate
<1> QED
  BY <1>4, <1>7, <1>8, <1>9 DEF DoseInv

\* The row the index turned her away for is still there for the second SELECT.
LEMMA RefuseKeeps ==
  ASSUME DoseInv, NEW r \in DoseRequest, RefuseDose(r)
  PROVE  DoseInv'
<1> DEFINE given == {d \in medication_dose : d.status = "given"}
           who == (CHOOSE d \in given : TRUE).by
           q == [pc |-> "refused", status |-> "given", blockedBy |-> who]
<1>1. given # {} /\ doseReq[r].pc = "clashed"
  BY DEF RefuseDose, DoseInv, IndexIsUnique
<1>2. doseReq' = [doseReq EXCEPT ![r] = q] /\ medication_dose' = medication_dose
  BY <1>1 DEF RefuseDose
<1>3. PICK d \in given : d = CHOOSE e \in given : TRUE
  BY <1>1
<1>4. PICK s \in DoseRequest : d = DoseOf(s)
  BY <1>3 DEF DoseInv, DosesWereLogged
<1>5. who = s /\ [by |-> who, status |-> "given"] = d
  BY <1>3, <1>4, DoseFields DEF DoseOf
<1>6. q \in DoseRequests /\ q.pc = "refused" /\ q.blockedBy = who
  BY <1>5 DEF DoseRequests, DoseStatus
<1> HIDE DEF q, who
<1>7. doseReq' \in [DoseRequest -> DoseRequests] /\ doseReq'[r] = q
      /\ \A t \in DoseRequest \ {r} : doseReq'[t] = doseReq[t]
  BY <1>2, <1>6 DEF DoseInv
<1>8. RefusedByARealDose'
  BY <1>2, <1>3, <1>5, <1>6, <1>7 DEF DoseInv, RefusedByARealDose, dosesForDate
<1>9. DosesWereLogged' /\ IndexIsUnique'
  BY <1>1, <1>2, <1>6, <1>7 DEF DoseInv, DosesWereLogged, IndexIsUnique, DoseOf, Entered
<1> QED
  BY <1>7, <1>8, <1>9 DEF DoseInv

LEMMA NextDoses == DoseInv /\ (DoseNext \/ UNCHANGED doseVars) => DoseInv'
<1>1. ASSUME DoseInv, UNCHANGED doseVars PROVE DoseInv'
  BY <1>1, Zenon DEF doseVars, DoseInv, DosesWereLogged, IndexIsUnique, RefusedByARealDose, Entered, DoseOf,
     dosesForDate
<1> QED
  BY <1>1, InsertKeeps, EndKeeps, RefuseKeeps DEF DoseNext, recordDose

\* Of a set no two of whose elements differ there is at most one.
LEMMA OneOrNone ==
  ASSUME NEW S, \A a, b \in S : a = b PROVE Cardinality(S) <= 1
<1>1. CASE S = {}
  BY <1>1, FS_EmptySet
<1>2. CASE S # {}
  <2>1. PICK a : S = {a}
    BY <1>2
  <2> QED
    BY <2>1, FS_Singleton
<1> QED
  BY <1>1, <1>2

LEMMA DosesHold == DoseInv => GivenOnce /\ RefusedByARealDose
<1> SUFFICES ASSUME DoseInv PROVE GivenOnce
  BY DEF DoseInv
<1>1. \A r, s \in GivenBy("ok") : r = s
  BY DEF DoseInv, IndexIsUnique, GivenBy, Entered
<1>2. \A d, e \in {d \in dosesForDate : d.status = "given"} : d = e
  <2> SUFFICES ASSUME NEW d \in medication_dose, NEW e \in medication_dose,
                      d.status = "given", e.status = "given"
               PROVE  d = e
    BY DEF dosesForDate
  <2>1. PICK r \in DoseRequest : doseReq[r].pc = "ok" /\ d = DoseOf(r)
    BY DEF DoseInv, DosesWereLogged
  <2>2. PICK s \in DoseRequest : doseReq[s].pc = "ok" /\ e = DoseOf(s)
    BY DEF DoseInv, DosesWereLogged
  <2> QED
    BY <2>1, <2>2, DoseFields DEF DoseInv, IndexIsUnique, Entered
<1> QED
  BY <1>1, <1>2, OneOrNone DEF GivenOnce

-----------------------------------------------------------------------------
(* Letters. *)

Ages == FirstAge .. LastAge

LetterRequests ==
  [pc : {"idle"}] \cup [pc : {"refused"}] \cup [pc : {"may_open", "opened"}, letter : Letter]

SealedRows ==
  [sealed : BOOLEAN, written_at_age : Ages, open_at_age : Int, opened_at : Ages \cup {Unset},
   by : LetterRequest \cup {Unset}]

GoneLetter == [sealed |-> FALSE, gone |-> TRUE]

LetterTypes ==
  /\ age \in Ages
  /\ letterReq \in [LetterRequest -> LetterRequests]
  /\ letter = [l \in Letter |-> letter[l]]
  /\ \A l \in Letter : letter[l].sealed => letter[l] \in SealedRows

\* A sealed letter waits for its age, and is open only after it.
SealIsKept ==
  \A l \in Letter : letter[l].sealed =>
    /\ letter[l].open_at_age \in (letter[l].written_at_age + MIN_SEAL_YEARS) .. MAX_SEAL_TO_AGE
    /\ letter[l].opened_at # Unset => letter[l].open_at_age <= age

\* Who was let past the SELECT found a letter whose age has come; an id once used is
\* never used again, so it is still that letter, opened by somebody, or gone.
DeviceKnows(r) ==
  LET l == letterReq[r].letter IN
  /\ letterReq[r].pc \in {"may_open", "opened"} => letter[l] # NoLetter
  /\ letterReq[r].pc = "may_open" /\ letter[l].sealed => letter[l].open_at_age <= age
  /\ letterReq[r].pc = "opened" => ~StillSealed(l)

OpenedByOne ==
  \A r, s \in LetterRequest :
    letterReq[r].pc = "opened" /\ letterReq[s].pc = "opened"
      /\ letterReq[r].letter = letterReq[s].letter => r = s

LetterInv ==
  LetterTypes /\ SealIsKept /\ (\A r \in LetterRequest : DeviceKnows(r)) /\ OpenedByOne

\* No row is taken for another: there is none, it is sealed, or it is gone.
LEMMA LetterKinds ==
  /\ ~NoLetter.sealed /\ ~GoneLetter.sealed /\ GoneLetter # NoLetter
  /\ \A row \in SealedRows : row # NoLetter
<1>1. DOMAIN NoLetter = {"sealed"} /\ DOMAIN GoneLetter = {"sealed", "gone"}
  BY DEF NoLetter, GoneLetter
<1>2. \A row \in SealedRows : "by" \in DOMAIN row
  BY DEF SealedRows
<1>3. "by" \notin {"sealed"} /\ "gone" \notin {"sealed"}
  OBVIOUS
<1>4. ~NoLetter.sealed /\ ~GoneLetter.sealed
  BY Zenon DEF NoLetter, GoneLetter
<1> QED
  BY <1>1, <1>2, <1>3, <1>4

LEMMA LetterRequestFacts ==
  ASSUME NEW q \in LetterRequests
  PROVE  /\ q.pc \in {"idle", "refused", "may_open", "opened"}
         /\ q.pc \in {"may_open", "opened"} => q.letter \in Letter
         /\ q.pc = "may_open" =>
              LET p == [q EXCEPT !.pc = "opened"]
              IN  p \in LetterRequests /\ p.pc = "opened" /\ p.letter = q.letter
BY DEF LetterRequests

LEMMA LettersBegin == ChildRecordsInit => LetterInv
<1> SUFFICES ASSUME ChildRecordsInit PROVE LetterInv
  OBVIOUS
<1>1. /\ letter = [l \in Letter |-> NoLetter] /\ age = FirstAge
      /\ letterReq = [r \in LetterRequest |-> LetterIdle]
  BY DEF ChildRecordsInit
<1>2. LetterIdle \in LetterRequests /\ LetterIdle.pc = "idle"
  BY DEF LetterRequests, LetterIdle
<1>3. \A l \in Letter : ~letter[l].sealed
  BY <1>1, LetterKinds
<1>4. age \in Ages
  BY <1>1, ChildRecordsAssumption DEF Ages
<1> QED
  BY <1>1, <1>2, <1>3, <1>4 DEF LetterInv, LetterTypes, SealIsKept, DeviceKnows, OpenedByOne

\* A new letter is nobody's that any device asked for.
LEMMA SealKeeps ==
  ASSUME LetterInv, NEW l \in Letter, NEW openAtAge \in FirstAge .. (LastAge + 1),
         sealLetterRow(l, openAtAge)
  PROVE  LetterInv'
<1> DEFINE row == [sealed |-> TRUE, written_at_age |-> age, open_at_age |-> openAtAge,
                   opened_at |-> Unset, by |-> Unset]
<1>1. /\ letter[l] = NoLetter /\ letter' = [letter EXCEPT ![l] = row]
      /\ letterReq' = letterReq /\ age' = age
      /\ openAtAge - age >= MIN_SEAL_YEARS /\ openAtAge <= MAX_SEAL_TO_AGE
  BY DEF sealLetterRow
<1>2. age \in Ages /\ age \in Nat /\ openAtAge \in Int
  BY ChildRecordsAssumption DEF LetterInv, LetterTypes, Ages
<1>3. /\ row \in SealedRows /\ row.open_at_age = openAtAge
      /\ row.written_at_age = age /\ row.opened_at = Unset
  <2>1. PICK b \in BOOLEAN : b = TRUE
    OBVIOUS
  <2>2. row = [sealed |-> b, written_at_age |-> age, open_at_age |-> openAtAge,
               opened_at |-> Unset, by |-> Unset]
    BY <2>1, Zenon
  <2> QED
    BY <1>2, <2>2 DEF SealedRows
<1>4. openAtAge \in (age + MIN_SEAL_YEARS) .. MAX_SEAL_TO_AGE
  BY <1>1, <1>2, ChildRecordsAssumption
<1> HIDE DEF row
<1>5. letter'[l] = row /\ (\A m \in Letter \ {l} : letter'[m] = letter[m])
      /\ letter' = [m \in Letter |-> letter'[m]]
  BY <1>1 DEF LetterInv, LetterTypes
<1>6. LetterTypes' /\ SealIsKept'
  BY <1>1, <1>3, <1>4, <1>5 DEF LetterInv, LetterTypes, SealIsKept, Ages
<1>7. ASSUME NEW r \in LetterRequest PROVE DeviceKnows(r)'
  <2>1. letterReq[r] \in LetterRequests /\ DeviceKnows(r)
    BY DEF LetterInv, LetterTypes
  <2>2. letterReq[r].pc \in {"may_open", "opened"} =>
          letterReq[r].letter \in Letter /\ letterReq[r].letter # l
    BY <1>1, <2>1, LetterRequestFacts DEF DeviceKnows
  <2> QED
    BY <1>1, <1>5, <2>1, <2>2 DEF DeviceKnows, StillSealed
<1> QED
  BY <1>1, <1>6, <1>7 DEF LetterInv, OpenedByOne

\* The SELECT remembers a letter whose age has come.
LEMMA ReadKeeps ==
  ASSUME LetterInv, NEW r \in LetterRequest, NEW l \in Letter, ReadLetter(r, l)
  PROVE  LetterInv'
<1>1. PICK q \in LetterRequests :
        /\ letterReq' = [letterReq EXCEPT ![r] = q] /\ letter' = letter /\ age' = age
        /\ \/ q.pc = "refused"
           \/ q.pc = "may_open" /\ q.letter = l /\ letter[l].sealed /\ age >= letter[l].open_at_age
  <2>1. CASE letter[l].sealed /\ letter[l].opened_at = Unset /\ age >= letter[l].open_at_age
    <3> DEFINE p == [pc |-> "may_open", letter |-> l]
    <3>1. p \in LetterRequests /\ p.pc = "may_open" /\ p.letter = l
      BY DEF LetterRequests
    <3>2. letterReq' = [letterReq EXCEPT ![r] = p] /\ letter' = letter /\ age' = age
      BY <2>1 DEF ReadLetter
    <3> QED
      BY <2>1, <3>1, <3>2
  <2>2. CASE ~(letter[l].sealed /\ letter[l].opened_at = Unset /\ age >= letter[l].open_at_age)
    <3> DEFINE p == [pc |-> "refused"]
    <3>1. p \in LetterRequests /\ p.pc = "refused"
      BY DEF LetterRequests
    <3>2. letterReq' = [letterReq EXCEPT ![r] = p] /\ letter' = letter /\ age' = age
      BY <2>2 DEF ReadLetter
    <3> QED
      BY <3>1, <3>2
  <2> QED
    BY <2>1, <2>2
<1>2. letterReq' \in [LetterRequest -> LetterRequests] /\ letterReq'[r] = q
      /\ \A s \in LetterRequest \ {r} : letterReq'[s] = letterReq[s]
  BY <1>1 DEF LetterInv, LetterTypes
<1>3. LetterTypes' /\ SealIsKept'
  BY <1>1, <1>2 DEF LetterInv, LetterTypes, SealIsKept
<1>4. DeviceKnows(r)'
  <2>1. q.pc = "may_open" => letter[l] # NoLetter /\ letter[l].open_at_age <= age
    <3>1. q.pc = "may_open" => letter[l] \in SealedRows /\ letter[l].open_at_age \in Int /\ age \in Int
      BY <1>1, ChildRecordsAssumption DEF LetterInv, LetterTypes, SealedRows, Ages
    <3> QED
      BY <1>1, <3>1, LetterKinds
  <2> QED
    BY <1>1, <1>2, <2>1 DEF DeviceKnows
<1>5. \A s \in LetterRequest \ {r} : DeviceKnows(s)'
  BY <1>1, <1>2 DEF LetterInv, DeviceKnows, StillSealed
<1>6. OpenedByOne'
  BY <1>1, <1>2 DEF LetterInv, OpenedByOne
<1> QED
  BY <1>3, <1>4, <1>5, <1>6 DEF LetterInv

\* The UPDATE opens only what is still sealed, whoever else was let past the SELECT.
LEMMA OpenKeeps ==
  ASSUME LetterInv, NEW r \in LetterRequest, openLetterRow(r)
  PROVE  LetterInv'
<1>0. PICK l \in Letter : l = letterReq[r].letter
  BY LetterRequestFacts DEF openLetterRow, LetterInv, LetterTypes
<1> DEFINE row == [letter[l] EXCEPT !.opened_at = age, !.by = r]
           q == [letterReq[r] EXCEPT !.pc = "opened"]
<1>1. /\ letterReq[r].pc = "may_open" /\ letterReq[r] \in LetterRequests
      /\ age' = age /\ age \in Ages /\ DeviceKnows(r)
  BY LetterRequestFacts DEF openLetterRow, LetterInv, LetterTypes
<1>2. q \in LetterRequests /\ q.pc = "opened" /\ q.letter = l
  BY <1>0, <1>1, LetterRequestFacts
<1>3. CASE StillSealed(l)
  <2>1. letterReq' = [letterReq EXCEPT ![r] = q] /\ letter' = [letter EXCEPT ![l] = row]
    BY <1>0, <1>3 DEF openLetterRow, LetterInv, LetterTypes
  <2>2. letter[l] \in SealedRows /\ letter[l].sealed
    BY <1>1, <1>3 DEF StillSealed, LetterInv, LetterTypes
  <2>3. /\ row \in SealedRows /\ row.opened_at = age /\ row.sealed = letter[l].sealed
        /\ row.open_at_age = letter[l].open_at_age /\ row.written_at_age = letter[l].written_at_age
    BY <1>1, <2>2 DEF SealedRows
  <2> HIDE DEF row, q
  <2>4. letter'[l] = row /\ (\A m \in Letter \ {l} : letter'[m] = letter[m])
        /\ letter' = [m \in Letter |-> letter'[m]]
    BY <1>1, <2>1 DEF LetterInv, LetterTypes
  <2>5. letterReq' \in [LetterRequest -> LetterRequests] /\ letterReq'[r] = q
        /\ \A s \in LetterRequest \ {r} : letterReq'[s] = letterReq[s]
    BY <1>2, <2>1 DEF LetterInv, LetterTypes
  <2>6. age # Unset /\ letter[l].open_at_age <= age
    BY <1>0, <1>1, <2>2, ChildRecordsAssumption DEF Ages, DeviceKnows
  <2>7. LetterTypes'
    BY <1>1, <2>3, <2>4, <2>5 DEF LetterInv, LetterTypes, Ages
  <2>8. SealIsKept'
    BY <1>1, <2>2, <2>3, <2>4, <2>6 DEF LetterInv, SealIsKept
  <2>9. \A s \in LetterRequest \ {r} :
          letterReq[s].pc = "opened" => letterReq[s].letter # l
    BY <1>3 DEF LetterInv, DeviceKnows
  <2>10. ASSUME NEW s \in LetterRequest PROVE DeviceKnows(s)'
    <3>1. letter'[l] # NoLetter /\ ~StillSealed(l)'
      BY <2>3, <2>4, <2>6, LetterKinds DEF StillSealed
    <3>2. CASE s = r
      BY <1>2, <2>4, <2>5, <3>1, <3>2 DEF DeviceKnows, StillSealed
    <3>3. CASE s # r
      <4>1. letterReq'[s] = letterReq[s] /\ letterReq[s] \in LetterRequests /\ DeviceKnows(s)
        BY <2>5, <3>3 DEF LetterInv, LetterTypes
      <4>2. letterReq[s].pc \in {"may_open", "opened"} => letterReq[s].letter \in Letter
        BY <4>1, LetterRequestFacts
      <4>3. CASE letterReq[s].letter = l
        BY <1>1, <2>3, <2>4, <2>6, <3>1, <4>1, <4>3 DEF DeviceKnows, StillSealed
      <4>4. CASE letterReq[s].letter # l
        BY <1>1, <2>4, <4>1, <4>2, <4>4 DEF DeviceKnows, StillSealed
      <4> QED
        BY <4>3, <4>4
    <3> QED
      BY <3>2, <3>3
  <2>11. OpenedByOne'
    BY <1>2, <2>5, <2>9 DEF LetterInv, OpenedByOne
  <2> QED
    BY <2>7, <2>8, <2>10, <2>11 DEF LetterInv
<1>4. CASE ~StillSealed(l)
  <2>1. letterReq' = [letterReq EXCEPT ![r] = [pc |-> "refused"]] /\ letter' = letter
    BY <1>0, <1>4 DEF openLetterRow
  <2>2. letterReq' \in [LetterRequest -> LetterRequests] /\ letterReq'[r].pc = "refused"
        /\ \A s \in LetterRequest \ {r} : letterReq'[s] = letterReq[s]
    BY <2>1 DEF LetterInv, LetterTypes, LetterRequests
  <2>3. LetterTypes' /\ SealIsKept'
    BY <1>1, <2>1, <2>2 DEF LetterInv, LetterTypes, SealIsKept
  <2>4. \A s \in LetterRequest : DeviceKnows(s)'
    BY <1>1, <2>1, <2>2 DEF LetterInv, DeviceKnows, StillSealed
  <2>5. OpenedByOne'
    BY <2>2 DEF LetterInv, OpenedByOne
  <2> QED
    BY <2>3, <2>4, <2>5 DEF LetterInv
<1> QED
  BY <1>3, <1>4

\* A letter that is gone is opened by nobody, and its id is spent.
LEMMA DeleteKeeps ==
  ASSUME LetterInv, NEW l \in Letter, deleteLetterRow(l)
  PROVE  LetterInv'
<1>1. letter' = [letter EXCEPT ![l] = GoneLetter] /\ letterReq' = letterReq /\ age' = age
  BY DEF deleteLetterRow, GoneLetter
<1>2. letter'[l] = GoneLetter /\ (\A m \in Letter \ {l} : letter'[m] = letter[m])
      /\ letter' = [m \in Letter |-> letter'[m]]
  BY <1>1 DEF LetterInv, LetterTypes
<1>3. ~letter'[l].sealed /\ letter'[l] # NoLetter
  BY <1>2, LetterKinds
<1>4. LetterTypes' /\ SealIsKept'
  BY <1>1, <1>2, <1>3 DEF LetterInv, LetterTypes, SealIsKept, Ages
<1>5. ASSUME NEW r \in LetterRequest PROVE DeviceKnows(r)'
  <2>1. letterReq[r] \in LetterRequests /\ DeviceKnows(r)
    BY DEF LetterInv, LetterTypes
  <2>2. letterReq[r].pc \in {"may_open", "opened"} => letterReq[r].letter \in Letter
    BY <2>1, LetterRequestFacts
  <2> QED
    BY <1>1, <1>2, <1>3, <2>1, <2>2 DEF DeviceKnows, StillSealed
<1>6. OpenedByOne'
  BY <1>1 DEF LetterInv, OpenedByOne
<1> QED
  BY <1>4, <1>5, <1>6 DEF LetterInv

\* What has come of age stays so.
LEMMA BirthdayKeeps == LetterInv /\ Birthday => LetterInv'
<1> SUFFICES ASSUME LetterInv, Birthday PROVE LetterInv'
  OBVIOUS
<1>1. letter' = letter /\ letterReq' = letterReq /\ age' = age + 1 /\ age < LastAge
  BY DEF Birthday
<1>2. age \in Ages /\ age' \in Ages /\ age \in Nat
  BY <1>1, ChildRecordsAssumption DEF LetterInv, LetterTypes, Ages
<1>3. \A l \in Letter : letter[l].sealed => letter[l].open_at_age \in Int
  BY DEF LetterInv, LetterTypes, SealedRows
<1>4. LetterTypes'
  BY <1>1, <1>2 DEF LetterInv, LetterTypes, Ages
<1>5. SealIsKept'
  BY <1>1, <1>2, <1>3 DEF LetterInv, SealIsKept
<1>6. ASSUME NEW r \in LetterRequest PROVE DeviceKnows(r)'
  <2>1. DeviceKnows(r) /\ letterReq[r] \in LetterRequests
    BY DEF LetterInv, LetterTypes
  <2>2. letterReq[r].pc = "may_open" => letterReq[r].letter \in Letter
    BY <2>1, LetterRequestFacts
  <2> QED
    BY <1>1, <1>2, <1>3, <2>1, <2>2 DEF DeviceKnows, StillSealed
<1>7. OpenedByOne'
  BY <1>1 DEF LetterInv, OpenedByOne
<1> QED
  BY <1>4, <1>5, <1>6, <1>7 DEF LetterInv

LEMMA NextLetters == LetterInv /\ (LetterNext \/ UNCHANGED letterVars) => LetterInv'
<1>1. ASSUME LetterInv, UNCHANGED letterVars PROVE LetterInv'
  BY <1>1, Zenon DEF letterVars, LetterInv, LetterTypes, SealIsKept, DeviceKnows, OpenedByOne, StillSealed, Ages
<1> QED
  BY <1>1, SealKeeps, ReadKeeps, OpenKeeps, DeleteKeeps, BirthdayKeeps DEF LetterNext

LEMMA LettersHold == LetterInv => LetterOpensOnce
<1> SUFFICES ASSUME LetterInv, NEW l \in Letter, letter[l].sealed, letter[l].opened_at # Unset
             PROVE  age >= letter[l].open_at_age
  <2>1. \A shown \in lettersFor : \E l \in Letter :
          letter[l].sealed /\ shown.letter = l /\ (shown.words <=> letter[l].opened_at # Unset)
    <3> SUFFICES ASSUME NEW shown \in lettersFor
                 PROVE  \E l \in Letter :
                          letter[l].sealed /\ shown.letter = l /\ (shown.words <=> letter[l].opened_at # Unset)
      OBVIOUS
    <3>1. PICK l \in Letter :
            letter[l].sealed /\ shown = [letter |-> l, words |-> letter[l].opened_at # Unset]
      BY Zenon DEF lettersFor
    <3>2. shown.letter = l /\ (shown.words <=> letter[l].opened_at # Unset)
      BY <3>1, Zenon
    <3> QED
      BY <3>1, <3>2
  <2> QED
    BY <2>1, Zenon DEF LetterInv, OpenedByOne, LetterOpensOnce
<1>1. letter[l].open_at_age \in Int /\ age \in Int /\ letter[l].open_at_age <= age
  BY ChildRecordsAssumption DEF LetterInv, LetterTypes, SealIsKept, SealedRows, Ages
<1> QED
  BY <1>1

-----------------------------------------------------------------------------
(* Child records. *)

ChildRecordsInv == DoseInv /\ LetterInv

\* A step on a medicine leaves the letters alone, and a step on a letter the doses.
LEMMA NextChildRecords == ChildRecordsInv /\ [ChildRecordsNext]_childRecordVars => ChildRecordsInv'
<1>1. DoseNext => UNCHANGED letterVars
  BY DEF DoseNext, recordDose, InsertDose, CommitDose, AbortDose, RefuseDose
<1>2. LetterNext => UNCHANGED doseVars
  BY DEF LetterNext, sealLetterRow, deleteLetterRow, ReadLetter, openLetterRow, Birthday
<1> QED
  BY <1>1, <1>2, NextDoses, NextLetters DEF ChildRecordsInv, ChildRecordsNext, childRecordVars

\* The inductive invariant of a child's records holds in every behaviour: the index
\* has one given dose, and a device that was let past the SELECT still knows its letter.
THEOREM ChildRecordsInvariant == ChildRecordsSpec => []ChildRecordsInv
<1>1. ChildRecordsInit => ChildRecordsInv
  BY DosesBegin, LettersBegin DEF ChildRecordsInv
<1> QED
  BY <1>1, NextChildRecords, PTL DEF ChildRecordsSpec

LEMMA ChildRecordsTyped == ChildRecordsInv => ChildRecordsTypeOK
<1> SUFFICES ASSUME ChildRecordsInv PROVE ChildRecordsTypeOK
  OBVIOUS
<1>1. ASSUME NEW d \in medication_dose PROVE d.by \in DoseRequest /\ d.status \in DoseStatus
  <2>1. PICK r \in DoseRequest : doseReq[r].pc = "ok" /\ d = DoseOf(r)
    BY DEF ChildRecordsInv, DoseInv, DosesWereLogged
  <2>2. doseReq[r].status \in DoseStatus
    BY <2>1 DEF ChildRecordsInv, DoseInv, DoseRequests
  <2> QED
    BY <2>1, <2>2, DoseFields
<1> QED
  BY <1>1 DEF ChildRecordsTypeOK, ChildRecordsInv, LetterInv, LetterTypes, SealIsKept, SealedRows, Ages

\* pool.ts, recordDose and openLetterRow, for any number of parents, devices, doses
\* and letters: one dose of a slot is given, whoever is refused is refused for one that
\* is in the record, and a letter is opened once, not before its age.
THEOREM ChildRecordsHold ==
  ChildRecordsSpec => [](GivenOnce /\ RefusedByARealDose /\ LetterOpensOnce)
<1>1. ChildRecordsInv => GivenOnce /\ RefusedByARealDose /\ LetterOpensOnce
  BY DosesHold, LettersHold DEF ChildRecordsInv
<1> QED
  BY <1>1, ChildRecordsInvariant, PTL

-----------------------------------------------------------------------------
(* Rows that several guardians write. *)

SharedFunctions ==
  /\ guardian_activity_override = [c \in Kin |-> guardian_activity_override[c]]
  /\ exchange_bag_item = [i \in BagItem |-> exchange_bag_item[i]]
  /\ expense = [x \in Expense |-> expense[x]]
  /\ medical_record \in [Kin -> Saves \cup {Blank}]
  /\ servedFor = [i \in BagItem \cup Expense |-> servedFor[i]]

\* What was said of every field is what the rows hold.
RowsAreSaid == said = [overrides |-> guardian_activity_override, bags |-> exchange_bag_item]

\* An expense is served from its proposal on, and a row for its own child only.
ServedForItsChild ==
  /\ \A i \in BagItem : servedFor[i] \subseteq {ChildOf[i]}
  /\ \A x \in Expense : servedFor[x] = IF expense[x] = "unproposed" THEN {} ELSE {ChildOf[x]}

SharedInv == SharedFunctions /\ RowsAreSaid /\ ServedForItsChild

\* A word about a field changes what was said of its row and nothing else.
LEMMA OverrideSaid ==
  ASSUME NEW o, NEW b, NEW c, NEW row
  PROVE  [[overrides |-> o, bags |-> b] EXCEPT !.overrides[c] = row]
           = [overrides |-> [o EXCEPT ![c] = row], bags |-> b]
OBVIOUS

LEMMA BagSaid ==
  ASSUME NEW o, NEW b, NEW i, NEW row
  PROVE  [[overrides |-> o, bags |-> b] EXCEPT !.bags[i] = row]
           = [overrides |-> o, bags |-> [b EXCEPT ![i] = row]]
OBVIOUS

LEMMA SharedBegins == SharedInit => SharedInv
BY DEF SharedInit, SharedInv, SharedFunctions, RowsAreSaid, ServedForItsChild

\* pool.ts, setActivityOverride and deleteActivityOverride.
LEMMA OverrideKeeps ==
  ASSUME SharedInv, NEW c \in Kin,
         (\E patch \in OverridePatches : setActivityOverride(c, patch)) \/ deleteActivityOverride(c)
  PROVE  SharedInv'
<1>1. PICK row :
        /\ guardian_activity_override' = [guardian_activity_override EXCEPT ![c] = row]
        /\ said' = [said EXCEPT !.overrides[c] = row]
        /\ UNCHANGED <<exchange_bag_item, expense, medical_record, servedFor>>
  <2>1. CASE deleteActivityOverride(c)
    BY <2>1 DEF deleteActivityOverride
  <2>2. ASSUME NEW patch \in OverridePatches, setActivityOverride(c, patch)
        PROVE  LET row == Patched(guardian_activity_override[c], patch)
               IN  /\ guardian_activity_override' = [guardian_activity_override EXCEPT ![c] = row]
                   /\ said' = [said EXCEPT !.overrides[c] = row]
                   /\ UNCHANGED <<exchange_bag_item, expense, medical_record, servedFor>>
    <3>1. said.overrides = guardian_activity_override
      BY DEF SharedInv, RowsAreSaid
    <3> QED
      BY <2>2, <3>1 DEF setActivityOverride, Patched
  <2> QED
    BY <2>1, <2>2
<1>2. RowsAreSaid'
  BY <1>1, OverrideSaid DEF SharedInv, RowsAreSaid
<1> QED
  BY <1>1, <1>2 DEF SharedInv, SharedFunctions, ServedForItsChild

\* pool.ts, setBagItemStatus: WHERE child_id is the path's.
LEMMA BagKeeps ==
  ASSUME SharedInv, NEW c \in Kin, NEW i \in BagItem, NEW patch \in BagPatches,
         setBagItemStatus(c, i, patch)
  PROVE  SharedInv'
<1> DEFINE row == Patched(exchange_bag_item[i], patch)
<1>1. /\ exchange_bag_item' = [exchange_bag_item EXCEPT ![i] = row]
      /\ said' = [said EXCEPT !.bags[i] = row]
      /\ servedFor' = [servedFor EXCEPT ![i] = @ \cup {c}] /\ c = ChildOf[i]
      /\ UNCHANGED <<guardian_activity_override, expense, medical_record>>
  <2>1. said.bags = exchange_bag_item
    BY DEF SharedInv, RowsAreSaid
  <2> QED
    BY <2>1 DEF setBagItemStatus, Patched, ServeFor, Addressed
<1> HIDE DEF row
<1>2. RowsAreSaid'
  BY <1>1, BagSaid DEF SharedInv, RowsAreSaid
<1>3. i \notin Expense
  BY SharedRowsAssumption
<1>4. servedFor'[i] = servedFor[i] \cup {c} /\ (\A j \in BagItem \cup Expense : j # i => servedFor'[j] = servedFor[j])
      /\ servedFor' = [j \in BagItem \cup Expense |-> servedFor'[j]]
  BY <1>1 DEF SharedInv, SharedFunctions
<1>5. ServedForItsChild'
  BY <1>1, <1>3, <1>4 DEF SharedInv, ServedForItsChild
<1>6. SharedFunctions'
  BY <1>1, <1>4 DEF SharedInv, SharedFunctions
<1> QED
  BY <1>2, <1>5, <1>6 DEF SharedInv

\* pool.ts, proposeExpense and resolveExpense.
LEMMA ExpenseKeeps ==
  ASSUME SharedInv, NEW c \in Kin, NEW x \in Expense,
         proposeExpense(c, x) \/ \E status \in EXPENSE_RESOLUTIONS : resolveExpense(c, x, status)
  PROVE  SharedInv'
<1>1. PICK status \in {"proposed"} \cup EXPENSE_RESOLUTIONS :
        /\ expense' = [expense EXCEPT ![x] = status]
        /\ servedFor' = [servedFor EXCEPT ![x] = @ \cup {c}] /\ c = ChildOf[x]
        /\ UNCHANGED <<guardian_activity_override, exchange_bag_item, medical_record, said>>
  BY DEF proposeExpense, resolveExpense, ServeFor, Addressed
<1>2. status # "unproposed"
  BY DEF EXPENSE_RESOLUTIONS
<1>3. x \notin BagItem
  BY SharedRowsAssumption
<1>4. servedFor'[x] = servedFor[x] \cup {c} /\ (\A j \in BagItem \cup Expense : j # x => servedFor'[j] = servedFor[j])
      /\ servedFor' = [j \in BagItem \cup Expense |-> servedFor'[j]]
  BY <1>1 DEF SharedInv, SharedFunctions
<1>5. servedFor'[x] = {ChildOf[x]}
  BY <1>1, <1>4 DEF SharedInv, ServedForItsChild
<1>6. expense'[x] = status /\ (\A y \in Expense \ {x} : expense'[y] = expense[y])
      /\ expense' = [y \in Expense |-> expense'[y]]
  BY <1>1 DEF SharedInv, SharedFunctions
<1>7. ServedForItsChild'
  BY <1>2, <1>3, <1>4, <1>5, <1>6 DEF SharedInv, ServedForItsChild
<1> QED
  BY <1>1, <1>4, <1>6, <1>7 DEF SharedInv, SharedFunctions, RowsAreSaid

\* pool.ts, setMedicalRecord: the whole card in one transaction.
LEMMA CardKeeps ==
  ASSUME SharedInv, NEW c \in Kin, NEW fields \in Saves, setMedicalRecord(c, fields)
  PROVE  SharedInv'
<1>1. medical_record' = [medical_record EXCEPT ![c] = fields]
      /\ UNCHANGED <<guardian_activity_override, exchange_bag_item, expense, said, servedFor>>
  BY DEF setMedicalRecord, CardOf
<1>2. medical_record' \in [Kin -> Saves \cup {Blank}]
  BY <1>1 DEF SharedInv, SharedFunctions
<1> QED
  BY <1>1, <1>2 DEF SharedInv, SharedFunctions, RowsAreSaid, ServedForItsChild

LEMMA NextShared == SharedInv /\ [SharedNext]_sharedVars => SharedInv'
<1>1. ASSUME SharedInv, UNCHANGED sharedVars PROVE SharedInv'
  BY <1>1, Zenon DEF sharedVars, SharedInv, SharedFunctions, RowsAreSaid, ServedForItsChild
<1> QED
  BY <1>1, OverrideKeeps, BagKeeps, ExpenseKeeps, CardKeeps DEF SharedNext

LEMMA SharedHolds == SharedInv => LastWordStands /\ OwnChildOnly /\ CardIsOneSave
<1> SUFFICES ASSUME SharedInv PROVE LastWordStands /\ OwnChildOnly /\ CardIsOneSave
  OBVIOUS
<1>1. LastWordStands
  BY DEF SharedInv, RowsAreSaid, LastWordStands, activityOverridesFor, bagItemsFor
<1>2. OwnChildOnly
  <2>1. \A i \in BagItem \cup Expense : servedFor[i] \subseteq {ChildOf[i]}
    BY DEF SharedInv, ServedForItsChild
  <2>2. ASSUME NEW c \in Kin, NEW x \in Expense PROVE x \in expensesFor(c) <=> c \in servedFor[x]
    BY DEF SharedInv, ServedForItsChild, expensesFor
  <2> QED
    BY <2>1, <2>2 DEF OwnChildOnly
<1>3. CardIsOneSave
  BY DEF SharedInv, SharedFunctions, CardIsOneSave, medicalRecordFor
<1> QED
  BY <1>1, <1>2, <1>3

-----------------------------------------------------------------------------
(* Lists sent whole. *)

PutRequests ==
  [pc : {"idle"}]
  \cup [pc : {"deleting", "deleted", "done", "failed"}, items : SUBSET Item, rows : SUBSET (PutRequest \X Item)]

ReplaceTypes == putReq \in [PutRequest -> PutRequests] /\ ReplaceTypeOK

\* Whoever met no other transaction is alone in its own, and deletes every row there is.
AloneSeesAll ==
  \A r \in InTransaction \ overlapped : putReq[r].rows = listRows /\ InTransaction = {r}

ReplaceInv == ReplaceTypes /\ AloneSeesAll

\* The rows a list becomes.
Stored(r, items) == {<<r, i>> : i \in items}

LEMMA PutFacts ==
  ASSUME NEW q \in PutRequests
  PROVE  /\ q.pc \in {"idle", "deleting", "deleted", "done", "failed"}
         /\ q.pc # "idle" => q.items \subseteq Item /\ q.rows \subseteq PutRequest \X Item
BY DEF PutRequests

LEMMA ReplaceBegins == ReplaceInit => ReplaceInv
BY DEF ReplaceInit, ReplaceInv, ReplaceTypes, ReplaceTypeOK, PutRequests, PutIdle, AloneSeesAll, InTransaction

\* BEGIN: two transactions that meet are both marked.
LEMMA BeginKeeps ==
  ASSUME ReplaceInv, NEW r \in PutRequest, NEW items \in SUBSET Item, PutBegin(r, items)
  PROVE  ReplaceInv'
<1> DEFINE q == [pc |-> "deleting", items |-> items, rows |-> listRows]
<1>1. /\ putReq[r].pc = "idle" /\ putReq' = [putReq EXCEPT ![r] = q] /\ listRows' = listRows
      /\ overlapped' = IF InTransaction = {} THEN overlapped ELSE overlapped \cup InTransaction \cup {r}
  BY DEF PutBegin
<1>2. q \in PutRequests /\ q.pc = "deleting" /\ q.rows = listRows
  BY DEF ReplaceInv, ReplaceTypes, ReplaceTypeOK, PutRequests
<1> HIDE DEF q
<1>3. putReq' \in [PutRequest -> PutRequests] /\ putReq'[r] = q
      /\ \A s \in PutRequest \ {r} : putReq'[s] = putReq[s]
  BY <1>1, <1>2 DEF ReplaceInv, ReplaceTypes
<1>4. InTransaction' = InTransaction \cup {r} /\ InTransaction \subseteq PutRequest
  BY <1>1, <1>2, <1>3 DEF InTransaction
<1>5. ReplaceTypes'
  BY <1>1, <1>3, <1>4 DEF ReplaceInv, ReplaceTypes, ReplaceTypeOK
<1>6. AloneSeesAll'
  BY <1>1, <1>2, <1>3, <1>4 DEF AloneSeesAll
<1> QED
  BY <1>5, <1>6 DEF ReplaceInv

\* The DELETE takes what is still there of what it saw.
LEMMA DeleteRowsKeeps ==
  ASSUME ReplaceInv, NEW r \in PutRequest, DeleteRows(r)
  PROVE  ReplaceInv'
<1> DEFINE rows == putReq[r].rows \cap listRows
           q == [putReq[r] EXCEPT !.pc = "deleted", !.rows = rows]
<1>1. /\ putReq[r].pc = "deleting" /\ putReq[r] \in PutRequests
      /\ listRows' = listRows /\ overlapped' = overlapped
  BY DEF DeleteRows, ReplaceInv, ReplaceTypes
<1>2. q \in PutRequests /\ q.pc = "deleted" /\ q.rows = rows
  <2>1. rows \in SUBSET (PutRequest \X Item)
    BY <1>1, PutFacts
  <2> QED
    BY <1>1, <2>1 DEF PutRequests
<1>3. putReq' = [putReq EXCEPT ![r] = q]
  BY DEF DeleteRows, ReplaceInv, ReplaceTypes
<1> HIDE DEF q
<1>4. putReq' \in [PutRequest -> PutRequests] /\ putReq'[r] = q
      /\ \A s \in PutRequest \ {r} : putReq'[s] = putReq[s]
  BY <1>2, <1>3 DEF ReplaceInv, ReplaceTypes
<1>5. InTransaction' = InTransaction
  BY <1>1, <1>2, <1>4 DEF InTransaction
<1>6. ReplaceTypes'
  BY <1>1, <1>4 DEF ReplaceInv, ReplaceTypes, ReplaceTypeOK
<1>7. AloneSeesAll'
  <2> SUFFICES ASSUME NEW s \in InTransaction \ overlapped
               PROVE  putReq'[s].rows = listRows /\ InTransaction = {s}
    BY <1>1, <1>5 DEF AloneSeesAll
  <2>1. putReq[s].rows = listRows /\ InTransaction = {s} /\ s \in PutRequest
    BY DEF ReplaceInv, AloneSeesAll, InTransaction
  <2> QED
    BY <1>2, <1>4, <2>1
<1> QED
  BY <1>6, <1>7 DEF ReplaceInv

\* The INSERTs and the COMMIT: the rows left standing, and the list.
LEMMA StoreKeeps ==
  ASSUME ReplaceInv, NEW r \in PutRequest, setAvailabilityWindows(r) \/ setGameFavoriteKinds(r)
  PROVE  /\ ReplaceInv'
         /\ putReq[r].pc = "deleted" /\ \A s \in PutRequest \ {r} : putReq'[s] = putReq[s]
         /\ putReq'[r].pc = "done" => listRows' = (listRows \ putReq[r].rows) \cup Stored(r, putReq[r].items)
         /\ putReq'[r].pc # "done" => listRows' = listRows
         /\ setGameFavoriteKinds(r) /\ putReq'[r].pc = "done" =>
              \A row \in listRows \ putReq[r].rows : row[2] \notin putReq[r].items
<1>1. PICK pc \in {"done", "failed"} :
        /\ putReq' = [putReq EXCEPT ![r] = [putReq[r] EXCEPT !.pc = pc, !.rows = {}]]
        /\ pc = "done" => listRows' = (listRows \ putReq[r].rows) \cup Stored(r, putReq[r].items)
        /\ pc = "failed" => listRows' = listRows
        /\ setGameFavoriteKinds(r) /\ pc = "done" =>
              \A row \in listRows \ putReq[r].rows : row[2] \notin putReq[r].items
  <2>1. CASE setAvailabilityWindows(r) /\ ~setGameFavoriteKinds(r)
    BY <2>1 DEF setAvailabilityWindows, Stored
  <2>2. CASE setGameFavoriteKinds(r)
    <3>1. CASE \E row \in listRows \ putReq[r].rows : row[2] \in putReq[r].items
      BY <2>2, <3>1, Zenon DEF setGameFavoriteKinds
    <3>2. CASE ~\E row \in listRows \ putReq[r].rows : row[2] \in putReq[r].items
      BY <2>2, <3>2, Zenon DEF setGameFavoriteKinds, Stored
    <3> QED
      BY <3>1, <3>2
  <2> QED
    BY <2>1, <2>2
<1> DEFINE q == [putReq[r] EXCEPT !.pc = pc, !.rows = {}]
<1>2. putReq[r].pc = "deleted" /\ putReq[r] \in PutRequests /\ overlapped' = overlapped
  BY DEF setAvailabilityWindows, setGameFavoriteKinds, ReplaceInv, ReplaceTypes
<1>3. q \in PutRequests /\ q.pc = pc /\ q.items = putReq[r].items /\ putReq[r].items \subseteq Item
  <2>1. {} \in SUBSET (PutRequest \X Item) /\ pc \in {"deleted", "done", "failed"}
    OBVIOUS
  <2> QED
    BY <1>2, <2>1 DEF PutRequests
<1> HIDE DEF q
<1>4. putReq' \in [PutRequest -> PutRequests] /\ putReq'[r] = q
      /\ \A s \in PutRequest \ {r} : putReq'[s] = putReq[s]
  BY <1>1, <1>3 DEF q, ReplaceInv, ReplaceTypes
<1>5. InTransaction' = InTransaction \ {r} /\ r \in InTransaction
  BY <1>2, <1>3, <1>4 DEF InTransaction
<1>6. \A row \in Stored(r, putReq[r].items) :
        row \in PutRequest \X Item /\ row[1] = r /\ row[2] \in putReq[r].items
  BY <1>3 DEF Stored
<1>7. ReplaceTypes'
  <2>1. \A row \in listRows : row[1] # r
    BY <1>2 DEF ReplaceInv, ReplaceTypes, ReplaceTypeOK
  <2>2. \A row \in listRows : row[1] \in PutRequest
    BY DEF ReplaceInv, ReplaceTypes, ReplaceTypeOK
  <2> QED
    BY <1>1, <1>2, <1>3, <1>4, <1>6, <2>1, <2>2 DEF ReplaceInv, ReplaceTypes, ReplaceTypeOK
<1>8. AloneSeesAll'
  BY <1>2, <1>5 DEF ReplaceInv, AloneSeesAll
<1> QED
  BY <1>1, <1>2, <1>3, <1>4, <1>7, <1>8 DEF ReplaceInv

\* A step of one list leaves the invariant, and what was sent alone is stored whole.
LEMMA NextReplace ==
  ReplaceInv /\ (AvailabilityNext \/ FavoritesNext \/ UNCHANGED replaceVars)
    => ReplaceInv' /\ SentAloneIsWhole
<1>1. ASSUME ReplaceInv, UNCHANGED replaceVars PROVE ReplaceInv' /\ SentAloneIsWhole
  BY <1>1, Zenon DEF replaceVars, ReplaceInv, ReplaceTypes, ReplaceTypeOK, AloneSeesAll, InTransaction, SentAloneIsWhole
<1>2. ASSUME ReplaceInv, NEW r \in PutRequest, NEW items \in SUBSET Item, PutBegin(r, items)
      PROVE  ReplaceInv' /\ SentAloneIsWhole
  <2>1. \A s \in PutRequest : putReq[s].pc = "deleted" => putReq'[s].pc = "deleted"
    BY <1>2 DEF PutBegin, ReplaceInv, ReplaceTypes
  <2> QED
    BY <1>2, <2>1, BeginKeeps DEF SentAloneIsWhole
<1>3. ASSUME ReplaceInv, NEW r \in PutRequest, DeleteRows(r)
      PROVE  ReplaceInv' /\ SentAloneIsWhole
  <2>1. \A s \in PutRequest : putReq[s].pc = "deleted" => putReq'[s].pc = "deleted"
    BY <1>3 DEF DeleteRows, ReplaceInv, ReplaceTypes
  <2> QED
    BY <1>3, <2>1, DeleteRowsKeeps DEF SentAloneIsWhole
<1>4. ASSUME ReplaceInv, NEW r \in PutRequest, setAvailabilityWindows(r) \/ setGameFavoriteKinds(r)
      PROVE  ReplaceInv' /\ SentAloneIsWhole
  <2> SUFFICES ASSUME NEW s \in PutRequest \ overlapped,
                      putReq[s].pc = "deleted", putReq'[s].pc = "done"
               PROVE  listRows' = {<<s, i>> : i \in putReq[s].items}
    BY <1>4, StoreKeeps DEF SentAloneIsWhole
  <2>1. s = r
    BY <1>4, StoreKeeps
  <2>2. putReq[r].rows = listRows
    <3>1. r \in InTransaction \ overlapped
      BY <2>1 DEF InTransaction
    <3> QED
      BY <1>4, <3>1 DEF ReplaceInv, AloneSeesAll
  <2>3. listRows' = (listRows \ putReq[r].rows) \cup Stored(r, putReq[r].items)
    BY <1>4, <2>1, StoreKeeps
  <2> QED
    BY <2>1, <2>2, <2>3 DEF Stored
<1> QED
  BY <1>1, <1>2, <1>3, <1>4 DEF AvailabilityNext, FavoritesNext

\* pool.ts, setGameFavoriteKinds: the key of the table lets no kind in twice.
LEMMA StarsKeep ==
  ASSUME ReplaceInv, KindStarredOnce, FavoritesNext \/ UNCHANGED replaceVars
  PROVE  KindStarredOnce'
<1>1. CASE listRows' = listRows
  BY <1>1 DEF KindStarredOnce
<1>2. ASSUME NEW r \in PutRequest, setGameFavoriteKinds(r) PROVE KindStarredOnce'
  <2>1. putReq'[r].pc # "done" => listRows' = listRows
    BY <1>2, StoreKeeps
  <2>2. CASE putReq'[r].pc = "done"
    <3> DEFINE left == listRows \ putReq[r].rows
    <3>1. listRows' = left \cup Stored(r, putReq[r].items)
          /\ \A row \in left : row[2] \notin putReq[r].items
      BY <1>2, <2>2, StoreKeeps
    <3>2. \A row \in Stored(r, putReq[r].items) : row = <<r, row[2]>> /\ row[2] \in putReq[r].items
      BY DEF Stored
    <3>3. \A a, b \in left : a[2] = b[2] => a = b
      BY DEF KindStarredOnce
    <3> HIDE DEF left
    <3>4. ASSUME NEW a \in listRows', NEW b \in listRows', a[2] = b[2] PROVE a = b
      <4>1. CASE a \in left /\ b \in left
        BY <3>3, <3>4, <4>1
      <4>2. CASE a \notin left \/ b \notin left
        BY <3>1, <3>2, <3>4, <4>2
      <4> QED
        BY <4>1, <4>2
    <3> QED
      BY <3>4 DEF KindStarredOnce
  <2> QED
    BY <1>1, <2>1, <2>2
<1>3. ASSUME NEW r \in PutRequest, (\E items \in SUBSET Item : PutBegin(r, items)) \/ DeleteRows(r)
      PROVE  listRows' = listRows
  BY <1>3 DEF PutBegin, DeleteRows
<1> QED
  BY <1>1, <1>2, <1>3 DEF FavoritesNext, replaceVars

-----------------------------------------------------------------------------
(* The day between two homes. *)

HouseRequests ==
  [pc : {"idle"}]
  \cup [pc : {"theme", "arrival", "note"}, by : Adult, child : Sister, at : Nat]
  \cup [pc : {"arrived"}, by : Adult, child : Sister, at : Nat, arrived : Nat]
  \cup [pc : {"hours"}, child : Sister, ids : SUBSET Adult]
  \cup [pc : {"shown"}, child : Sister, had : SUBSET Adult, windows : SUBSET (Adult \X HourSlot)]

\* A row says how late that arrival was, and nothing of who was early.
ArrivalRows ==
  {e \in [child : Sister, by : Adult, scheduled : Int, arrived : Nat, delay : Nat] :
     /\ e.delay > 0 => e.arrived = e.scheduled + e.delay
     /\ e.delay = 0 => e.arrived <= e.scheduled}

\* The guardians a request found are of those there ever were.
HersWhenAsked(q) ==
  /\ q.pc = "hours" => \A a \in q.ids : <<a, q.child>> \in HouseEdges
  /\ q.pc = "shown" => \A w \in q.windows : <<w[1], q.child>> \in HouseEdges

NotesExpire == \A n \in care_note : n.at \in Nat /\ n.expires = n.at + CARE_NOTE_TTL

HouseTypes ==
  /\ hour \in Nat /\ effective_guardianship \subseteq HouseEdges
  /\ houseReq \in [HouseRequest -> HouseRequests]
  /\ child_theme_preference = [s \in Sister |-> child_theme_preference[s]]
  /\ exchange_arrival_event \in Seq(ArrivalRows)

HouseInv ==
  /\ HouseTypes /\ ThemeByHerGuardians /\ NotesExpire
  /\ \A r \in HouseRequest : HersWhenAsked(houseReq[r])

LEMMA HouseFacts ==
  ASSUME NEW q \in HouseRequests
  PROVE  /\ q.pc \in {"theme", "arrival", "note"} => q.by \in Adult /\ q.child \in Sister /\ q.at \in Nat
         /\ q.pc = "arrived" => q.by \in Adult /\ q.child \in Sister /\ q.at \in Nat /\ q.arrived \in Nat
         /\ q.pc = "hours" => q.child \in Sister /\ q.ids \subseteq Adult
BY DEF HouseRequests

LEMMA HouseIsIdle == HouseIdle \in HouseRequests /\ HersWhenAsked(HouseIdle)
BY DEF HouseRequests, HouseIdle, HersWhenAsked

LEMMA HouseBegins == HouseDayInit => HouseInv
<1> SUFFICES ASSUME HouseDayInit PROVE HouseInv
  OBVIOUS
<1>1. exchange_arrival_event \in Seq(ArrivalRows)
  BY EmptySeq DEF HouseDayInit
<1>2. HouseTypes
  BY <1>1, HouseIsIdle DEF HouseDayInit, HouseTypes
<1>3. ThemeByHerGuardians /\ NotesExpire /\ \A r \in HouseRequest : HersWhenAsked(houseReq[r])
  BY HouseIsIdle DEF HouseDayInit, ThemeByHerGuardians, themeFor, NotesExpire
<1> QED
  BY <1>2, <1>3 DEF HouseInv

\* A request that is given another state, and nothing else.
LEMMA HouseMoves ==
  ASSUME HouseInv, NEW r \in HouseRequest, NEW q \in HouseRequests, HersWhenAsked(q), HouseGo(r, q)
  PROVE  houseReq' \in [HouseRequest -> HouseRequests] /\ \A s \in HouseRequest : HersWhenAsked(houseReq'[s])
<1>1. houseReq' = [houseReq EXCEPT ![r] = q] /\ houseReq \in [HouseRequest -> HouseRequests]
  BY DEF HouseGo, HouseInv, HouseTypes
<1>2. houseReq'[r] = q /\ \A s \in HouseRequest \ {r} : houseReq'[s] = houseReq[s]
  BY <1>1
<1> QED
  BY <1>1, <1>2 DEF HouseInv

LEMMA OnlyMoves ==
  ASSUME HouseInv, NEW r \in HouseRequest, NEW q \in HouseRequests, HersWhenAsked(q), HouseGo(r, q),
         UNCHANGED <<effective_guardianship, child_theme_preference, exchange_arrival_event, care_note,
                     freeHours, hour, withoutEdge>>
  PROVE  HouseInv'
<1>1. houseReq' \in [HouseRequest -> HouseRequests] /\ \A s \in HouseRequest : HersWhenAsked(houseReq'[s])
  BY HouseMoves
<1> QED
  BY <1>1 DEF HouseInv, HouseTypes, ThemeByHerGuardians, themeFor, NotesExpire

LEMMA AdmitKeeps ==
  ASSUME HouseInv, NEW r \in HouseRequest, NEW a \in Adult, NEW s \in Sister,
         NEW op \in HouseOps \ {"hours"}, Admit(r, a, s, op)
  PROVE  HouseInv'
<1> DEFINE q == [pc |-> op, by |-> a, child |-> s, at |-> hour]
<1>1. q \in HouseRequests /\ q.pc = op /\ HouseGo(r, q)
  BY DEF Admit, HouseOps, HouseRequests, HouseInv, HouseTypes
<1>2. HersWhenAsked(q)
  BY DEF HersWhenAsked, HouseOps
<1> QED
  BY <1>1, <1>2, OnlyMoves DEF Admit

\* 0017_child_theme_preference.sql, WITH CHECK: the edge is asked of again.
LEMMA ThemeKeeps ==
  ASSUME HouseInv, NEW r \in HouseRequest, setChildTheme(r)
  PROVE  HouseInv'
<1> DEFINE q == houseReq[r]
<1>1. q.pc = "theme" /\ q \in HouseRequests
  BY DEF setChildTheme, HouseInv, HouseTypes
<1>2. q.by \in Adult /\ q.child \in Sister
  BY <1>1, HouseFacts
<1>3. houseReq' \in [HouseRequest -> HouseRequests] /\ \A s \in HouseRequest : HersWhenAsked(houseReq'[s])
  BY HouseMoves, HouseIsIdle DEF setChildTheme
<1>4. ThemeByHerGuardians' /\ child_theme_preference' = [s \in Sister |-> child_theme_preference'[s]]
  <2>1. CASE AsGuardian(q.by, q.child)
    <3>1. <<q.by, q.child>> \in HouseEdges
      BY <2>1 DEF AsGuardian, HouseInv, HouseTypes
    <3>2. child_theme_preference' = [child_theme_preference EXCEPT ![q.child] = q.by]
          /\ withoutEdge' = withoutEdge
      BY <1>2, <2>1 DEF setChildTheme, AsGuardian, guardiansOfChild
    <3> QED
      BY <1>2, <3>1, <3>2 DEF HouseInv, HouseTypes, ThemeByHerGuardians, themeFor
  <2>2. CASE ~AsGuardian(q.by, q.child)
    BY <2>2 DEF setChildTheme, HouseInv, HouseTypes, ThemeByHerGuardians, themeFor
  <2> QED
    BY <2>1, <2>2
<1> QED
  BY <1>3, <1>4 DEF setChildTheme, HouseInv, HouseTypes, NotesExpire

LEMMA ClockKeeps ==
  ASSUME HouseInv, NEW r \in HouseRequest, ReadArrivalClock(r)
  PROVE  HouseInv'
<1> DEFINE q == [pc |-> "arrived", by |-> houseReq[r].by, child |-> houseReq[r].child,
                 at |-> houseReq[r].at, arrived |-> hour]
<1>1. houseReq[r].pc = "arrival" /\ houseReq[r] \in HouseRequests /\ hour \in Nat
  BY DEF ReadArrivalClock, HouseInv, HouseTypes
<1>2. q \in HouseRequests /\ HouseGo(r, q)
  BY <1>1, HouseFacts DEF HouseRequests, ReadArrivalClock
<1>3. HersWhenAsked(q)
  BY DEF HersWhenAsked
<1> QED
  BY <1>2, <1>3, OnlyMoves DEF ReadArrivalClock

\* The hour an order names is an hour, whatever day the request was made on.
LEMMA ScheduledIsAnHour == ASSUME NEW at \in Nat PROVE ScheduledOn(at) \in Int
<1>1. DayHours \in Nat /\ DayHours > 0 /\ ExchangeHour \in Int
  BY HouseDayAssumption
<1>2. at \div DayHours \in Int
  BY <1>1
<1> QED
  BY <1>1, <1>2 DEF ScheduledOn

\* schedule.ts, delayMinutes: late by as much as it says, or not late.
LEMMA DelayOfRow ==
  ASSUME NEW at \in Nat, NEW arrived \in Nat
  PROVE  /\ delayMinutes(at, arrived) \in Nat
         /\ delayMinutes(at, arrived) > 0 => arrived = ScheduledOn(at) + delayMinutes(at, arrived)
         /\ delayMinutes(at, arrived) = 0 => arrived <= ScheduledOn(at)
<1>1. ScheduledOn(at) \in Int
  BY ScheduledIsAnHour
<1>2. delayMinutes(at, arrived) = IF 0 >= arrived - ScheduledOn(at) THEN 0 ELSE arrived - ScheduledOn(at)
  BY DEF delayMinutes, MaxOf
<1> QED
  BY <1>1, <1>2

LEMMA ArrivalKeeps ==
  ASSUME HouseInv, NEW r \in HouseRequest, recordExchangeArrival(r)
  PROVE  HouseInv'
<1> DEFINE q == houseReq[r]
           row == [child |-> q.child, by |-> q.by, scheduled |-> ScheduledOn(q.at), arrived |-> q.arrived,
                   delay |-> delayMinutes(q.at, q.arrived)]
<1>1. q.pc = "arrived" /\ q \in HouseRequests
  BY DEF recordExchangeArrival, HouseInv, HouseTypes
<1>2. q.by \in Adult /\ q.child \in Sister /\ q.at \in Nat /\ q.arrived \in Nat
  BY <1>1, HouseFacts
<1>3. houseReq' \in [HouseRequest -> HouseRequests] /\ \A s \in HouseRequest : HersWhenAsked(houseReq'[s])
  BY HouseMoves, HouseIsIdle DEF recordExchangeArrival
<1>4. row \in ArrivalRows
  BY <1>2, ScheduledIsAnHour, DelayOfRow DEF ArrivalRows
<1>5. exchange_arrival_event' = Append(exchange_arrival_event, row)
  BY DEF recordExchangeArrival
<1>6. exchange_arrival_event' \in Seq(ArrivalRows)
  BY <1>4, <1>5, AppendProperties DEF HouseInv, HouseTypes
<1> QED
  BY <1>3, <1>6 DEF recordExchangeArrival, HouseInv, HouseTypes, ThemeByHerGuardians, themeFor, NotesExpire

LEMMA NoteKeeps ==
  ASSUME HouseInv, NEW r \in HouseRequest, writeCareNoteRow(r)
  PROVE  HouseInv'
<1>1. houseReq' \in [HouseRequest -> HouseRequests] /\ \A s \in HouseRequest : HersWhenAsked(houseReq'[s])
  BY HouseMoves, HouseIsIdle DEF writeCareNoteRow
<1>2. NotesExpire'
  BY DEF writeCareNoteRow, HouseInv, HouseTypes, NotesExpire
<1> QED
  BY <1>1, <1>2 DEF writeCareNoteRow, HouseInv, HouseTypes, ThemeByHerGuardians, themeFor

\* pool.ts, availabilityFor: who her guardians are, then what their hours are.
LEMMA AskHoursKeeps ==
  ASSUME HouseInv, NEW r \in HouseRequest, NEW s \in Sister, AskHours(r, s)
  PROVE  HouseInv'
<1> DEFINE q == [pc |-> "hours", child |-> s, ids |-> WhoseHours(s)]
<1>1. WhoseHours(s) \subseteq Adult /\ \A a \in WhoseHours(s) : <<a, s>> \in HouseEdges
  BY DEF WhoseHours, guardiansOfChild, HouseInv, HouseTypes
<1>2. q \in HouseRequests /\ HersWhenAsked(q) /\ HouseGo(r, q)
  BY <1>1 DEF HouseRequests, HersWhenAsked, AskHours
<1> QED
  BY <1>2, OnlyMoves DEF AskHours

LEMMA HoursKeep ==
  ASSUME HouseInv, NEW r \in HouseRequest, availabilityFor(r)
  PROVE  HouseInv'
<1> DEFINE p == houseReq[r]
           windows == {w \in p.ids \X HourSlot : w[2] \in freeHours[w[1]]}
           q == [pc |-> "shown", child |-> p.child, had |-> p.ids, windows |-> windows]
<1>1. p.pc = "hours" /\ p \in HouseRequests /\ HersWhenAsked(p)
  BY DEF availabilityFor, HouseInv, HouseTypes
<1>2. p.child \in Sister /\ p.ids \subseteq Adult /\ \A a \in p.ids : <<a, p.child>> \in HouseEdges
  BY <1>1, HouseFacts DEF HersWhenAsked
<1>3. windows \subseteq Adult \X HourSlot /\ \A w \in windows : w[1] \in p.ids
  BY <1>2
<1>4. HouseGo(r, q)
  BY DEF availabilityFor
<1> HIDE DEF windows
<1>5. q \in HouseRequests /\ HersWhenAsked(q)
  BY <1>2, <1>3 DEF HouseRequests, HersWhenAsked
<1> QED
  BY <1>4, <1>5, OnlyMoves DEF availabilityFor

LEMMA AroundKeeps ==
  ASSUME HouseInv,
         \/ \E a \in Adult, hours \in SUBSET HourSlot : SetHours(a, hours)
         \/ \E a \in Adult, s \in Sister : EdgeEnds(a, s)
         \/ HourPasses
  PROVE  HouseInv'
<1>1. /\ hour' \in Nat /\ effective_guardianship' \subseteq HouseEdges
      /\ UNCHANGED <<houseReq, child_theme_preference, exchange_arrival_event, care_note, withoutEdge>>
  <2>0. hour \in Nat /\ effective_guardianship \subseteq HouseEdges
    BY DEF HouseInv, HouseTypes
  <2>1. CASE HourPasses
    BY <2>0, <2>1 DEF HourPasses
  <2>2. ASSUME NEW a \in Adult, NEW hours \in SUBSET HourSlot, SetHours(a, hours)
        PROVE  /\ hour' \in Nat /\ effective_guardianship' \subseteq HouseEdges
               /\ UNCHANGED <<houseReq, child_theme_preference, exchange_arrival_event, care_note, withoutEdge>>
    BY <2>0, <2>2 DEF SetHours
  <2>3. ASSUME NEW a \in Adult, NEW s \in Sister, EdgeEnds(a, s)
        PROVE  /\ hour' \in Nat /\ effective_guardianship' \subseteq HouseEdges
               /\ UNCHANGED <<houseReq, child_theme_preference, exchange_arrival_event, care_note, withoutEdge>>
    BY <2>0, <2>3 DEF EdgeEnds
  <2> QED
    BY <2>1, <2>2, <2>3
<1> QED
  BY <1>1 DEF HouseInv, HouseTypes, ThemeByHerGuardians, themeFor, NotesExpire

LEMMA HouseStays == HouseInv /\ UNCHANGED houseVars => HouseInv'
BY Zenon DEF houseVars, HouseInv, HouseTypes, ThemeByHerGuardians, themeFor, NotesExpire

\* Whatever kinds of requests the houses make.
LEMMA HouseStep ==
  ASSUME HouseInv, NEW ops \in SUBSET HouseOps, HouseNext(ops)
  PROVE  HouseInv'
<1>1. ASSUME NEW r \in HouseRequest, HouseServe(r) PROVE HouseInv'
  <2>1. CASE HoursRead(r)
    BY <2>1, OnlyMoves, HouseIsIdle DEF HoursRead
  <2> QED
    BY <1>1, <2>1, ThemeKeeps, ClockKeeps, ArrivalKeeps, NoteKeeps, HoursKeep DEF HouseServe
<1>2. ASSUME NEW r \in HouseRequest, NEW s \in Sister, NEW a \in Adult, NEW op \in ops \ {"hours"},
             Admit(r, a, s, op)
      PROVE  HouseInv'
  <2>1. op \in HouseOps \ {"hours"}
    OBVIOUS
  <2> QED
    BY <1>2, <2>1, AdmitKeeps
<1> QED
  BY <1>1, <1>2, AskHoursKeeps, AroundKeeps DEF HouseNext

LEMMA HouseHolds == HouseInv => ThemeByHerGuardians /\ HoursAreOfHers /\ DelayIsTrue /\ NotesFade
<1> SUFFICES ASSUME HouseInv PROVE HoursAreOfHers /\ DelayIsTrue /\ NotesFade
  BY DEF HouseInv
<1>1. HoursAreOfHers
  BY DEF HouseInv, HersWhenAsked, HoursAreOfHers, parentGuardiansOfChild, WhoseHours
<1>2. DelayIsTrue
  <2> SUFFICES ASSUME NEW s \in Sister, NEW i \in DOMAIN exchange_arrival_event,
                      exchange_arrival_event[i].child = s
               PROVE  LET e == exchange_arrival_event[i]
                      IN  /\ e.delay >= 0 /\ e.child = s
                          /\ e.delay > 0 => e.arrived = e.scheduled + e.delay
                          /\ e.delay = 0 => e.arrived <= e.scheduled
    BY DEF DelayIsTrue, arrivalEventFor
  <2>1. exchange_arrival_event[i] \in ArrivalRows
    BY ElementOfSeq, LenProperties DEF HouseInv, HouseTypes
  <2> QED
    BY <2>1 DEF ArrivalRows
<1>3. NotesFade
  <2>1. \A n \in care_note : n.expires > hour <=> hour - n.at < CARE_NOTE_TTL
    BY HouseDayAssumption DEF HouseInv, HouseTypes, NotesExpire
  <2> QED
    BY <2>1 DEF NotesFade, careNotesFor
<1> QED
  BY <1>1, <1>2, <1>3

\* The inductive invariant of a day: whom a request found is of those there ever were,
\* and every row says of its instant what is true of it.
THEOREM HouseInvariant == HouseDaySpec => []HouseInv
<1>1. HouseInv /\ [HouseDayNext]_houseVars => HouseInv'
  BY HouseStep, HouseStays DEF HouseDayNext
<1> QED
  BY <1>1, HouseBegins, PTL DEF HouseDaySpec

\* pool.ts and schedule.ts, for any children, adults, rows and length of a day: a theme
\* and the hours are of her own guardians, a delay on record is how late that arrival
\* was, and a note of care fades when it says.
THEOREM DaysHold ==
  HouseDaySpec => [](ThemeByHerGuardians /\ HoursAreOfHers /\ DelayIsTrue /\ NotesFade)
BY HouseInvariant, HouseHolds, PTL

-----------------------------------------------------------------------------
(* The household. *)

\* What stars favourites is the only one that writes the rows of a behaviour about them.
HouseholdInv ==
  /\ focus \in Component
  /\ InviteInv /\ CallInv /\ RecordInv /\ RecordHolders
  /\ ChildRecordsInv /\ SharedInv /\ ReplaceInv /\ FavoritesStarredOnce /\ HouseInv

LEMMA HouseholdBegins == HouseholdInit => HouseholdInv
<1> SUFFICES ASSUME HouseholdInit PROVE HouseholdInv
  OBVIOUS
<1>1. /\ InviteInit /\ CallsInit /\ RecordsInit /\ ReplaceInit /\ ChildRecordsInit /\ SharedInit
      /\ HouseDayInit /\ focus \in Component
  BY DEF HouseholdInit
<1>2. FavoritesStarredOnce
  BY <1>1 DEF ReplaceInit, FavoritesStarredOnce, KindStarredOnce
<1> QED
  BY <1>1, <1>2, InitInvites, CallsBegin, RecordsBegin, HoldersBegin, ReplaceBegins, DosesBegin, LettersBegin,
     SharedBegins, HouseBegins
  DEF HouseholdInv, ChildRecordsInv

\* Each component takes a step of its own or none.
LEMMA HouseholdParts ==
  ASSUME [HouseholdNext]_HouseholdVars
  PROVE  /\ focus' = focus
         /\ [InviteNext]_inviteVars /\ [CallsNext]_callVars /\ [RecordsNext]_recordVars
         /\ [ChildRecordsNext]_childRecordVars /\ [SharedNext]_sharedVars
         /\ focus = "favorites" => FavoritesNext \/ UNCHANGED replaceVars
         /\ AvailabilityNext \/ FavoritesNext \/ UNCHANGED replaceVars
         /\ (\E ops \in SUBSET HouseOps : HouseNext(ops)) \/ UNCHANGED houseVars
<1>1. CASE UNCHANGED HouseholdVars
  BY <1>1 DEF HouseholdVars
<1>2. CASE HouseholdNext
  <2>1. {focus} \cap HouseOps \in SUBSET HouseOps
    OBVIOUS
  <2>2. focus = "favorites" => focus # "windows"
    OBVIOUS
  <2> QED
    BY <1>2, <2>1, <2>2, Zenon DEF HouseholdNext
<1> QED
  BY <1>1, <1>2

LEMMA NextHousehold == HouseholdInv /\ [HouseholdNext]_HouseholdVars => HouseholdInv'
<1> SUFFICES ASSUME HouseholdInv, [HouseholdNext]_HouseholdVars PROVE HouseholdInv'
  OBVIOUS
<1>1. InviteInv' /\ CallInv' /\ RecordInv' /\ RecordHolders'
  BY HouseholdParts, NextInvites, NextCalls, NextRecords, NothingRecorded, NextHolders DEF HouseholdInv
<1>2. ChildRecordsInv' /\ SharedInv' /\ ReplaceInv'
  BY HouseholdParts, NextChildRecords, NextShared, NextReplace DEF HouseholdInv
<1>3. FavoritesStarredOnce'
  BY HouseholdParts, StarsKeep DEF HouseholdInv, FavoritesStarredOnce
<1>4. HouseInv' /\ focus' \in Component
  BY HouseholdParts, HouseStep, HouseStays DEF HouseholdInv
<1> QED
  BY <1>1, <1>2, <1>3, <1>4 DEF HouseholdInv

\* The inductive invariant of a household is that of its parts, at every step of which
\* the others rest.
THEOREM HouseholdInvariant == HouseholdSpec => []HouseholdInv
BY HouseholdBegins, NextHousehold, PTL DEF HouseholdSpec

\* The variables of every part of a household keep their types, for any number of
\* people, rows and requests.
THEOREM HouseholdTypesHold == HouseholdSpec => []HouseholdTypeOK
<1>1. HouseholdInv => RecordsTypeOK /\ ChildRecordsTypeOK
  BY RecordsTyped, ChildRecordsTyped DEF HouseholdInv
<1>2. HouseholdInv => InviteTypeOK /\ ReplaceTypeOK
  BY DEF HouseholdInv, InviteInv, ReplaceInv, ReplaceTypes
<1>3. HouseholdInv => CallsTypeOK
  BY DEF HouseholdInv, CallInv, CallTypes, CallsTypeOK, LogRows, CallTokens, LogIsTrue
<1>4. HouseholdInv => HouseholdTypeOK
  BY <1>1, <1>2, <1>3 DEF HouseholdTypeOK
<1> QED
  BY <1>4, HouseholdInvariant, PTL

\* pool.ts: rows two people write at once are rows one of them wrote, for any number
\* of people, rows and requests in flight: doses, letters, stars, fields, expenses,
\* cards, themes, hours, delays and notes.
THEOREM RowsAreAlwaysWhole == HouseholdSpec => []RowsAreWhole
<1>1. HouseholdInv => RowsAreWhole
  BY DosesHold, LettersHold, SharedHolds, HouseHolds DEF HouseholdInv, ChildRecordsInv, RowsAreWhole
<1> QED
  BY <1>1, HouseholdInvariant, PTL

\* Invitations, calls and records keep their promises in the household that has them all.
THEOREM HouseholdHolds == HouseholdSpec => [](InviteHolds /\ CallsHold /\ RecordsHold)
<1>1. HouseholdInv => InviteHolds
  BY DEF HouseholdInv, InviteInv, InviteHolds
<1>2. HouseholdInv => CallsHold
  BY DEF HouseholdInv, CallInv, CallsHold, NoStaleToken, TokenSound, HadTheRight
<1>3. HouseholdInv => RecordsHold
  BY ChainIsVerified DEF HouseholdInv, RecordInv, RecordsHold, ExportsInv, TakeInv
<1> QED
  BY <1>1, <1>2, <1>3, HouseholdInvariant, PTL

\* pool.ts: what is over stays over and as it was written: no step rewrites the instant
\* of an invite or the end of a call, stores half a list that was sent alone, or lets a
\* parent in once she took her archive.
THEOREM WhatIsOverIsOver == HouseholdSpec => OverIsOver
<1>1. ASSUME HouseholdInv, [HouseholdNext]_HouseholdVars
      PROVE  InviteInstantsFinal /\ EndedOnce /\ SentAloneIsWhole /\ NoAccessAfterHandover
  <2>1. InviteInstantsFinal /\ EndedOnce
    BY <1>1, HouseholdParts, NextInvites, NextCalls DEF HouseholdInv, EndedOnce
  <2>2. SentAloneIsWhole
    BY <1>1, HouseholdParts, NextReplace DEF HouseholdInv
  <2>3. NoAccessAfterHandover
    BY <1>1, HouseholdParts, AccessEnds DEF HouseholdInv
  <2> QED
    BY <2>1, <2>2, <2>3
<1> QED
  BY <1>1, HouseholdInvariant, PTL DEF HouseholdSpec, OverIsOver

=============================================================================
