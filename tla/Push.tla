-------------------------------- MODULE Push --------------------------------
(***************************************************************************)
(* Push notifications: the device_token table, registering and taking back *)
(* a device, deactivating the guardian whose devices they are, and         *)
(* notifyDevices(), which reads the rows of the child once and sends to    *)
(* all of them at the same time.  Android sends share one OAuth token,     *)
(* minted by whoever finds none; an iOS send signs its own token and is    *)
(* then a send like the others.  The platforms are external: a send        *)
(* succeeds, fails or is told that the device is gone, and that only when  *)
(* the app is.                                                             *)
(***************************************************************************)
EXTENDS Naturals, FiniteSets

CONSTANTS
  Kid, Adult,          \* the owners: the child, and one guardian
  PushToken,           \* devices with an Android app
  Leaving,             \* devices whose app may be removed
  Deaf,                \* tokens registered on a channel that cannot push
  Claim,               \* who may sign in on which device, as <<owner, token>>
  RegRequest,          \* registrations in flight at once
  Notification,        \* notifications in flight at once
  MaxRowId, Unclaimed

Owner == {Kid, Adult}

ASSUME PushAssumption ==
  /\ Claim \subseteq Owner \X PushToken /\ Leaving \subseteq PushToken
  /\ Unclaimed \notin Owner /\ MaxRowId \in Nat

VARIABLES
  device_token,     \* the table: rows [id, token, owner]
  lastId,
  installed,        \* tokens whose app is still on a device
  vouched,          \* history: whose registration an app last had, if nothing displaced it
  regReq,           \* what each registration is doing
  deactivated,      \* app_user.deactivated_at of Adult is set
  passedGate,       \* history: the tokens she was registering, past the gate, when it was
  cachedToken,      \* is there an OAuth token with more than the margin left
  minting,          \* sends that wait for the mint in flight, its starter included
  notify            \* what each notification is doing

tableVars == <<device_token, lastId, installed, vouched, regReq, deactivated, passedGate>>
accountVars == <<deactivated, passedGate>>
sendVars == <<cachedToken, minting, notify>>
pushVars == <<tableVars, sendVars>>

RegIdle == [pc |-> "idle"]
NotifyIdle == [pc |-> "idle", rows |-> {}, sent |-> << >>]

PushInit ==
  /\ device_token = {} /\ lastId = 0 /\ installed = PushToken /\ vouched = [t \in PushToken |-> Unclaimed]
  /\ regReq = [r \in RegRequest |-> RegIdle] /\ deactivated = FALSE /\ passedGate = {}
  /\ cachedToken = FALSE /\ minting = {}
  /\ notify = [n \in Notification |-> NotifyIdle]

RowsOf(t) == {d \in device_token : d.token = t}

-----------------------------------------------------------------------------
(* Registering. *)

\* A child has no account that could be deactivated, and no gate.
AskRegister(r, o, t) ==
  /\ regReq[r] = RegIdle /\ t \in installed
  /\ regReq' = [regReq EXCEPT ![r] =
       [pc |-> IF o = Adult THEN "gate" ELSE "upsert", owner |-> o, token |-> t]]
  /\ UNCHANGED <<device_token, lastId, installed, vouched, accountVars, sendVars>>

\* Mutant: the SELECT of deactivated_at is gone.
GateLeftOpen(r) ==
  /\ regReq[r].pc = "gate"
  /\ regReq' = [regReq EXCEPT ![r].pc = "upsert"]
  /\ UNCHANGED <<device_token, lastId, installed, vouched, accountVars, sendVars>>

\* deactivated_at is read in a transaction of its own, before that of the upsert.
DeactivationGate(r) ==
  /\ regReq[r].pc = "gate"
  /\ regReq' = [regReq EXCEPT ![r] = IF deactivated THEN RegIdle ELSE [@ EXCEPT !.pc = "upsert"]]
  /\ UNCHANGED <<device_token, lastId, installed, vouched, accountVars, sendVars>>

\* ON CONFLICT (token)
Clash(q) == RowsOf(q.token)

\* The caller's own upsert: a new row, the caller's row kept under its id, or
\* a denial where the row is another owner's.
UpsertToken(r) ==
  LET q == regReq[r]
      new == [id |-> lastId + 1, token |-> q.token, owner |-> q.owner] IN
  /\ q.pc \in {"upsert", "retry"} /\ lastId < MaxRowId
  /\ IF \E d \in Clash(q) : d.owner # q.owner
     THEN /\ regReq' = [regReq EXCEPT ![r] =
                 IF q.pc = "retry" THEN RegIdle ELSE [@ EXCEPT !.pc = "denied"]]
          /\ UNCHANGED <<device_token, lastId, vouched>>
     ELSE /\ device_token' = device_token \cup IF Clash(q) = {} THEN {new} ELSE {}
          /\ lastId' = IF Clash(q) = {} THEN lastId + 1 ELSE lastId
          /\ vouched' = [vouched EXCEPT ![q.token] = IF q.token \in installed THEN q.owner ELSE Unclaimed]
          /\ regReq' = [regReq EXCEPT ![r] = RegIdle]
  /\ UNCHANGED <<installed, accountVars, sendVars>>

\* The system role frees the token, and commits; the upsert is tried once more.
FreeToken(r) ==
  /\ regReq[r].pc = "denied"
  /\ device_token' = device_token \ RowsOf(regReq[r].token)
  /\ vouched' = [vouched EXCEPT ![regReq[r].token] = Unclaimed]
  /\ regReq' = [regReq EXCEPT ![r].pc = "retry"]
  /\ UNCHANGED <<lastId, installed, accountVars, sendVars>>

\* A query throws.  What an earlier transaction committed stays: a retry that fails
\* leaves the device with nobody's row.
RegisterFails(r) ==
  /\ regReq[r] # RegIdle
  /\ regReq' = [regReq EXCEPT ![r] = RegIdle]
  /\ UNCHANGED <<device_token, lastId, installed, vouched, accountVars, sendVars>>

\* RLS: an owner's DELETE sees her own rows only.
RowsOfOwner(o, t) == {d \in RowsOf(t) : d.owner = o}

unregisterDeviceToken(o, t) ==
  /\ RowsOfOwner(o, t) # {}
  /\ device_token' = device_token \ RowsOfOwner(o, t)
  /\ vouched' = [vouched EXCEPT ![t] = Unclaimed]
  /\ UNCHANGED <<lastId, installed, regReq, accountVars, sendVars>>

\* Her registrations that the gate has let by.
PastGate == {r \in RegRequest : regReq[r].pc \in {"upsert", "denied", "retry"} /\ regReq[r].owner = Adult}

\* deactivateAccount: her rows go and deactivated_at is set, in one transaction.
DeactivateOwner ==
  /\ ~deactivated /\ deactivated' = TRUE
  /\ device_token' = {d \in device_token : d.owner # Adult}
  /\ vouched' = [t \in PushToken |-> IF vouched[t] = Adult THEN Unclaimed ELSE vouched[t]]
  /\ passedGate' = {regReq[r].token : r \in PastGate}
  /\ UNCHANGED <<lastId, installed, regReq, sendVars>>

Uninstall(t) ==
  /\ t \in installed
  /\ installed' = installed \ {t} /\ vouched' = [vouched EXCEPT ![t] = Unclaimed]
  /\ UNCHANGED <<device_token, lastId, regReq, accountVars, sendVars>>

-----------------------------------------------------------------------------
(* notifyDevices *)

\* The rows are read once.  The gate speaks for the whole batch; a channel
\* that cannot push is answered without a send.
notifyDevices(n) ==
  LET rows == {d \in device_token : d.owner = Kid} IN
  /\ notify[n].pc = "idle"
  /\ \E allowed \in BOOLEAN :
       notify' = [notify EXCEPT ![n] =
         [pc |-> "sending", rows |-> rows,
          sent |-> [d \in rows |-> IF allowed /\ d.token \notin Deaf THEN "waiting" ELSE "refused"]]]
  /\ UNCHANGED <<tableVars, cachedToken, minting>>

SendIs(n, d, s) == notify[n].pc = "sending" /\ d \in notify[n].rows /\ notify[n].sent[d] = s
SendGoes(n, d, s) == notify' = [notify EXCEPT ![n].sent[d] = s]

\* inFlightMint
MintInFlight == minting # {}

mintAccessToken(n, d) ==
  /\ SendIs(n, d, "waiting")
  /\ IF cachedToken
     THEN SendGoes(n, d, "posting") /\ UNCHANGED minting
     ELSE /\ SendGoes(n, d, IF MintInFlight THEN "joined" ELSE "minting")
          /\ minting' = minting \cup {<<n, d>>}
  /\ UNCHANGED <<tableVars, cachedToken>>

\* What becomes of the sends that wait for the mint.
MintSettled(ok) ==
  [n \in Notification |->
    [notify[n] EXCEPT !.sent = [d \in notify[n].rows |->
      IF <<n, d>> \notin minting THEN notify[n].sent[d]
      ELSE IF ok THEN "posting" ELSE "failed"]]]

\* Google answers the mint: one token for everybody who waits, or none.
doMintAccessToken ==
  /\ minting # {}
  /\ \E ok \in BOOLEAN :
       /\ cachedToken' = (ok \/ cachedToken)
       /\ notify' = MintSettled(ok)
  /\ minting' = {}
  /\ UNCHANGED tableVars

\* Only a platform's own word that the device is gone; it may also fail to say it.
DeviceGone(t) == IF t \in installed THEN {FALSE} ELSE BOOLEAN

PlatformAnswers(n, d) ==
  /\ SendIs(n, d, "posting")
  /\ \/ d.token \in installed /\ SendGoes(n, d, "ok")
     \/ \E gone \in DeviceGone(d.token) : SendGoes(n, d, IF gone THEN "gone" ELSE "failed")
  /\ UNCHANGED <<tableVars, cachedToken, minting>>

\* The row is removed by its id; a cleanup that fails is swallowed.
removeDeviceTokenSystem(n, d) ==
  /\ SendIs(n, d, "gone")
  /\ device_token' \in {device_token, {e \in device_token : e.id # d.id}}
  /\ SendGoes(n, d, "failed")
  /\ UNCHANGED <<lastId, vouched, installed, regReq, accountVars, cachedToken, minting>>

Settled == {"ok", "failed", "refused"}

\* Promise.all over the sends.
NotifyReturns(n) ==
  /\ notify[n].pc = "sending"
  /\ \A d \in notify[n].rows : notify[n].sent[d] \in Settled
  /\ notify' = [notify EXCEPT ![n] = NotifyIdle]
  /\ UNCHANGED <<tableVars, cachedToken, minting>>

TokenLapses ==
  /\ cachedToken /\ cachedToken' = FALSE
  /\ UNCHANGED <<tableVars, minting, notify>>

SendStep(n) ==
  \/ \E d \in notify[n].rows :
       mintAccessToken(n, d) \/ PlatformAnswers(n, d) \/ removeDeviceTokenSystem(n, d)
  \/ NotifyReturns(n)

PushNext ==
  \/ \E r \in RegRequest :
       \/ DeactivationGate(r) \/ UpsertToken(r) \/ FreeToken(r) \/ RegisterFails(r)
       \/ \E c \in Claim : AskRegister(r, c[1], c[2])
  \/ \E c \in Claim : unregisterDeviceToken(c[1], c[2])
  \/ DeactivateOwner
  \/ \E t \in Leaving : Uninstall(t)
  \/ \E n \in Notification : notifyDevices(n) \/ SendStep(n)
  \/ doMintAccessToken \/ TokenLapses

PushSpec == PushInit /\ [][PushNext]_pushVars

\* The event loop runs what is ready, and Google answers or the fetch fails.
PushFairness ==
  /\ \A n \in Notification : WF_pushVars(SendStep(n))
  /\ WF_pushVars(doMintAccessToken)

-----------------------------------------------------------------------------
(* Properties. *)

DeviceRows == [id : 1..MaxRowId, token : PushToken, owner : Owner]

\* Values of the variables; a token has one row.
PushTypeOK ==
  /\ device_token \subseteq DeviceRows
  /\ \A t \in PushToken : Cardinality(RowsOf(t)) <= 1
  /\ lastId \in 0..MaxRowId /\ installed \subseteq PushToken
  /\ vouched \in [PushToken -> Owner \cup {Unclaimed}]
  /\ deactivated \in BOOLEAN /\ passedGate \subseteq PushToken /\ cachedToken \in BOOLEAN
  /\ minting \subseteq Notification \X DeviceRows
  /\ \A n \in Notification : notify[n].rows = DOMAIN notify[n].sent \/ notify[n] = NotifyIdle

\* fcm.ts, mintAccessToken: "two callers racing on the same tick can never
\* both fall through to a fresh mint".
OneMint ==
  Cardinality({m \in minting : notify[m[1]].sent[m[2]] = "minting"}) <= 1

\* notify.ts: one device's failure never touches another's; however the mint,
\* the sends and the cleanup end, the caller gets her results.
NotifyAnswers == \A n \in Notification : (notify[n].pc = "sending") ~> (notify[n].pc = "idle")

\* pool.ts, registerDeviceToken, and notify.ts: whoever registered a device last has its
\* row as long as the app is on it, unless she took it back, her account was deactivated
\* or another registration of that device displaced her; failed sends and answers about
\* an older row never cost her the device.
RegisteredDeviceHasRow ==
  \A t \in installed : vouched[t] # Unclaimed => \E d \in RowsOf(t) : d.owner = vouched[t]

\* pool.ts, registerDeviceToken: "growing fresh push surface after deactivation".  Of a
\* deactivated guardian no device is left and none comes, except those whose
\* registration was already past the gate: "a device_token row can still land".
DeactivatedGainsNoDevice ==
  deactivated => \A d \in device_token : d.owner = Adult => d.token \in passedGate

\* fcm.ts and pool.ts: one token is minted at a time, a device that was registered is
\* reached through its row, and a deactivated guardian is given no new one.
PushHolds == OneMint /\ RegisteredDeviceHasRow /\ DeactivatedGainsNoDevice
=============================================================================
