------------------------------- MODULE Pairing -------------------------------
(***************************************************************************)
(* Pairing a device: a guardian makes a short-lived code, a device that    *)
(* has no session redeems it by its id or by its six digits, the guardian  *)
(* may cancel the code and later revoke the device, and every request of a *)
(* paired device is checked against that revocation.                       *)
(***************************************************************************)
EXTENDS Naturals, FiniteSets

CONSTANTS
  Code, Number, Device,
  PairRequest,                \* each is one HTTP request
  DEVICE_CODE_MAX_ATTEMPTS,
  CODE_TTL, MaxPairClock,     \* lifetime of a code, bound on the clock
  NotYet                      \* no instant, no holder

ASSUME PairingAssumption ==
  /\ DEVICE_CODE_MAX_ATTEMPTS \in Nat \ {0} /\ CODE_TTL \in Nat \ {0} /\ MaxPairClock \in Nat
  /\ NotYet \notin Nat \cup PairRequest

VARIABLES
  device_pairing_code,   \* the table, a row per code
  codeLock,              \* holder of the lock on each row
  paired_device,         \* the table, a row per device
  pairReq,               \* what each request is doing
  pairClock

pairVars == <<device_pairing_code, codeLock, paired_device, pairReq, pairClock>>

PairableRole == {"child", "guardian"}
NoCode == [number |-> NotYet]
NoDevice == [via |-> NotYet]
PairIdle == [op |-> "none"]

PairInit ==
  /\ device_pairing_code = [c \in Code |-> NoCode]
  /\ codeLock = [c \in Code |-> NotYet]
  /\ paired_device = [d \in Device |-> NoDevice]
  /\ pairReq = [r \in PairRequest |-> PairIdle]
  /\ pairClock = 0

Issued(c) == device_pairing_code[c] # NoCode
CodeCancelled(c) == device_pairing_code[c].revoked_at # NotYet
CodeRedeemed(c) == device_pairing_code[c].redeemed_at # NotYet
CodeExpired(c, now) == device_pairing_code[c].created_at + CODE_TTL <= now
Outstanding(c) == Issued(c) /\ ~CodeCancelled(c) /\ ~CodeRedeemed(c) /\ ~CodeExpired(c, pairClock)
Paired(d) == paired_device[d] # NoDevice

PairGo(r, q) == pairReq' = [pairReq EXCEPT ![r] = q]
PairCommit(r) ==
  /\ codeLock' = [c \in Code |-> IF codeLock[c] = r THEN NotYet ELSE codeLock[c]]
  /\ PairGo(r, PairIdle)
  /\ UNCHANGED pairClock

-----------------------------------------------------------------------------
(* Making and cancelling a code. *)

\* A number no outstanding code has, by a SELECT; or none in ten attempts,
\* which only happens when there are codes to collide with.
PickNumber(r, role, n) ==
  /\ pairReq[r] = PairIdle
  /\ ~\E c \in Code : Outstanding(c) /\ device_pairing_code[c].number = n
  /\ PairGo(r, [op |-> "create", role |-> role, number |-> n])
  /\ UNCHANGED <<device_pairing_code, codeLock, paired_device, pairClock>>

\* Her own PIN has let the guardian through (PinGate).
ChildCodeRoute(r, n) == PickNumber(r, "child", n)
MeCodeRoute(r, n) == PickNumber(r, "guardian", n)

createDevicePairingCode(r, c) ==
  LET q == pairReq[r] IN
  /\ q.op = "create" /\ ~Issued(c)
  /\ device_pairing_code' = [device_pairing_code EXCEPT ![c] =
       [number |-> q.number, role |-> q.role, created_at |-> pairClock,
        redeemed_at |-> NotYet, revoked_at |-> NotYet, failed_attempts |-> 0]]
  /\ PairGo(r, PairIdle)
  /\ UNCHANGED <<codeLock, paired_device, pairClock>>

\* The clock is read by the route, before the row is waited for.
AskCancel(r, c) ==
  /\ pairReq[r] = PairIdle /\ Issued(c)
  /\ PairGo(r, [op |-> "cancel", code |-> c, now |-> pairClock, held |-> FALSE])
  /\ UNCHANGED <<device_pairing_code, codeLock, paired_device, pairClock>>

cancelDevicePairingCode(r) ==
  LET q == pairReq[r] IN
  /\ q.op = "cancel"
  /\ \/ /\ ~q.held /\ codeLock[q.code] = NotYet
        /\ IF CodeRedeemed(q.code)
           THEN PairGo(r, PairIdle) /\ UNCHANGED codeLock
           ELSE /\ PairGo(r, [q EXCEPT !.held = TRUE])
                /\ codeLock' = [codeLock EXCEPT ![q.code] = r]
        /\ UNCHANGED <<device_pairing_code, pairClock>>
     \/ /\ q.held
        /\ device_pairing_code' = [device_pairing_code EXCEPT ![q.code].revoked_at =
             IF @ = NotYet THEN q.now ELSE @]
        /\ PairCommit(r)
  /\ UNCHANGED paired_device

-----------------------------------------------------------------------------
(* Redeeming. *)

AskRedeem(r, rows, role) ==
  /\ pairReq[r] = PairIdle
  /\ PairGo(r, [op |-> "redeem", rows |-> rows, role |-> role, now |-> pairClock,
                code |-> NotYet, held |-> FALSE])
  /\ UNCHANGED <<device_pairing_code, codeLock, paired_device, pairClock>>

Guessable(c) == device_pairing_code[c].failed_attempts < DEVICE_CODE_MAX_ATTEMPTS

\* Mutant: the rows are read without FOR UPDATE.
ReadCodeUnlocked(r, c) ==
  LET q == pairReq[r] IN
  /\ q.op = "redeem" /\ ~q.held /\ c \in q.rows
  /\ IF /\ ~CodeCancelled(c) /\ ~CodeRedeemed(c) /\ ~CodeExpired(c, q.now)
        /\ Guessable(c)
     THEN PairGo(r, [q EXCEPT !.held = TRUE, !.code = c])
     ELSE PairGo(r, PairIdle)
  /\ UNCHANGED <<device_pairing_code, codeLock, paired_device, pairClock>>

\* SELECT ... WHERE id = $1 OR numeric_code = $1 FOR UPDATE locks every match,
\* the old ones included, and judges by whichever row comes first.
ReadCode(r, c) ==
  LET q == pairReq[r] IN
  /\ q.op = "redeem" /\ ~q.held /\ c \in q.rows
  /\ \A m \in q.rows : codeLock[m] = NotYet
  /\ IF /\ ~CodeCancelled(c) /\ ~CodeRedeemed(c) /\ ~CodeExpired(c, q.now)
        /\ Guessable(c)
     THEN /\ PairGo(r, [q EXCEPT !.held = TRUE, !.code = c])
          /\ codeLock' = [m \in Code |-> IF m \in q.rows THEN r ELSE codeLock[m]]
     ELSE PairGo(r, PairIdle) /\ UNCHANGED codeLock
  /\ UNCHANGED <<device_pairing_code, paired_device, pairClock>>

\* Code or device: a wrong role counts against the code, the right one pairs.
redeemDevicePairingCode(r, d) ==
  LET q == pairReq[r] IN
  /\ q.op = "redeem" /\ q.held
  /\ IF device_pairing_code[q.code].role # q.role
     THEN /\ device_pairing_code' = [device_pairing_code EXCEPT ![q.code].failed_attempts = @ + 1]
          /\ UNCHANGED paired_device
     ELSE /\ ~Paired(d)
          /\ paired_device' = [paired_device EXCEPT ![d] =
               [via |-> q.code, role |-> q.role, revoked_at |-> NotYet]]
          /\ device_pairing_code' = [device_pairing_code EXCEPT ![q.code].redeemed_at = pairClock]
  /\ PairCommit(r)

-----------------------------------------------------------------------------
(* Revoking a device, and its requests. *)

\* Mutant: whether the device exists is all that is checked.
isPairedDeviceKnown(d) == ~Paired(d)

\* A device nobody knows counts as revoked.
isPairedDeviceRevoked(d) == ~Paired(d) \/ paired_device[d].revoked_at # NotYet

\* The row is held from the read to the write; a second revoke changes nothing.
revokePairedDevice(d) ==
  /\ Paired(d)
  /\ paired_device' = [paired_device EXCEPT ![d].revoked_at = IF @ = NotYet THEN pairClock ELSE @]
  /\ UNCHANGED <<device_pairing_code, codeLock, pairReq, pairClock>>

\* Api.handle: the device is checked when the request arrives, then it is served.
DeviceAsks(r, d) ==
  /\ pairReq[r] = PairIdle /\ ~isPairedDeviceRevoked(d)
  /\ PairGo(r, [op |-> "serve", device |-> d])
  /\ UNCHANGED <<device_pairing_code, codeLock, paired_device, pairClock>>
DeviceServed(r) ==
  /\ pairReq[r].op = "serve"
  /\ PairGo(r, PairIdle)
  /\ UNCHANGED <<device_pairing_code, codeLock, paired_device, pairClock>>

PairTick ==
  /\ pairClock < MaxPairClock
  /\ pairClock' = pairClock + 1
  /\ UNCHANGED <<device_pairing_code, codeLock, paired_device, pairReq>>

Matches(n) == {c \in Code : Issued(c) /\ device_pairing_code[c].number = n}

PairServe(r) ==
  \/ cancelDevicePairingCode(r) \/ DeviceServed(r)
  \/ \E c \in Code : createDevicePairingCode(r, c) \/ ReadCode(r, c)
  \/ \E d \in Device : redeemDevicePairingCode(r, d)

PairAsk(r) ==
  \/ \E n \in Number : ChildCodeRoute(r, n) \/ MeCodeRoute(r, n)
  \/ \E role \in PairableRole :
       \/ \E n \in Number : Matches(n) # {} /\ AskRedeem(r, Matches(n), role)
       \/ \E c \in Code : Issued(c) /\ AskRedeem(r, {c}, role)
  \/ \E c \in Code : AskCancel(r, c)
  \/ \E d \in Device : DeviceAsks(r, d)

PairNext ==
  \/ \E r \in PairRequest : PairServe(r) \/ PairAsk(r)
  \/ \E d \in Device : revokePairedDevice(d)
  \/ PairTick

PairSpec == PairInit /\ [][PairNext]_pairVars

\* A request that was admitted is served to its end.
PairFairness == \A r \in PairRequest : WF_pairVars(DeviceServed(r))

-----------------------------------------------------------------------------
(* Properties. *)

PairInstants == 0..MaxPairClock
PairRequests == {PairIdle}
  \cup [op : {"create"}, role : PairableRole, number : Number]
  \cup [op : {"cancel"}, code : Code, now : PairInstants, held : BOOLEAN]
  \cup [op : {"redeem"}, rows : SUBSET Code, role : PairableRole, now : PairInstants,
        code : Code \cup {NotYet}, held : BOOLEAN]
  \cup [op : {"serve"}, device : Device]

\* Values of the variables; whoever holds a row is in the middle of writing it.
PairTypeOK ==
  /\ device_pairing_code \in [Code -> {NoCode} \cup
       [number : Number, role : PairableRole, created_at : PairInstants,
        redeemed_at : PairInstants \cup {NotYet}, revoked_at : PairInstants \cup {NotYet},
        failed_attempts : 0..DEVICE_CODE_MAX_ATTEMPTS]]
  /\ codeLock \in [Code -> PairRequest \cup {NotYet}]
  /\ paired_device \in [Device -> {NoDevice} \cup
       [via : Code, role : PairableRole, revoked_at : PairInstants \cup {NotYet}]]
  /\ pairReq \in [PairRequest -> PairRequests]
  /\ pairClock \in PairInstants
  /\ \A c \in Code : codeLock[c] # NotYet => pairReq[codeLock[c]].op \in {"cancel", "redeem"}

\* pool.ts, redeemDevicePairingCode: however redeems, cancels and guesses race,
\* a code pairs at most one device, one of its own role, and neither a
\* cancelled code nor one locked by wrong roles ever pairs any.
PairedOnce ==
  \A d \in Device : Paired(d) =>
    LET c == paired_device[d].via IN
    /\ paired_device[d].role = device_pairing_code[c].role
    /\ CodeRedeemed(c) /\ ~CodeCancelled(c)
    /\ device_pairing_code[c].failed_attempts < DEVICE_CODE_MAX_ATTEMPTS
    /\ \A e \in Device : Paired(e) /\ paired_device[e].via = c => e = d

\* api.ts, handle: a revoked device is refused, whatever its token still says;
\* at most the requests admitted before are answered, and then none is.
RevokedDeviceOut ==
  \A d \in Device :
    (Paired(d) /\ paired_device[d].revoked_at # NotYet)
      ~> [](\A r \in PairRequest : pairReq[r].op = "serve" => pairReq[r].device # d)
=============================================================================
